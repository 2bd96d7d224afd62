SPECIFICATION Spec
CONSTANTS
    Reqs = {r1, r2}
    Names = {"a.txt", "b.tar", "c.zip"}
    Hidden = {}
    Banned = {}
    Tars = {"b.tar"}
    Zips = {"c.zip"}
    Stuff = {"bad", "odd", "tar", "zip"}
    Big = {"bad"}
    Odd = {"bad", "odd"}
    Signed = {"bad"}
    Tarred = {"tar"}
    Zipped = {"zip"}
    Uploads <- MCUploads
    Inside <- MCInside
    None = None
INVARIANT SafeMeansScanned
