SPECIFICATION Spec
CONSTANTS
  Kinds = {"CREAT","MKDIR","MKNOD","SLINK","CLOSE","TRUNC","SATTR","MTIME","CTIME","HLINK","RENME","UNLNK_LAST","RMDIR","UNLNK","XATTR","LYOUT","HSM"}
  MaxRec = 5
INVARIANTS DedupKeepsRow
CHECK_DEADLOCK FALSE
