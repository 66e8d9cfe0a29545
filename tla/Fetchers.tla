------------------------------ MODULE Fetchers ------------------------------
(***************************************************************************)
(* The fetchers of net/fetchers.py: which files they ask for and what they *)
(* give to store_file.                                                     *)
(*                                                                         *)
(* A fetcher is [id, kind, fnpattern, pattern, path, here]: whether the    *)
(* patterns are configured, whether the path names a folder or is a        *)
(* pattern itself, and whether the folder of an sftp server happens to be  *)
(* on this host, too.  What lies there is a sequence of [file, folder,     *)
(* fnmatch, match]: a folder has the name, too, and what the patterns say. *)
(***************************************************************************)
LOCAL INSTANCE Sequences

Kinds == {"sftp", "scp", "ftp", "copy"}

(* The constructors: sftp wants a pattern, copy has one by default.        *)
Constructs(fetcher) == fetcher.kind = "sftp" => fetcher.fnpattern \/ fetcher.pattern

(* fetcher_manager: a fetcher without an id gets one of its own. *)
MadeUp == "made up"
FetcherFromConf(conf) == [conf EXCEPT !.id = IF @ = "" THEN MadeUp ELSE @]

HasFnPattern(fetcher) == fetcher.fnpattern \/ fetcher.kind = "copy"
Passes(fetcher, entry) ==
  /\ HasFnPattern(fetcher) => entry.fnmatch
  /\ fetcher.pattern => entry.match

(* What becomes of an entry asked for: store_file gets its content         *)
(* ("file") or the name of something that is no file ("no file"), or it is *)
(* not called ("raises").                                                  *)
StoreCall(fetcher, e, given) == [nid |-> fetcher.id, file |-> e.file, given |-> given]

(* sftp gives the name on the other host, not the copy it made.            *)
SftpFetched(fetcher, listing) ==
  LET asked == SelectSeq(listing, LAMBDA e : Passes(fetcher, e) /\ ~e.folder)
  IN [n \in DOMAIN asked |->
        StoreCall(fetcher, asked[n], IF fetcher.here THEN "file" ELSE "no file")]

(* scp has patterns but does not look at them.  The name that ls gives for *)
(* the content of a folder leads it nowhere.                               *)
ScpFetched(fetcher, listing) ==
  [n \in DOMAIN listing |->
     StoreCall(fetcher, listing[n],
               IF listing[n].folder \/ fetcher.path = "folder" THEN "raises" ELSE "file")]

FtpFetched(fetcher, listing) ==
  LET asked == SelectSeq(listing, LAMBDA e : Passes(fetcher, e))
  IN [n \in DOMAIN asked |->
        StoreCall(fetcher, asked[n], IF asked[n].folder THEN "raises" ELSE "file")]

CopyFetched(fetcher, listing) ==
  LET asked == SelectSeq(listing, LAMBDA e : Passes(fetcher, e))
  IN [n \in DOMAIN asked |->
        StoreCall(fetcher, asked[n], IF asked[n].folder THEN "no file" ELSE "file")]

(* The files a fetch gives to store_file, under its id, if nothing raises. *)
Fetched(fetcher, listing) ==
  CASE fetcher.kind = "sftp" -> SftpFetched(fetcher, listing)
    [] fetcher.kind = "scp" -> ScpFetched(fetcher, listing)
    [] fetcher.kind = "ftp" -> FtpFetched(fetcher, listing)
    [] fetcher.kind = "copy" -> CopyFetched(fetcher, listing)
=============================================================================
