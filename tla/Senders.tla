------------------------------- MODULE Senders -------------------------------
(***************************************************************************)
(* What one call send(path, meta) of the senders of net/senders.py may end *)
(* in.  A result says whether send returned, and what is at the recipient  *)
(* then: nothing of the file, a part of it, or the whole file.             *)
(*                                                                         *)
(* Each set lists the ways through the method, one line per request that   *)
(* may fail.  A request that fails may have had its effect: the answer is  *)
(* lost, not the request.                                                  *)
(***************************************************************************)

Kinds == {"storage", "noop", "dex", "rest", "scp", "ftp", "sftp", "copy"}
Contents == {"nothing", "part", "whole"}

Returns(there) == [returned |-> TRUE, there |-> there]
Raises(there) == [returned |-> FALSE, there |-> there]

(* A storage that is not registered is passed over, one that raises ends   *)
(* the loop: what the storages before it hold is a part of the job.  The   *)
(* last one may raise with the copy made, when it trims its folder.        *)
StorageResults ==
  {Returns("whole"), Returns("part"), Returns("nothing"),
   Raises("whole"), Raises("part"), Raises("nothing")}

NoopResults == {Returns("nothing")}

(* The first post carries the file.  After a redirection the same, by then *)
(* exhausted, file object is read for the second one: it has no body.      *)
DexPost == {Raises("nothing"), Raises("whole"), Returns("whole")}
DexRedirected == {Raises("nothing"), Returns("nothing")}
DexResults == DexPost \cup DexRedirected

(* Mutant: rest_sender swallows the answer of the other node. *)
RestSwallows == {Returns("nothing"), Returns("whole")}

(* Any answer but 200 raises, 409 too, although the other node has the     *)
(* file then; so does an answer that does not come.                        *)
RestResults == {Raises("nothing"), Raises("whole"), Returns("whole")}

(* The directory is made by a command that is not waited for: the transfer *)
(* may come too early and raise; so may the end of a transfer.             *)
ScpResults == {Raises("nothing"), Raises("part"), Raises("whole"), Returns("whole")}

(* Connecting and changing, or making, the directory may raise before the  *)
(* transfer; the quit of the finally clause may after it.                  *)
FtpResults == {Raises("nothing"), Raises("part"), Raises("whole"), Returns("whole")}

(* See SftpSender. *)
SftpResults == {Raises("nothing"), Raises("part"), Raises("whole"), Returns("whole")}

(* copyfile writes, and closes what it wrote. *)
CopyResults == {Raises("nothing"), Raises("part"), Raises("whole"), Returns("whole")}

SendResults(kind) ==
  CASE kind = "storage" -> StorageResults
    [] kind = "noop" -> NoopResults
    [] kind = "dex" -> DexResults
    [] kind = "rest" -> RestResults
    [] kind = "scp" -> ScpResults
    [] kind = "ftp" -> FtpResults
    [] kind = "sftp" -> SftpResults
    [] kind = "copy" -> CopyResults

(* The senders that may return although the recipient lacks the file: noop *)
(* by intent, storage when no storage of that name is registered, dex when *)
(* it was redirected.                                                      *)
MayWithhold == {"storage", "noop", "dex"}
=============================================================================
