---------------------------- MODULE MCSftpSender ----------------------------
(* The senders TLC explores: one thread with every combination of options,   *)
(* for a publication with relative or absolute directories, none or all of   *)
(* these, and two threads with a session per file, or a kept one and a       *)
(* temporary name.                                                           *)
EXTENDS SftpSender

CONSTANTS f, g, h

MCHome == <<"home">>
MCNested == {<<"home", "d", "d">>, <<"home", "d">>}

Placed(abs, s) ==
  [x \in Files |-> [abs |-> abs, path |-> IF x = f THEN s \o <<"e">>
                                          ELSE s \o <<"d">>]]
Flat == [x \in Files |-> [abs |-> FALSE, path |-> <<>>]]
Mixed == [Flat EXCEPT ![f].path = <<"d">>, ![g].abs = TRUE]
Dirs == {Placed(FALSE, <<>>), Placed(TRUE, <<"top">>), Flat, Mixed}

MCConfigurations ==
  [threads : {1}, max : {0, 2}, tmp : BOOLEAN, create : BOOLEAN,
   home : BOOLEAN, dir : Dirs]
  \cup {[threads |-> 2, max |-> m, tmp |-> m > 0, create |-> TRUE,
          home |-> TRUE, dir |-> Placed(FALSE, <<>>)] : m \in {0, 2}}
=============================================================================
