------------------------------ MODULE ArchiveLog ------------------------------
(***************************************************************************)
(* What the archive promises to whoever opens its files.  Messages are     *)
(* given to it in the order of their numbers.  What it keeps is, at any    *)
(* moment, all of them up to one, and it never keeps less than before:     *)
(* not when it goes on to another file, nor when that fails, nor when it   *)
(* dies.  If it ends in order it has kept everything, and nothing is given *)
(* to it any more.                                                         *)
(***************************************************************************)
EXTENDS Naturals
CONSTANT Ids       (* the numbers of messages                              *)
VARIABLES given,   (* the messages handed to the archive                   *)
          kept,    (* those in any of its files                            *)
          over     (* it has ended in order                                *)
logVars == <<given, kept, over>>

LogInit == given = {} /\ kept = {} /\ over = FALSE

Give(n) ==
  /\ ~over /\ \A i \in given : i < n
  /\ given' = given \cup {n}
  /\ UNCHANGED <<kept, over>>

Keep(n) ==
  /\ ~over /\ n \in given \ kept
  /\ kept' = {i \in given : i <= n}
  /\ UNCHANGED <<given, over>>

End ==
  /\ ~over /\ kept = given
  /\ over' = TRUE
  /\ UNCHANGED <<given, kept>>

LogNext == End \/ \E n \in Ids : Give(n) \/ Keep(n)

LogSpec == LogInit /\ [][LogNext]_logVars
=============================================================================
