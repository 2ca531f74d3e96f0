-------------------------- MODULE MCResidentTurns --------------------------
(***************************************************************************)
(* Small instances of ResidentTurns for TLC.  The messages are            *)
(* interchangeable: no action and no property tells them apart.            *)
(***************************************************************************)
EXTENDS ResidentTurns, TLC

MsgSymmetry == Permutations(Msg)
----------------------------------------------------------------------------
(* What one could expect and the code does not keep.  README.md says how each *)
(* fails; adding one to a configuration shows the behaviour.                  *)

\* A turn that was queued starts only when the cards before it in the task ended.
QueuedInOrder ==
    [][\A c \in Card :
         pc[c] = "waiting" /\ Active(c)' =>
             \A d \in CardsOf(sess[c]) : d < c => status'[d] \notin OpenStatus]_vars

\* The card of a turn that a Stop reached before it committed closes as stopped.
StoppedCloses ==
    \A c \in stopReq : status[c] \in EndStatus => status[c] = "stopped"

\* A journal row says resuming only while no turn of the card lives here.
ResumingIsNotLive ==
    \A c \in Card : journal[c] = "resuming" => ~Live(c)

\* Every message that joined a card is read, or was dropped by a Stop, before its
\* card ends with a reply.
RepliedReadAll ==
    \A m \in Msg : home[m] # NoCard /\ status[home[m]] = "complete"
                     => m \in read \cup dropped
=============================================================================
