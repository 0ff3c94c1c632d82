-------------------------------- MODULE MCISO --------------------------------
(* The instance of ISO that TLC checks, with fewer of the interleavings    *)
(* that cannot be told apart: a client reads its messages as soon as they  *)
(* are sent (the delay of an answer is the time it spends in the stream    *)
(* back), and what only one step of the loop reads changes just before it  *)
(* is read: a flag, and whether a client can be sent to.  For the same     *)
(* reason the loop goes on after a stop of the service only when a thread  *)
(* has left: until then the service does nothing it does not do without.   *)
EXTENDS ISO

AllRead == \A c \in Client : dispatch[c] = << >>
StopIsSeen == serverUp \/ \E c \in Client : handler[c] = "left"

MCNext ==
  \/ AllRead /\ (RunAgent \/ \E c \in Client : Response(c))
  \/ AllRead /\ StopIsSeen /\ SimStep
  \/ AllRead /\ sim \in {"off", "pg"} /\ Connection
  \/ sim = "top" /\ StopAgent
  \/ sim = "pg" /\ Stop
  \/ sim = "freq" /\ GridNotice
  \/ \E c \in Client : ClientAnswers(c)

MCSpec == IsoInit /\ [][MCNext]_vars
=============================================================================
