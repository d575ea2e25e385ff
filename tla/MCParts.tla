------------------------------- MODULE MCParts -------------------------------
(***************************************************************************)
(* The parts that need no pack beside them, for TLC: normalize_path and    *)
(* the loop over .spkdel, the index codec, the loops that move bytes, the  *)
(* header's parameters, the C interface and the page's password change.  A *)
(* behaviour is one of one part; the others are at rest.                   *)
(***************************************************************************)
EXTENDS DeletionList, Manifest, Transfer, KdfHeader, CApi, WebRekey

PartialMaps(D, R) == UNION {[S -> R] : S \in SUBSET D}

\* Indexes of at most two blobs and two paths.  The fields of a blob differ, and so
\* do a hash, a time and a length.
SmallIndexes ==
  [blobs : {b \in PartialMaps({8, 9}, {<<1, 2, 3, 0>>, <<4, 5, 6, 1>>}) :
              \A h \in DOMAIN b : (b[h][1] = 1) = (h = 8)},
   paths : PartialMaps({<<11>>, <<11, 12>>}, {<<8, 13>>, <<9, 14>>})]

ListRests == names = <<>> /\ text = <<>> /\ start = 2 /\ dels = {}
ReadRests ==
  /\ source = EmptyIndex /\ kind = "whole" /\ d = <<>> /\ p = 0 /\ pc = "done"
  /\ left = 0 /\ idx = EmptyIndex /\ out = EmptyIndex /\ reached = 0
TransferRests ==
  /\ job = [loop |-> "posix", off |-> 0, n |-> 0] /\ from = "file" /\ done = 0
  /\ moved = <<>> /\ interrupts = 0 /\ result = "true"
KdfRests ==
  /\ header = [whole |-> FALSE, magic |-> FALSE, version |-> FALSE,
               kdf |-> [nb_blocks |-> 0, nb_passes |-> 0, nb_lanes |-> 0]]
  /\ stage = "refused" /\ work_size = 0

RekeyRests ==
  /\ serving = FALSE /\ slot = NoPassword /\ onDisk = {} /\ agreed = slot /\ attempted = {}
  /\ request = [c \in Client |-> Unasked]

\* The C interface needs no rest: its first state is one, until the part is chosen.
VARIABLE part

Init ==
  \/ part = "list" /\ ListInit /\ ReadRests /\ TransferRests /\ KdfRests /\ ApiInit /\ RekeyRests
  \/ part = "read" /\ ListRests /\ ReadInit /\ TransferRests /\ KdfRests /\ ApiInit /\ RekeyRests
  \/ part = "transfer" /\ ListRests /\ ReadRests /\ TransferInit /\ KdfRests /\ ApiInit /\ RekeyRests
  \/ part = "kdf" /\ ListRests /\ ReadRests /\ TransferRests /\ KdfInit /\ ApiInit /\ RekeyRests
  \/ part = "api" /\ ListRests /\ ReadRests /\ TransferRests /\ KdfRests /\ ApiInit /\ RekeyRests
  \/ part = "rekey" /\ ListRests /\ ReadRests /\ TransferRests /\ KdfRests /\ ApiInit /\ RekeyInit

Loops ==
  \/ Line /\ UNCHANGED <<readVars, transferVars, kdfVars>>
  \/ ReadNext /\ UNCHANGED <<listVars, transferVars, kdfVars>>
  \/ TransferNext /\ UNCHANGED <<listVars, readVars, kdfVars>>
  \/ KdfNext /\ UNCHANGED <<listVars, readVars, transferVars>>

loopVars == <<listVars, readVars, transferVars, kdfVars>>

Next ==
  \/ Loops /\ UNCHANGED <<part, apiVars, rekeyVars>>
  \/ part = "api" /\ ApiNext /\ UNCHANGED <<part, loopVars, rekeyVars>>
  \/ part = "rekey" /\ RekeyNext /\ UNCHANGED <<part, loopVars, apiVars>>

\* Each loop is one call of one thread, which goes on.
Spec == Init /\ [][Next]_<<part, loopVars, apiVars, rekeyVars>>
             /\ WF_<<part, loopVars, apiVars, rekeyVars>>(Loops /\ UNCHANGED <<part, apiVars, rekeyVars>>)

\* Every loop ends, whatever text, buffer or header it is given and however the
\* system cuts its calls up.
Ends == <>(~ More /\ pc \in {"done", "failed"} /\ result # "none" /\ stage \in {"refused", "crypto_argon2"})
=============================================================================
