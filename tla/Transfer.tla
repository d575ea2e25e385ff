------------------------------- MODULE Transfer -------------------------------
(***************************************************************************)
(* The loops that move bytes where the system may move fewer than asked:   *)
(* pwrite_all and pread_all (src/src/os_posix.cpp, src/src/os_win32.cpp),  *)
(* under every read and write of a pack, and random_bytes                  *)
(* (src/src/crypto.cpp), under every key, salt and nonce.                  *)
(***************************************************************************)
EXTENDS Integers, Functions

CONSTANTS
  MaxBytes, MaxOffset,  \* bound: the bytes of a call, and the offset of the first
  WordSize,             \* the values of a DWORD
  MaxChunk,             \* the most bytes that WriteFile and ReadFile are asked for
  MaxInterrupts         \* bound: system calls of a loop that a signal interrupts

ASSUME TransferAssumption ==
  /\ MaxBytes \in Nat /\ MaxOffset \in Nat /\ MaxInterrupts \in Nat
  /\ WordSize \in Nat \ {0} /\ MaxChunk \in Nat \ {0}

Byte == 0..(MaxBytes - 1)

VARIABLES
  job,         \* the call: its loop, off and n
  from,        \* what it takes bytes from or gives them to: the file, or a generator
  done,        \* the bytes moved so far
  moved,       \* history: what each byte was exchanged with last
  interrupts,  \* how often EINTR may still happen
  result

transferVars == <<job, from, done, moved, interrupts, result>>

Loop == {"posix", "win32", "random_bytes"}
Job == [loop : Loop, off : 0..MaxOffset, n : 0..MaxBytes]
Source == {"file", "getrandom", "/dev/urandom"}

\* Faulty variants, each a bug one could write.
AllAtOnce(k) == job.n

\* Where the next system call of a loop over a file begins.
NextAt == job.off + done

\* An OVERLAPPED carries the offset in two words.
Overlapped(x) == [Offset |-> x % WordSize, OffsetHigh |-> x \div WordSize]
Position(ov) == ov.OffsetHigh * WordSize + ov.Offset
Addressed(x) == Position(Overlapped(x))

\* The most bytes that the next system call may move.
Asked == IF job.loop = "win32" /\ job.n - done > MaxChunk THEN MaxChunk ELSE job.n - done

\* What byte i is exchanged with, done bytes after the first of the call.
Place(i) ==
  IF job.loop = "random_bytes" THEN from
  ELSE (IF job.loop = "win32" THEN Addressed(NextAt) ELSE NextAt) + (i - done)

Running == result = "none"
Looping == Running /\ done < job.n

\* How much further the loop is after a system call moved k bytes.
Advanced(k) == done + k

\* A system call moved k bytes.
Moves(k) ==
  /\ Looping
  /\ moved' = [i \in DOMAIN moved \union done..(done + k - 1) |->
                 IF i >= done /\ i < done + k THEN Place(i) ELSE moved[i]]
  /\ done' = Advanced(k)
  /\ UNCHANGED <<job, from, interrupts, result>>

\* EINTR, which Windows does not have: the call is made again.
Interrupted ==
  /\ Looping /\ job.loop # "win32" /\ interrupts > 0
  /\ interrupts' = interrupts - 1
  /\ UNCHANGED <<job, from, done, moved, result>>

\* Any other error, or the end of the file.  After getrandom failed, /dev/urandom
\* fills the buffer from its beginning.
Fails ==
  /\ Looping
  /\ IF from = "getrandom"
       THEN from' = "/dev/urandom" /\ done' = 0 /\ UNCHANGED result
       ELSE result' = "false" /\ UNCHANGED <<from, done>>
  /\ UNCHANGED <<job, moved, interrupts>>

\* /dev/urandom cannot be opened.
NoDevice ==
  /\ Running /\ from = "/dev/urandom" /\ done = 0
  /\ result' = "false"
  /\ UNCHANGED <<job, from, done, moved, interrupts>>

TransferReturns ==
  /\ Running /\ ~ Looping
  /\ result' = "true"
  /\ UNCHANGED <<job, from, done, moved, interrupts>>

TransferInit ==
  /\ job \in Job
  /\ from \in IF job.loop = "random_bytes" THEN {"getrandom", "/dev/urandom"} ELSE {"file"}
  /\ done = 0 /\ moved = <<>> /\ interrupts = MaxInterrupts
  /\ result = "none"

TransferNext ==
  \/ \E k \in 1..MaxBytes : k <= Asked /\ Moves(k)
  \/ Interrupted \/ Fails \/ NoDevice \/ TransferReturns

TransferSpec == TransferInit /\ [][TransferNext]_transferVars

-----------------------------------------------------------------------------
(* Properties.                                                             *)

Right(i) == IF job.loop = "random_bytes" THEN moved[i] \in Source \ {"file"} ELSE moved[i] = job.off + i

\* A call that returns true has moved every byte, each to or from its own place
\* (positional all-or-nothing I/O, src/src/os_win32.cpp) or each from a generator; and
\* however the system cuts a call up, even if it fails, no byte outside the part of
\* the file that the caller named is touched: what was committed before it stays.
ExactlyMoved ==
  /\ \A i \in DOMAIN moved : i < job.n /\ Right(i)
  /\ result = "true" => DOMAIN moved = 0..(job.n - 1)
=============================================================================
