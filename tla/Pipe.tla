-------------------------------- MODULE Pipe --------------------------------
(***************************************************************************)
(* A pipe of the kernel (xv6-riscv/kernel/pipe.c), the two files that      *)
(* stand for its ends (file.c) and the processes that share them by fork,  *)
(* dup, close and exit, on one hart.                                       *)
(*                                                                         *)
(* A step is what a process does under one spinlock, from acquire() to the *)
(* release() or sleep() that ends it: pi->lock for pipe.c, ftable.lock for *)
(* the reference counts, np->lock for the copying of descriptors by kfork. *)
(* Bytes are numbered in the order in which writers copy them in.          *)
(***************************************************************************)
EXTENDS Naturals, Sequences, FiniteSets

CONSTANTS
  Procs,       \* the processes
  First,       \* the one that calls pipe()
  PIPESIZE,    \* bytes in the buffer (512)
  Modulus,     \* nread and nwrite are uint: they count modulo this (2^32)
  NOFILE,      \* descriptors of a process (16)
  MaxChunk,    \* bound on the bytes asked for in one read() or write()
  MaxBytes     \* bound on the bytes written in all

ASSUME ProcsAssumption == IsFiniteSet(Procs)
ASSUME FirstAssumption == First \in Procs
ASSUME BufferAssumption ==
  /\ PIPESIZE \in Nat \ {0} /\ Modulus \in Nat /\ Modulus > PIPESIZE
  /\ Modulus % PIPESIZE = 0
ASSUME FilesAssumption == NOFILE \in Nat /\ NOFILE >= 2
ASSUME PipeBoundsAssumption == MaxChunk \in Nat \ {0} /\ MaxBytes \in Nat

Ends == {"read", "write"}
Fd == 1..NOFILE
NoEnd == "none"
NoByte == 0

VARIABLES
  ofile,     \* p->ofile: the end each descriptor of each process stands for
  ref,       \* f->ref of the file of each end
  closing,   \* fileclose() has dropped the last reference and is to call pipeclose()
  open,      \* the ends whose flag, readopen or writeopen, is set
  freed,     \* the page of the pipe has been given back
  nread, nwrite, data,
  at,        \* where each process is
  asleep,    \* the channel it sleeps on, &nread or &nwrite
  want,      \* in read() and write(): the bytes still asked for
  killed,
  sent, got  \* history: bytes copied in so far, and the bytes copied out

fileVars == <<ofile, ref, closing>>
bufVars == <<open, freed, nread, nwrite, data>>
procVars == <<at, asleep, want, killed>>
pipeVars == <<fileVars, bufVars, procVars, sent, got>>

\* pipealloc and sys_pipe have returned to First.
PipeInit ==
  /\ ofile = [p \in Procs |-> [d \in Fd |->
       IF p # First THEN NoEnd
       ELSE IF d = 1 THEN "read" ELSE IF d = 2 THEN "write" ELSE NoEnd]]
  /\ ref = [e \in Ends |-> 1]
  /\ closing = [p \in Procs |-> NoEnd]
  /\ open = Ends /\ freed = FALSE
  /\ nread = 0 /\ nwrite = 0 /\ data = [i \in 0..(PIPESIZE - 1) |-> NoByte]
  /\ at = [p \in Procs |-> IF p = First THEN "user" ELSE "unborn"]
  /\ asleep = [p \in Procs |-> NoEnd]
  /\ want = [p \in Procs |-> 0]
  /\ killed = [p \in Procs |-> FALSE]
  /\ sent = 0 /\ got = <<>>

-----------------------------------------------------------------------------
(* Helpers *)

Smaller(a, b) == IF a < b THEN a ELSE b

Has(p, e) == \E d \in Fd : ofile[p][d] = e

\* Bytes in the buffer: the unsigned difference of the two counters.
Occupied == (nwrite + Modulus - nread) % Modulus

\* Mutant: the counters are compared as if they did not wrap.
RoomUnwrapped == IF nwrite <= nread + PIPESIZE THEN nread + PIPESIZE - nwrite ELSE 0

\* Bytes that fit before nwrite == nread + PIPESIZE, in unsigned arithmetic.
Room == (nread + PIPESIZE + Modulus - nwrite) % Modulus
IsEmpty == nread = nwrite

\* wakeup(&pi->nread) or wakeup(&pi->nwrite)
Awake(c) == [p \in Procs |-> IF asleep[p] = c THEN NoEnd ELSE asleep[p]]

\* A killed process exits on its way back to user mode.
Back(p) == [at EXCEPT ![p] = IF killed[p] THEN "exit" ELSE "user"]

\* A system call starts in user mode and is not started by a killed process.
Calls(p) == at[p] = "user" /\ ~killed[p] /\ closing[p] = NoEnd

\* Mutant: a byte goes to the slot of the next one.
SlotAfter(n) == (n + 1) % PIPESIZE
SlotOf(n) == n % PIPESIZE

\* The buffer after k more bytes.
Stored(k) ==
  [i \in DOMAIN data |->
     LET fresh == {j \in 0..(k - 1) : SlotOf((nwrite + j) % Modulus) = i}
     IN IF fresh = {} THEN data[i] ELSE sent + 1 + CHOOSE j \in fresh : TRUE]

\* The next k bytes a reader takes out.
Fetched(k) == [i \in 1..k |-> data[((nread + i - 1) % Modulus) % PIPESIZE]]

-----------------------------------------------------------------------------
(* pipewrite *)

Enter(p, e, n) ==
  /\ Calls(p) /\ Has(p, e) /\ n \in 1..MaxChunk
  /\ at' = [at EXCEPT ![p] = e]
  /\ want' = [want EXCEPT ![p] = n]
  /\ UNCHANGED <<fileVars, bufVars, asleep, killed, sent, got>>

Runs(p, e) == at[p] = e /\ asleep[p] = NoEnd

\* "if(pi->readopen == 0 || killed(pr))": -1.
WriteFails(p) ==
  /\ Runs(p, "write") /\ ("read" \notin open \/ killed[p])
  /\ at' = Back(p)
  /\ want' = [want EXCEPT ![p] = 0]
  /\ UNCHANGED <<fileVars, bufVars, asleep, killed, sent, got>>

Copies(p, k) ==
  /\ Runs(p, "write") /\ "read" \in open /\ ~killed[p]
  /\ sent + k <= MaxBytes
  /\ data' = Stored(k)
  /\ nwrite' = (nwrite + k) % Modulus
  /\ sent' = sent + k
  /\ UNCHANGED <<fileVars, open, freed, nread, killed, got>>

\* "wakeup(&pi->nread); sleep(&pi->nwrite, &pi->lock);"
SleepsFull(p) == asleep' = [Awake("read") EXCEPT ![p] = "write"]

\* The buffer is full before everything is written.
WriteSleeps(p) ==
  LET k == Room IN
  /\ k < want[p]
  /\ Copies(p, k)
  /\ want' = [want EXCEPT ![p] = @ - k]
  /\ SleepsFull(p)
  /\ UNCHANGED at

\* Everything is written, or copyin() fails for the byte after the k-th.
WriteReturns(p) ==
  \E k \in 0..Smaller(want[p], Room) :
    /\ k < want[p] => k < Room
    /\ Copies(p, k)
    /\ want' = [want EXCEPT ![p] = 0]
    /\ at' = Back(p)
    /\ asleep' = Awake("read")

-----------------------------------------------------------------------------
(* piperead *)

Waits(p) == Runs(p, "read") /\ IsEmpty /\ "write" \in open

ReadSleeps(p) ==
  /\ Waits(p) /\ ~killed[p]
  /\ asleep' = [asleep EXCEPT ![p] = "read"]
  /\ UNCHANGED <<fileVars, bufVars, at, want, killed, sent, got>>

\* -1
ReadFails(p) ==
  /\ Waits(p) /\ killed[p]
  /\ at' = Back(p)
  /\ want' = [want EXCEPT ![p] = 0]
  /\ UNCHANGED <<fileVars, bufVars, asleep, killed, sent, got>>

\* Mutant: the writers are not told.
WakesNobody == asleep

\* "wakeup(&pi->nwrite)"
WakesWriters == Awake("write")

\* What there is, up to what is wanted, or less if copyout() fails; nothing at
\* the end of the file.
ReadReturns(p) ==
  /\ Runs(p, "read") /\ ~Waits(p)
  /\ \E k \in 0..Smaller(want[p], Occupied) :
       /\ got' = got \o Fetched(k)
       /\ nread' = (nread + k) % Modulus
  /\ want' = [want EXCEPT ![p] = 0]
  /\ at' = Back(p)
  /\ asleep' = WakesWriters
  /\ UNCHANGED <<fileVars, open, freed, nwrite, data, killed, sent>>

-----------------------------------------------------------------------------
(* Descriptors *)

\* Descriptors free in p.
FreeFds(p) == {d \in Fd : ofile[p][d] = NoEnd}

\* sys_dup: the lowest free descriptor, and filedup.
Dup(p, d) ==
  /\ Calls(p) /\ ofile[p][d] \in Ends
  /\ \E free \in FreeFds(p) :
       /\ \A f \in FreeFds(p) : free <= f
       /\ ofile' = [ofile EXCEPT ![p][free] = ofile[p][d]]
  /\ ref' = [ref EXCEPT ![ofile[p][d]] = @ + 1]
  /\ UNCHANGED <<closing, bufVars, procVars, sent, got>>

\* Mutant: kfork copies the descriptors without filedup.
ForkedRefOld(p) == ref

\* filedup of every open file.
ForkedRef(p) ==
  [e \in Ends |-> ref[e] + Cardinality({d \in Fd : ofile[p][d] = e})]

ForkFiles(p, q) ==
  /\ Calls(p) /\ at[q] = "unborn"
  /\ ofile' = [ofile EXCEPT ![q] = ofile[p]]
  /\ ref' = ForkedRef(p)
  /\ at' = [at EXCEPT ![q] = "user"]
  /\ UNCHANGED <<closing, bufVars, asleep, want, killed, sent, got>>

\* sys_close, or kexit: drop the descriptor, then fileclose() up to the release of
\* ftable.lock.
CloseFd(p, d) ==
  /\ at[p] = "exit" \/ Calls(p)
  /\ closing[p] = NoEnd /\ ofile[p][d] \in Ends
  /\ LET e == ofile[p][d] IN
       /\ ofile' = [ofile EXCEPT ![p][d] = NoEnd]
       /\ ref' = [ref EXCEPT ![e] = @ - 1]
       /\ closing' = [closing EXCEPT ![p] = IF ref[e] = 1 THEN e ELSE NoEnd]
  /\ UNCHANGED <<bufVars, procVars, sent, got>>

\* Mutants: whoever closes an end frees the page; nobody at the other end is told.
PageGoesEarly(e) == TRUE
PageGoes(e) == open \ {e} = {}
TellsNobody(e) == asleep
Tells(e) == Awake(IF e = "write" THEN "read" ELSE "write")

\* pipeclose: clear the flag, wake the other side, free the page after the second.
PipeClose(p) ==
  /\ closing[p] # NoEnd
  /\ open' = open \ {closing[p]}
  /\ asleep' = Tells(closing[p])
  /\ freed' = (freed \/ PageGoes(closing[p]))
  /\ closing' = [closing EXCEPT ![p] = NoEnd]
  /\ UNCHANGED <<ofile, ref, nread, nwrite, data, at, want, killed, sent, got>>

Exit(p) ==
  /\ at[p] = "user" /\ closing[p] = NoEnd
  /\ at' = [at EXCEPT ![p] = "exit"]
  /\ UNCHANGED <<fileVars, bufVars, asleep, want, killed, sent, got>>

\* kexit has closed every file.
Gone(p) ==
  /\ at[p] = "exit" /\ closing[p] = NoEnd /\ ~\E e \in Ends : Has(p, e)
  /\ at' = [at EXCEPT ![p] = "gone"]
  /\ UNCHANGED <<fileVars, bufVars, asleep, want, killed, sent, got>>

\* kkill: mark it, and wake it if it sleeps.
KillIt(p) ==
  /\ at[p] \in {"user", "read", "write"} /\ ~killed[p]
  /\ killed' = [killed EXCEPT ![p] = TRUE]
  /\ asleep' = [asleep EXCEPT ![p] = NoEnd]
  /\ UNCHANGED <<fileVars, bufVars, at, want, sent, got>>

AllGone == (\A p \in Procs : at[p] \in {"gone", "unborn"}) /\ UNCHANGED pipeVars

-----------------------------------------------------------------------------
\* A process gets on with the call it is in.
InCall(p) ==
  \/ WriteFails(p) \/ WriteSleeps(p) \/ WriteReturns(p)
  \/ ReadSleeps(p) \/ ReadFails(p) \/ ReadReturns(p)
  \/ PipeClose(p)

PipeNext ==
  \/ \E p \in Procs :
       \/ InCall(p) \/ Exit(p) \/ Gone(p) \/ KillIt(p)
       \/ \E e \in Ends, n \in 1..MaxChunk : Enter(p, e, n)
       \/ \E d \in Fd : Dup(p, d) \/ CloseFd(p, d)
       \/ \E q \in Procs : ForkFiles(p, q)
  \/ AllGone

PipeSpec == PipeInit /\ [][PipeNext]_pipeVars

\* Every process that is not asleep gets the hart, so it finishes its call.
FairPipeSpec == PipeSpec /\ \A p \in Procs : WF_pipeVars(InCall(p))

-----------------------------------------------------------------------------
(* Properties *)

\* No wakeup is lost: a process sleeps in piperead only while the pipe is empty and
\* can still be written, in pipewrite only while it is full and can still be read;
\* and a killed process sleeps in neither.
NoLostWakeup ==
  \A p \in Procs :
    /\ asleep[p] = "read" => IsEmpty /\ "write" \in open
    /\ asleep[p] = "write" => Room = 0 /\ "read" \in open
    /\ asleep[p] # NoEnd => ~killed[p] /\ at[p] = asleep[p]

\* The page is freed once both ends are closed and nobody can reach it: no
\* descriptor, no call under way, no pipeclose() to come.
NoUseAfterFree ==
  freed => \A p \in Procs :
    /\ ~\E e \in Ends : Has(p, e)
    /\ at[p] \notin Ends /\ closing[p] = NoEnd

\* An end is open as long as some process holds a descriptor for it, and is closed
\* with the last one, however fork, dup, close and exit share it: the reference
\* counts that decide it are those of the descriptors.
OpenWhileHeld ==
  \A e \in Ends :
    /\ ref[e] = Cardinality({pd \in Procs \X Fd : ofile[pd[1]][pd[2]] = e})
    /\ e \in open <=> \E p \in Procs : Has(p, e) \/ closing[p] = e

\* The end of the file is the end: read() returns 0 only when every byte written
\* has been delivered and no process can write another.
EofIsFinal ==
  [][\A p \in Procs :
       at[p] = "read" /\ at'[p] # "read" /\ ~killed[p] /\ got' = got /\ IsEmpty =>
         Len(got) = sent /\ \A q \in Procs : ~Has(q, "write")]_pipeVars

\* A process blocked in a pipe whose other end nobody holds any more returns.
BlockedReturns ==
  \A p \in Procs :
    /\ (at[p] = "read" /\ \A q \in Procs : ~Has(q, "write")) ~> at[p] # "read"
    /\ (at[p] = "write" /\ \A q \in Procs : ~Has(q, "read")) ~> at[p] # "write"

\* The buffer of pipe.c, its counters that wrap, its two wakeups and its failing
\* copies implement a bounded channel.
Chan == INSTANCE Channel WITH Capacity <- PIPESIZE
ImplementsChannel == Chan!ChannelSpec

-----------------------------------------------------------------------------
(* What the proofs need besides *)

PipeTypeOK ==
  /\ ofile \in [Procs -> [Fd -> Ends \cup {NoEnd}]]
  /\ ref \in [Ends -> Nat] /\ closing \in [Procs -> Ends \cup {NoEnd}]
  /\ open \subseteq Ends /\ freed \in BOOLEAN
  /\ nread \in 0..(Modulus - 1) /\ nwrite \in 0..(Modulus - 1)
  /\ data \in [0..(PIPESIZE - 1) -> Nat]
  /\ at \in [Procs -> {"unborn", "user", "exit", "gone"} \cup Ends]
  /\ asleep \in [Procs -> Ends \cup {NoEnd}]
  /\ want \in [Procs -> Nat] /\ killed \in [Procs -> BOOLEAN]
  /\ sent \in Nat /\ got \in Seq(Nat)

\* One process at most is to close an end, and nobody holds it any more; a process in
\* a call holds the end it uses; the page lives as long as a flag is set.
FileShape ==
  /\ \A p \in Procs :
       /\ closing[p] # NoEnd =>
            ref[closing[p]] = 0 /\ \A q \in Procs : closing[q] = closing[p] => q = p
       /\ at[p] \in Ends => Has(p, at[p]) /\ closing[p] = NoEnd
       /\ at[p] = "unborn" => closing[p] = NoEnd /\ ~\E e \in Ends : Has(p, e)
  /\ freed <=> open = {}

\* The counters count what was written and delivered, and the bytes between them lie
\* in the buffer, each in its slot.
BufferShape ==
  /\ Len(got) <= sent /\ sent <= Len(got) + PIPESIZE
  /\ nread = Len(got) % Modulus /\ nwrite = sent % Modulus
  /\ \A i \in 1..Len(got) : got[i] = i
  /\ \A n \in Nat : Len(got) <= n /\ n < sent => data[n % PIPESIZE] = n + 1

PipeInv == PipeTypeOK /\ OpenWhileHeld /\ FileShape /\ BufferShape /\ NoLostWakeup
=============================================================================
