----------------------------- MODULE PipeProofs -----------------------------
(***************************************************************************)
(* The pipe of kernel/pipe.c for every number of processes, descriptors    *)
(* and bytes, every buffer size and every width of the counters: the       *)
(* reference counts close each end once and with its last descriptor, the  *)
(* page is not used after it is freed, no wakeup is lost, and what comes   *)
(* out is what went in.                                                    *)
(***************************************************************************)
EXTENDS Pipe, FiniteSetTheorems, SequenceTheorems, TLAPS

-----------------------------------------------------------------------------
(* Counting modulo *)

\* What division with remainder is.
LEMMA DivMod ==
  ASSUME NEW M \in Nat \ {0}, NEW a \in Nat
  PROVE  \E q \in Nat, r \in 0..(M - 1) : a = (M * q) + r /\ r = a % M
<1>1. (a % M) \in 0..(M - 1) /\ a = (M * (a \div M)) + (a % M) /\ (a \div M) \in Nat
  BY SMT
<1>2. PICK q \in Nat, r \in 0..(M - 1) : q = a \div M /\ r = a % M
  BY <1>1
<1> QED  BY <1>1, <1>2

LEMMA ModUnique ==
  ASSUME NEW M \in Nat \ {0}, NEW q \in Nat, NEW r \in 0..(M - 1)
  PROVE  ((M * q) + r) % M = r
BY SMT

LEMMA Dist == 
  ASSUME NEW a \in Nat, NEW b \in Nat, NEW c \in Nat
  PROVE  a * (b + c) = (a * b) + (a * c)
BY SMT

LEMMA Assoc == 
  ASSUME NEW a \in Nat, NEW b \in Nat, NEW c \in Nat
  PROVE  (a * b) * c = a * (b * c)
BY SMT

\* A counter that wraps can be reduced at any time ...
LEMMA ModAdd ==
  ASSUME NEW M \in Nat \ {0}, NEW a \in Nat, NEW b \in Nat
  PROVE ((a % M) + b) % M = (a + b) % M
<1>1. PICK q \in Nat, s \in 0..(M - 1) : a = (M * q) + s /\ s = a % M
  BY DivMod, Zenon
<1>2. s + b \in Nat
  OBVIOUS
<1>3. PICK u \in Nat, r \in 0..(M - 1) : s + b = (M * u) + r /\ r = (s + b) % M
  BY <1>2, DivMod, Zenon
<1>4. PICK e \in Nat : e = q + u
  OBVIOUS
<1>5. M * e = (M * q) + (M * u)
  BY <1>4, Dist
<1>6. PICK mq \in Nat, mu \in Nat : mq = M * q /\ mu = M * u
  BY SMT
<1>7. a + b = (M * e) + r
  <2>1. a = mq + s /\ s + b = mu + r /\ M * e = mq + mu
    BY <1>1, <1>3, <1>5, <1>6, Zenon
  <2>2. a + b = (mq + mu) + r
    BY <2>1
  <2> QED  BY <2>1, <2>2, Zenon
<1>8. (a + b) % M = r
  <2>1. ((M * e) + r) % M = r
    BY ModUnique, Zenon
  <2> QED  BY <1>7, <2>1, Zenon
<1> QED  BY <1>1, <1>3, <1>8

\* ... and the slot of a byte does not see the wrap, since PIPESIZE divides Modulus.
LEMMA ModMod ==
  ASSUME NEW M \in Nat \ {0}, NEW P \in Nat \ {0}, M % P = 0, NEW a \in Nat
  PROVE (a % M) % P = a % P
<1>1. PICK d \in Nat : M = P * d
  <2>1. PICK d \in Nat, r \in 0..(P - 1) : M = (P * d) + r /\ r = M % P
    BY DivMod, Zenon
  <2> QED  BY <2>1, SMT
<1>2. PICK q \in Nat, s \in 0..(M - 1) : a = (M * q) + s /\ s = a % M
  BY DivMod, Zenon
<1>2a. s \in Nat
  OBVIOUS
<1>3. PICK u \in Nat, r \in 0..(P - 1) : s = (P * u) + r /\ r = s % P
  BY <1>2a, DivMod, Zenon
<1>4. PICK dq \in Nat, e \in Nat : dq = d * q /\ e = dq + u
  <2>1. d * q \in Nat
    BY SMT
  <2> QED  BY <2>1
<1>5. M * q = P * dq
  <2>1. (P * d) * q = P * (d * q)
    BY Assoc
  <2> QED  BY <1>1, <1>4, <2>1, Zenon
<1>6. P * e = (P * dq) + (P * u)
  BY <1>4, Dist, Zenon
<1>7. PICK pd \in Nat, pu \in Nat : pd = P * dq /\ pu = P * u
  BY SMT
<1>8. a = (P * e) + r
  <2>1. a = pd + s /\ s = pu + r /\ P * e = pd + pu
    BY <1>2, <1>3, <1>5, <1>6, <1>7, Zenon
  <2>2. a = (pd + pu) + r
    BY <2>1
  <2> QED  BY <2>1, <2>2, Zenon
<1>9. a % P = r
  <2>1. ((P * e) + r) % P = r
    BY ModUnique, Zenon
  <2> QED  BY <1>8, <2>1, Zenon
<1> QED  BY <1>2, <1>3, <1>9

\* Counters less than a buffer apart have different slots.
LEMMA ModDistinct ==
  ASSUME NEW P \in Nat \ {0}, NEW a \in Nat, NEW b \in Nat, a < b, b < a + P
  PROVE a % P # b % P
<1> SUFFICES ASSUME a % P = b % P PROVE FALSE
  OBVIOUS
<1>1. PICK q \in Nat, r \in 0..(P - 1) : a = (P * q) + r /\ r = a % P
  BY DivMod, Zenon
<1>2. PICK u \in Nat, t \in 0..(P - 1) : b = (P * u) + t /\ t = b % P
  BY DivMod, Zenon
<1>3. CASE u <= q
  <2>1. PICK n \in Nat : q = u + n
    BY <1>3
  <2>2. P * q = (P * u) + (P * n)
    BY <2>1, Dist, Zenon
  <2>3. P * n \in Nat /\ P * u \in Nat
    BY SMT
  <2> QED  BY <1>1, <1>2, <2>2, <2>3
<1>4. CASE u > q
  <2>1. PICK n \in Nat : u = q + (n + 1)
    BY <1>4
  <2>2. n + 1 \in Nat
    OBVIOUS
  <2>3. P * u = (P * q) + (P * (n + 1))
    BY <2>1, <2>2, Dist, Zenon
  <2>4. P * (n + 1) = (P * n) + P /\ P * n \in Nat /\ P * q \in Nat
    BY SMT
  <2> QED  BY <1>1, <1>2, <2>3, <2>4
<1> QED  BY <1>3, <1>4

LEMMA ModSmall ==
  ASSUME NEW M \in Nat \ {0}, NEW a \in 0..(M - 1)
  PROVE  a % M = a
BY SMT

LEMMA ModOnce ==
  ASSUME NEW M \in Nat \ {0}, NEW a \in M..(2 * M - 1)
  PROVE  a % M = a - M
BY SMT

\* The unsigned differences of pipe.c see how many bytes are in the buffer, however
\* often the counters have wrapped, because it is smaller than their range.
LEMMA CountersRead ==
  ASSUME PipeTypeOK, BufferShape
  PROVE  /\ Occupied = sent - Len(got)
         /\ Room = PIPESIZE - (sent - Len(got))
         /\ IsEmpty <=> sent = Len(got)
         /\ sent - Len(got) \in 0..PIPESIZE
<1>1. /\ Len(got) \in Nat /\ sent \in Nat
      /\ nread \in 0..(Modulus - 1) /\ nwrite \in 0..(Modulus - 1)
  BY DEF PipeTypeOK
<1>2. /\ nread = Len(got) % Modulus /\ nwrite = sent % Modulus
      /\ Len(got) <= sent /\ sent <= Len(got) + PIPESIZE
  BY DEF BufferShape
<1>3. PIPESIZE \in Nat \ {0} /\ Modulus \in Nat \ {0} /\ Modulus > PIPESIZE
  BY BufferAssumption
<1>4. PICK n \in Nat, f \in 0..PIPESIZE : n = Len(got) /\ f = sent - n /\ sent = n + f
  BY <1>1, <1>2, <1>3
<1>5. PICK r \in 0..(Modulus - 1), w \in 0..(Modulus - 1) :
        r = nread /\ w = nwrite /\ r = n % Modulus /\ w = (n + f) % Modulus
  <2>1. nread = n % Modulus /\ nwrite = (n + f) % Modulus
    BY <1>2, <1>4, Zenon
  <2> QED  BY <1>1, <2>1, Zenon
<1>6. w = (r + f) % Modulus
  <2>1. f \in Nat
    BY <1>3
  <2>2. ((n % Modulus) + f) % Modulus = (n + f) % Modulus
    BY <1>3, <2>1, ModAdd, Zenon
  <2> QED  BY <1>5, <2>2, Zenon
<1>7. /\ (w + Modulus - r) % Modulus = f
      /\ (r + PIPESIZE + Modulus - w) % Modulus = PIPESIZE - f
      /\ (r = w) <=> (f = 0)
  <2>1. CASE r + f < Modulus
    <3>1. r + f \in 0..(Modulus - 1)
      BY <1>3, <2>1
    <3>2. w = r + f
      BY <1>3, <1>6, <3>1, ModSmall, Zenon
    <3>3. w + Modulus - r = Modulus + f /\ r + PIPESIZE + Modulus - w = Modulus + (PIPESIZE - f)
      BY <1>3, <3>2
    <3>4. /\ Modulus + f \in Modulus..(2 * Modulus - 1)
          /\ Modulus + (PIPESIZE - f) \in Modulus..(2 * Modulus - 1)
      BY <1>3
    <3>5. /\ (Modulus + f) % Modulus = (Modulus + f) - Modulus
          /\ (Modulus + (PIPESIZE - f)) % Modulus = (Modulus + (PIPESIZE - f)) - Modulus
      BY <1>3, <3>4, ModOnce, Zenon
    <3>6. /\ (w + Modulus - r) % Modulus = (Modulus + f) - Modulus
          /\ (r + PIPESIZE + Modulus - w) % Modulus = (Modulus + (PIPESIZE - f)) - Modulus
      BY <3>3, <3>5, Zenon
    <3> QED  BY <1>3, <3>2, <3>6
  <2>2. CASE r + f >= Modulus
    <3>1. r + f \in Modulus..(2 * Modulus - 1)
      BY <1>3, <2>2
    <3>2. w = (r + f) - Modulus
      BY <1>3, <1>6, <3>1, ModOnce, Zenon
    <3>3. w + Modulus - r = f /\ r + PIPESIZE + Modulus - w = (Modulus * 2) + (PIPESIZE - f)
      BY <1>3, <3>2
    <3>4. f \in 0..(Modulus - 1) /\ PIPESIZE - f \in 0..(Modulus - 1) /\ 2 \in Nat
      BY <1>3
    <3>5. f % Modulus = f /\ ((Modulus * 2) + (PIPESIZE - f)) % Modulus = PIPESIZE - f
      BY <1>3, <3>4, ModSmall, ModUnique, Zenon
    <3>6. /\ (w + Modulus - r) % Modulus = f
          /\ (r + PIPESIZE + Modulus - w) % Modulus = PIPESIZE - f
      BY <3>3, <3>5, Zenon
    <3> QED  BY <1>3, <2>2, <3>2, <3>6
  <2> QED  BY <1>3, <2>1, <2>2
<1>8. Occupied = f /\ Room = PIPESIZE - f /\ (IsEmpty <=> f = 0)
  BY <1>5, <1>7, Zenon DEF Occupied, Room, IsEmpty
<1> QED  BY <1>1, <1>4, <1>8

-----------------------------------------------------------------------------
(* The buffer *)

LEMMA BufferConstants ==
  /\ PIPESIZE \in Nat \ {0} /\ Modulus \in Nat \ {0} /\ Modulus % PIPESIZE = 0
BY BufferAssumption

\* The slot of the j-th byte after the n-th, reached through a counter that wraps.
LEMMA SlotAhead ==
  ASSUME NEW n \in Nat, NEW j \in Nat
  PROVE  /\ (((n % Modulus) + j) % Modulus) % PIPESIZE = (n + j) % PIPESIZE
         /\ (n + j) % PIPESIZE \in 0..(PIPESIZE - 1)
         /\ (n + j) % Modulus \in 0..(Modulus - 1)
<1>1. ((n % Modulus) + j) % Modulus = (n + j) % Modulus
  BY BufferConstants, ModAdd, Zenon
<1>2. PICK m \in Nat : m = n + j
  OBVIOUS
<1>3. (m % Modulus) % PIPESIZE = m % PIPESIZE
  BY BufferConstants, ModMod, Zenon
<1>4. m % PIPESIZE \in 0..(PIPESIZE - 1) /\ m % Modulus \in 0..(Modulus - 1)
  <2>1. PICK q \in Nat, r \in 0..(PIPESIZE - 1) : r = m % PIPESIZE
    BY BufferConstants, DivMod, Zenon
  <2>2. PICK q2 \in Nat, r2 \in 0..(Modulus - 1) : r2 = m % Modulus
    BY BufferConstants, DivMod, Zenon
  <2> QED  BY <2>1, <2>2, Zenon
<1> QED  BY <1>1, <1>2, <1>3, <1>4, Zenon

\* pipewrite: the bytes go behind those that nobody has read yet.
LEMMA CopiesKeep ==
  ASSUME PipeTypeOK, BufferShape, NEW p \in Procs, NEW k \in Nat, k <= Room, Copies(p, k)
  PROVE  /\ BufferShape'
         /\ sent' \in Nat /\ nwrite' \in 0..(Modulus - 1)
         /\ data' \in [0..(PIPESIZE - 1) -> Nat]
         /\ sent' <= Len(got) + PIPESIZE
<1>1. /\ Len(got) \in Nat /\ sent \in Nat /\ Len(got) <= sent
      /\ sent + k <= Len(got) + PIPESIZE /\ PIPESIZE \in Nat
  <2>1. Room = PIPESIZE - (sent - Len(got)) /\ sent - Len(got) \in 0..PIPESIZE
    BY CountersRead
  <2> QED  BY <2>1, BufferConstants DEF PipeTypeOK
<1>2. sent' = sent + k /\ got' = got /\ nread' = nread
  BY DEF Copies
<1>3. nwrite = sent % Modulus
  BY DEF BufferShape
<1>4. nwrite' = (sent + k) % Modulus
  <2>1. nwrite' = ((sent % Modulus) + k) % Modulus
    BY <1>3 DEF Copies
  <2> QED  BY <1>1, <2>1, BufferConstants, ModAdd, Zenon
<1>5. \A j \in 0..(k - 1) : SlotOf((nwrite + j) % Modulus) = (sent + j) % PIPESIZE
  <2> SUFFICES ASSUME NEW j \in 0..(k - 1)
               PROVE  ((nwrite + j) % Modulus) % PIPESIZE = (sent + j) % PIPESIZE
    BY DEF SlotOf
  <2>1. j \in Nat
    OBVIOUS
  <2> QED  BY <1>1, <1>3, <2>1, SlotAhead, Zenon
<1>6. ASSUME NEW i \in 0..(PIPESIZE - 1), NEW fresh,
             fresh = {j \in 0..(k - 1) : (sent + j) % PIPESIZE = i}
      PROVE  data'[i] = IF fresh = {} THEN data[i] ELSE sent + 1 + CHOOSE j \in fresh : TRUE
  <2>1. fresh = {j \in 0..(k - 1) : SlotOf((nwrite + j) % Modulus) = i}
    BY <1>5, <1>6
  <2>2. DOMAIN data = 0..(PIPESIZE - 1)
    BY DEF PipeTypeOK
  <2> QED  BY <2>1, <2>2 DEF Copies, Stored
<1>7. data' \in [0..(PIPESIZE - 1) -> Nat]
  <2>1. DOMAIN data' = 0..(PIPESIZE - 1) /\ data' = [i \in 0..(PIPESIZE - 1) |-> data'[i]]
    BY DEF PipeTypeOK, Copies, Stored
  <2>2. ASSUME NEW i \in 0..(PIPESIZE - 1) PROVE data'[i] \in Nat
    <3>1. PICK fresh : fresh = {j \in 0..(k - 1) : (sent + j) % PIPESIZE = i}
      OBVIOUS
    <3>2. CASE fresh = {}
      BY <1>6, <3>1, <3>2 DEF PipeTypeOK
    <3>3. CASE fresh # {}
      <4>1. PICK j : j = CHOOSE m \in fresh : TRUE
        OBVIOUS
      <4>2. j \in fresh
        BY <3>3, <4>1
      <4>3. j \in Nat
        BY <3>1, <4>2
      <4>4. data'[i] = sent + 1 + j
        BY <1>6, <3>1, <3>3, <4>1
      <4> QED  BY <1>1, <4>3, <4>4
    <3> QED  BY <3>2, <3>3
  <2> QED  BY <2>1, <2>2
<1>8. ASSUME NEW n \in Nat, Len(got) <= n, n < sent + k
      PROVE  data'[n % PIPESIZE] = n + 1
  <2>1. PICK i \in 0..(PIPESIZE - 1) : i = n % PIPESIZE
    BY BufferConstants, DivMod, Zenon
  <2>2. PICK fresh : fresh = {j \in 0..(k - 1) : (sent + j) % PIPESIZE = i}
    OBVIOUS
  <2>3. CASE n < sent
    <3>1. ASSUME NEW j \in 0..(k - 1) PROVE (sent + j) % PIPESIZE # i
      <4>1. PICK b \in Nat : b = sent + j /\ n < b /\ b < n + PIPESIZE
        BY <1>1, <1>8, <2>3
      <4>2. n % PIPESIZE # b % PIPESIZE
        BY <4>1, BufferConstants, ModDistinct
      <4> QED  BY <2>1, <4>1, <4>2
    <3>2. fresh = {}
      BY <2>2, <3>1
    <3>3. data[n % PIPESIZE] = n + 1
      BY <1>8, <2>3 DEF BufferShape
    <3> QED  BY <1>6, <2>1, <2>2, <3>2, <3>3
  <2>4. CASE n >= sent
    <3>1. PICK m \in 0..(k - 1) : n = sent + m
      BY <1>1, <1>8, <2>4
    <3>2. ASSUME NEW j \in 0..(k - 1), j # m PROVE (sent + j) % PIPESIZE # i
      <4>1. PICK b \in Nat : b = sent + j
        BY <1>1
      <4>2. CASE j > m
        <5>1. n < b /\ b < n + PIPESIZE
          BY <1>1, <3>1, <4>1, <4>2
        <5>2. n % PIPESIZE # b % PIPESIZE
          BY <5>1, BufferConstants, ModDistinct
        <5> QED  BY <2>1, <4>1, <5>2
      <4>3. CASE j < m
        <5>1. b < n /\ n < b + PIPESIZE
          BY <1>1, <3>1, <4>1, <4>3
        <5>2. b % PIPESIZE # n % PIPESIZE
          BY <5>1, BufferConstants, ModDistinct
        <5> QED  BY <2>1, <4>1, <5>2
      <4> QED  BY <3>2, <4>2, <4>3
    <3>3. fresh = {m}
      BY <2>1, <2>2, <3>1, <3>2
    <3>4. (CHOOSE j \in fresh : TRUE) = m
      BY <3>3
    <3>5. data'[i] = sent + 1 + m
      BY <1>6, <2>2, <3>3, <3>4
    <3> QED  BY <1>1, <2>1, <3>1, <3>5
  <2> QED  BY <1>1, <2>3, <2>4
<1>9. nwrite' \in 0..(Modulus - 1)
  BY <1>1, <1>4, SlotAhead
<1>10. BufferShape'
  BY <1>1, <1>2, <1>4, <1>8 DEF BufferShape
<1> QED  BY <1>1, <1>2, <1>7, <1>9, <1>10

\* piperead: the bytes come from the other end, in order.
LEMMA FetchKeeps ==
  ASSUME PipeTypeOK, BufferShape, NEW k \in Nat, k <= Occupied,
         got' = got \o Fetched(k), nread' = (nread + k) % Modulus,
         UNCHANGED <<nwrite, data, sent>>
  PROVE  /\ BufferShape'
         /\ got' \in Seq(Nat) /\ nread' \in 0..(Modulus - 1)
         /\ Len(got') = Len(got) + k /\ Len(got') <= sent
         /\ got' = [i \in 1..(Len(got) + k) |-> i]
<1>1. /\ Len(got) \in Nat /\ sent \in Nat /\ Len(got) + k <= sent
      /\ sent <= Len(got) + PIPESIZE /\ PIPESIZE \in Nat /\ got \in Seq(Nat)
  <2>1. Occupied = sent - Len(got) /\ sent - Len(got) \in 0..PIPESIZE
    BY CountersRead
  <2> QED  BY <2>1, BufferConstants DEF PipeTypeOK
<1>2. PICK L \in Nat, N \in Nat : L = Len(got) /\ N = sent /\ L + k <= N
  BY <1>1
<1>3. nread = L % Modulus
  BY <1>2 DEF BufferShape
<1>4. ASSUME NEW i \in 1..k PROVE Fetched(k)[i] = L + i
  <2>1. PICK j \in Nat : j = i - 1 /\ j < k
    OBVIOUS
  <2>2. nread + i - 1 = nread + j
    BY <2>1 DEF PipeTypeOK
  <2>3. ((nread + j) % Modulus) % PIPESIZE = (L + j) % PIPESIZE
    BY <1>3, SlotAhead, Zenon
  <2>4. PICK n \in Nat : n = L + j /\ n < N /\ L <= n /\ n + 1 = L + i
    <3>1. L + k <= N
      BY <1>2
    <3>2. L + j \in Nat /\ L + j < N /\ L <= L + j /\ (L + j) + 1 = L + i
      BY <2>1, <3>1
    <3> QED  BY <3>2, Zenon
  <2>5. data[n % PIPESIZE] = n + 1
    BY <1>2, <2>4 DEF BufferShape
  <2>6. Fetched(k)[i] = data[((nread + j) % Modulus) % PIPESIZE]
    BY <2>2 DEF Fetched
  <2> QED  BY <2>3, <2>4, <2>5, <2>6, Zenon
<1>5. PICK g \in Seq(Nat) : g = got
  BY <1>1
<1>6. PICK t \in Seq(Nat) : t = Fetched(k) /\ Len(t) = k /\ \A i \in 1..k : t[i] = L + i
  <2>1. Fetched(k) = [i \in 1..k |-> L + i]
    BY <1>4 DEF Fetched
  <2>2. [i \in 1..k |-> L + i] \in Seq(Nat) /\ Len([i \in 1..k |-> L + i]) = k
    OBVIOUS
  <2> QED  BY <2>1, <2>2
<1>7. PICK h \in Seq(Nat) : h = g \o t /\ h = got'
  <2>1. g \o t \in Seq(Nat)
    BY ConcatProperties
  <2> QED  BY <1>5, <1>6, <2>1
<1>8. Len(g) = L /\ \A i \in 1..L : g[i] = i
  BY <1>2, <1>5 DEF BufferShape
<1>9. Len(h) = L + k /\ \A i \in 1..(L + k) : h[i] = IF i <= L THEN g[i] ELSE t[i - L]
  <2>1. /\ Len(g \o t) = Len(g) + Len(t)
        /\ \A i \in 1..(Len(g) + Len(t)) :
             (g \o t)[i] = IF i <= Len(g) THEN g[i] ELSE t[i - Len(g)]
    BY ConcatProperties, Zenon
  <2> QED  BY <1>6, <1>7, <1>8, <2>1, Zenon
<1>10. \A i \in 1..(L + k) : h[i] = i
  <2> SUFFICES ASSUME NEW i \in 1..(L + k) PROVE h[i] = i
    OBVIOUS
  <2>1. CASE i <= L
    BY <1>8, <1>9, <2>1
  <2>2. CASE i > L
    <3>1. i - L \in 1..k /\ L + (i - L) = i
      BY <2>2
    <3> QED  BY <1>6, <1>9, <2>2, <3>1
  <2> QED  BY <2>1, <2>2
<1>11. h = [i \in 1..(L + k) |-> i]
  <2>1. h = [i \in 1..Len(h) |-> h[i]]
    OBVIOUS
  <2> QED  BY <1>9, <1>10, <2>1
<1>12. nread' = (L + k) % Modulus /\ nread' \in 0..(Modulus - 1)
  <2>1. nread' = ((L % Modulus) + k) % Modulus
    BY <1>3
  <2>2. nread' = (L + k) % Modulus
    BY <2>1, BufferConstants, ModAdd, Zenon
  <2> QED  BY <2>2, SlotAhead
<1>13. ASSUME NEW n \in Nat, L + k <= n, n < N PROVE data'[n % PIPESIZE] = n + 1
  BY <1>2, <1>13 DEF BufferShape
<1>14. Len(got') = L + k /\ L + k <= N /\ N <= (L + k) + PIPESIZE /\ sent' = N
  BY <1>1, <1>2, <1>7, <1>9
<1>15. BufferShape'
  BY <1>2, <1>3, <1>7, <1>10, <1>12, <1>13, <1>14 DEF BufferShape
<1> QED  BY <1>2, <1>7, <1>11, <1>12, <1>14, <1>15

-----------------------------------------------------------------------------
(* The initial state *)

\* The descriptors that stand for an end.
Holding(e) == {pd \in Procs \X Fd : ofile[pd[1]][pd[2]] = e}

LEMMA HoldingCounted ==
  ASSUME NEW e
  PROVE  /\ IsFiniteSet(Holding(e)) /\ Cardinality(Holding(e)) \in Nat
         /\ Cardinality(Holding(e)) = 0 <=> \A p \in Procs : ~Has(p, e)
<1>1. IsFiniteSet(Procs \X Fd)
  <2>1. IsFiniteSet(Fd)
    BY FilesAssumption, FS_Interval DEF Fd
  <2> QED  BY <2>1, ProcsAssumption, FS_Product
<1>2. IsFiniteSet(Holding(e)) /\ Cardinality(Holding(e)) \in Nat
  BY <1>1, FS_Subset, FS_CardinalityType DEF Holding
<1>3. Holding(e) = {} <=> \A p \in Procs : ~Has(p, e)
  <2>1. \A p \in Procs, d \in Fd : ofile[p][d] = e => <<p, d>> \in Holding(e)
    BY DEF Holding
  <2>2. \A pd \in Holding(e) : pd[1] \in Procs /\ pd[2] \in Fd /\ ofile[pd[1]][pd[2]] = e
    BY DEF Holding
  <2> QED  BY <2>1, <2>2 DEF Has
<1>4. Cardinality(Holding(e)) = 0 <=> Holding(e) = {}
  BY <1>2, FS_EmptySet
<1> QED  BY <1>2, <1>3, <1>4

LEMMA PipeInitInv == PipeInit => PipeInv
<1> SUFFICES ASSUME PipeInit PROVE PipeInv
  OBVIOUS
<1> USE DEF PipeInit
<1>1. 1 \in Fd /\ 2 \in Fd
  BY FilesAssumption DEF Fd
<1>2. PipeTypeOK
  <2>1. freed \in BOOLEAN /\ killed \in [Procs -> BOOLEAN]
    BY Zenon
  <2>2. nread \in 0..(Modulus - 1) /\ nwrite \in 0..(Modulus - 1)
    BY BufferAssumption
  <2>3. data \in [0..(PIPESIZE - 1) -> Nat] /\ sent \in Nat /\ want \in [Procs -> Nat]
    BY DEF NoByte
  <2>4. ofile \in [Procs -> [Fd -> Ends \cup {NoEnd}]]
    BY DEF Ends, NoEnd
  <2>5. at \in [Procs -> {"unborn", "user", "exit", "gone"} \cup Ends]
    OBVIOUS
  <2> QED  BY <2>1, <2>2, <2>3, <2>4, <2>5 DEF PipeTypeOK, Ends, NoEnd
<1>3. ASSUME NEW e \in Ends PROVE Cardinality(Holding(e)) = 1 /\ Has(First, e)
  <2>1. PICK d \in Fd : d = (IF e = "read" THEN 1 ELSE 2)
    BY <1>1
  <2>2. \A p \in Procs, f \in Fd : ofile[p][f] = e <=> p = First /\ f = d
    BY <1>1, <2>1, FirstAssumption DEF Ends, NoEnd
  <2>3. Holding(e) = {<<First, d>>}
    BY <2>2, FirstAssumption DEF Holding
  <2> QED  BY <2>2, <2>3, FirstAssumption, FS_Singleton DEF Has
<1>4. OpenWhileHeld
  BY <1>3, FirstAssumption DEF OpenWhileHeld, Holding
<1>5. FileShape
  <2>1. ASSUME NEW p \in Procs, p # First, NEW e \in Ends PROVE ~Has(p, e)
    BY <2>1 DEF Has, Ends, NoEnd
  <2>2. freed <=> open = {}
    BY DEF Ends
  <2> QED  BY <2>1, <2>2 DEF FileShape, Ends, NoEnd
<1>6. BufferShape
  <2>1. Len(got) = 0 /\ sent = 0 /\ 0 % Modulus = 0
    BY BufferConstants, ModSmall
  <2> QED  BY <2>1, BufferConstants DEF BufferShape
<1>7. NoLostWakeup
  BY DEF NoLostWakeup, NoEnd
<1> QED  BY <1>2, <1>4, <1>5, <1>6, <1>7 DEF PipeInv

-----------------------------------------------------------------------------
(* Calls *)

CountersSeen ==
  /\ Occupied = sent - Len(got) /\ Room = PIPESIZE - (sent - Len(got))
  /\ IsEmpty <=> sent = Len(got)
  /\ sent - Len(got) \in 0..PIPESIZE

LEMMA CountersAlwaysRead == PipeTypeOK /\ BufferShape => CountersSeen
BY CountersRead DEF CountersSeen

\* A step inside a call touches no descriptor and starts no other call.
LEMMA FilesAlone ==
  ASSUME PipeInv, UNCHANGED <<fileVars, open, freed>>,
         \A p \in Procs :
           /\ at'[p] \in Ends => at'[p] = at[p] \/ (closing[p] = NoEnd /\ Has(p, at'[p]))
           /\ at'[p] = "unborn" => at[p] = "unborn"
  PROVE  OpenWhileHeld' /\ FileShape'
<1>1. \A p, e : Has(p, e)' <=> Has(p, e)
  BY DEF Has, fileVars
<1>2. OpenWhileHeld'
  BY <1>1 DEF PipeInv, OpenWhileHeld, fileVars
<1>3. FileShape'
  BY <1>1 DEF PipeInv, FileShape, fileVars
<1> QED  BY <1>2, <1>3

LEMMA BufferAlone ==
  ASSUME PipeInv, UNCHANGED <<nread, nwrite, data, sent, got>>
  PROVE  BufferShape' /\ (Room' = Room) /\ (IsEmpty' <=> IsEmpty)
BY DEF PipeInv, BufferShape, Room, IsEmpty

LEMMA EndsAre == Ends = {"read", "write"} /\ NoEnd = "none"
BY DEF Ends, NoEnd

\* A call ends in user mode or, for a killed process, in kexit.
LEMMA BackIs ==
  ASSUME NEW p
  PROVE  \E x \in {"user", "exit"} : Back(p) = [at EXCEPT ![p] = x]
<1>1. CASE killed[p]
  BY <1>1, Zenon DEF Back
<1>2. CASE ~killed[p]
  BY <1>2, Zenon DEF Back
<1> QED  BY <1>1, <1>2

\* Calls that neither read nor write, and steps between calls.
LEMMA OutsideBuffer ==
  ASSUME PipeInv, NEW p \in Procs, NEW e \in Ends, NEW n \in 1..MaxChunk,
         \/ Enter(p, e, n) \/ WriteFails(p) \/ ReadFails(p) \/ ReadSleeps(p)
         \/ Exit(p) \/ Gone(p) \/ KillIt(p)
  PROVE  PipeInv'
<1> USE EndsAre
<1>1. /\ UNCHANGED <<fileVars, bufVars, sent, got>>
      /\ UNCHANGED <<nread, nwrite, data, sent, got>> /\ UNCHANGED <<fileVars, open, freed>>
  BY DEF Enter, WriteFails, ReadFails, ReadSleeps, Exit, Gone, KillIt, bufVars
<1>2. /\ at' \in [Procs -> {"unborn", "user", "exit", "gone"} \cup Ends]
      /\ \A q \in Procs : q # p => at'[q] = at[q] /\ want'[q] = want[q]
      /\ want' \in [Procs -> Nat]
  <2>1. PICK x \in {"unborn", "user", "exit", "gone"} \cup Ends :
          at' = at \/ at' = [at EXCEPT ![p] = x]
    BY BackIs, Zenon DEF Enter, WriteFails, ReadFails, ReadSleeps, Exit, Gone, KillIt
  <2>2. PICK y \in Nat : want' = want \/ want' = [want EXCEPT ![p] = y]
    <3>1. n \in Nat /\ 0 \in Nat
      BY PipeBoundsAssumption
    <3>2. \/ want' = want \/ want' = [want EXCEPT ![p] = n]
          \/ want' = [want EXCEPT ![p] = 0]
      BY Zenon DEF Enter, WriteFails, ReadFails, ReadSleeps, Exit, Gone, KillIt
    <3> QED  BY <3>1, <3>2, Zenon
  <2>3. /\ at' \in [Procs -> {"unborn", "user", "exit", "gone"} \cup Ends]
        /\ \A q \in Procs : q # p => at'[q] = at[q]
    <3>1. at \in [Procs -> {"unborn", "user", "exit", "gone"} \cup Ends]
      BY DEF PipeInv, PipeTypeOK
    <3> HIDE DEF Ends
    <3> QED  BY <2>1, <3>1
  <2>4. want' \in [Procs -> Nat] /\ \A q \in Procs : q # p => want'[q] = want[q]
    <3>1. want \in [Procs -> Nat]
      BY DEF PipeInv, PipeTypeOK
    <3> QED  BY <2>2, <3>1
  <2> QED  BY <2>3, <2>4
<1>3. /\ asleep' \in [Procs -> Ends \cup {NoEnd}]
      /\ \A q \in Procs : q # p => asleep'[q] = asleep[q]
  BY DEF PipeInv, PipeTypeOK, Enter, WriteFails, ReadFails, ReadSleeps, Exit, Gone, KillIt
<1>4. /\ killed' \in [Procs -> BOOLEAN]
      /\ \A q \in Procs : q # p => (killed'[q] <=> killed[q])
  <2>1. CASE killed' = killed
    BY <2>1, Zenon DEF PipeInv, PipeTypeOK
  <2>2. CASE killed' = [killed EXCEPT ![p] = TRUE]
    BY <2>2 DEF PipeInv, PipeTypeOK
  <2> QED  BY <2>1, <2>2 DEF Enter, WriteFails, ReadFails, ReadSleeps, Exit, Gone, KillIt
<1>5. PipeTypeOK'
  BY <1>1, <1>2, <1>3, <1>4 DEF PipeInv, PipeTypeOK, fileVars, bufVars
<1>6. /\ at'[p] \in Ends => at'[p] = at[p] \/ (closing[p] = NoEnd /\ Has(p, at'[p]))
      /\ at'[p] = "unborn" => at[p] = "unborn"
  BY DEF PipeInv, PipeTypeOK, Enter, WriteFails, ReadFails, ReadSleeps, Exit, Gone, KillIt,
         Back, Calls
<1>7. OpenWhileHeld' /\ FileShape'
  BY <1>1, <1>2, <1>6, FilesAlone
<1>8. BufferShape' /\ (Room' = Room) /\ (IsEmpty' <=> IsEmpty)
  BY <1>1, BufferAlone
<1>9. open' = open
  BY <1>1
<1>10. \/ asleep'[p] = NoEnd
       \/ /\ asleep'[p] = "read" /\ at'[p] = "read" /\ ~killed'[p]
          /\ IsEmpty /\ "write" \in open
  BY DEF PipeInv, PipeTypeOK, NoLostWakeup, Enter, WriteFails, ReadFails, ReadSleeps, Exit,
         Gone, KillIt, Runs, Waits, Calls
<1>11. NoLostWakeup'
  <2> SUFFICES ASSUME NEW q \in Procs
               PROVE  /\ asleep'[q] = "read" => IsEmpty' /\ "write" \in open'
                      /\ asleep'[q] = "write" => Room' = 0 /\ "read" \in open'
                      /\ asleep'[q] # NoEnd => ~killed'[q] /\ at'[q] = asleep'[q]
    BY DEF NoLostWakeup
  <2>1. CASE q = p
    BY <1>8, <1>9, <1>10, <2>1
  <2>2. CASE q # p
    BY <1>2, <1>3, <1>4, <1>8, <1>9, <2>2 DEF PipeInv, NoLostWakeup
  <2> QED  BY <2>1, <2>2
<1> QED  BY <1>5, <1>7, <1>8, <1>11 DEF PipeInv

LEMMA ReadReturnsStep ==
  ASSUME PipeInv, NEW p \in Procs, ReadReturns(p)
  PROVE  /\ PipeInv'
         /\ sent' = sent /\ open' = open
         /\ \E k \in 0..PIPESIZE :
              /\ Len(got) + k <= sent
              /\ got' = [i \in 1..(Len(got) + k) |-> i]
<1> USE EndsAre
<1>1. PICK k \in Nat : k <= Occupied /\ got' = got \o Fetched(k) /\ nread' = (nread + k) % Modulus
  <2>1. CountersSeen
    BY CountersAlwaysRead DEF PipeInv
  <2>2. PICK w \in Nat, o \in Nat : w = want[p] /\ o = Occupied
    <3>1. want[p] \in Nat
      BY DEF PipeInv, PipeTypeOK
    <3>2. Occupied \in Nat
      BY <2>1, BufferConstants DEF CountersSeen
    <3> QED  BY <3>1, <3>2
  <2>3. \A k \in 0..Smaller(w, o) : k \in Nat /\ k <= o
    BY DEF Smaller
  <2> QED  BY <2>2, <2>3, Zenon DEF ReadReturns
<1>2. /\ UNCHANGED <<fileVars, open, freed>> /\ UNCHANGED <<nwrite, data, sent>>
      /\ killed' = killed /\ at' = Back(p) /\ asleep' = Awake("write")
      /\ want' = [want EXCEPT ![p] = 0] /\ at[p] = "read" /\ asleep[p] = NoEnd
      /\ ~(IsEmpty /\ "write" \in open)
  BY Zenon DEF ReadReturns, WakesWriters, Runs, Waits
<1>3. /\ BufferShape' /\ got' \in Seq(Nat) /\ nread' \in 0..(Modulus - 1)
      /\ Len(got') = Len(got) + k /\ Len(got') <= sent
      /\ got' = [i \in 1..(Len(got) + k) |-> i]
  BY <1>1, <1>2, FetchKeeps, Zenon DEF PipeInv
<1>4. PICK x \in {"user", "exit"} : at' = [at EXCEPT ![p] = x]
  BY <1>2, BackIs, Zenon
<1>5. /\ at' \in [Procs -> {"unborn", "user", "exit", "gone"} \cup Ends]
      /\ at'[p] \notin Ends /\ at'[p] # "unborn"
      /\ \A q \in Procs : q # p => at'[q] = at[q]
  BY <1>4 DEF PipeInv, PipeTypeOK
<1>6. \A q \in Procs : asleep'[q] = NoEnd
  BY <1>2 DEF PipeInv, NoLostWakeup, Awake, PipeTypeOK
<1>7. PipeTypeOK'
  <2>1. asleep' \in [Procs -> Ends \cup {NoEnd}]
    BY <1>2, <1>6 DEF Awake
  <2>2. want' \in [Procs -> Nat]
    BY <1>2 DEF PipeInv, PipeTypeOK
  <2> QED  BY <1>2, <1>3, <1>5, <2>1, <2>2 DEF PipeInv, PipeTypeOK, fileVars
<1>8. OpenWhileHeld' /\ FileShape'
  BY <1>2, <1>5, FilesAlone
<1>9. NoLostWakeup'
  BY <1>6 DEF NoLostWakeup
<1>10. k \in 0..PIPESIZE /\ Len(got) + k <= sent
  <2>1. Occupied \in 0..PIPESIZE
    BY CountersAlwaysRead DEF PipeInv, CountersSeen
  <2> QED  BY <1>1, <1>3, <2>1, BufferConstants
<1> QED  BY <1>2, <1>3, <1>7, <1>8, <1>9, <1>10 DEF PipeInv

\* What the two ways of writing have in common.
LEMMA WritesStep ==
  ASSUME PipeInv, NEW p \in Procs, NEW k \in Nat, k <= Room, Copies(p, k),
         at' = at \/ at' = Back(p),
         \E w \in Nat : want' = [want EXCEPT ![p] = w],
         \/ asleep' = Awake("read")
         \/ asleep' = [Awake("read") EXCEPT ![p] = "write"] /\ k = Room /\ at' = at
  PROVE  /\ PipeInv'
         /\ got' = got /\ open' = open /\ "read" \in open
         /\ k \in 0..PIPESIZE /\ sent' = sent + k /\ sent' <= Len(got) + PIPESIZE
<1> USE EndsAre
<1>1. /\ UNCHANGED <<fileVars, open, freed>> /\ nread' = nread /\ killed' = killed
      /\ got' = got /\ sent' = sent + k /\ "read" \in open
      /\ at[p] = "write" /\ asleep[p] = NoEnd /\ ~killed[p]
  BY Zenon DEF Copies, Runs
<1>2. /\ BufferShape' /\ sent' \in Nat /\ nwrite' \in 0..(Modulus - 1)
      /\ data' \in [0..(PIPESIZE - 1) -> Nat] /\ sent' <= Len(got) + PIPESIZE
  BY CopiesKeep, Zenon DEF PipeInv
<1>3. PICK x \in {"user", "exit", "write"} : at' = [at EXCEPT ![p] = x]
  <2>1. at = [at EXCEPT ![p] = "write"]
    BY <1>1 DEF PipeInv, PipeTypeOK
  <2> QED  BY <2>1, BackIs, Zenon
<1>4. /\ at' \in [Procs -> {"unborn", "user", "exit", "gone"} \cup Ends]
      /\ at'[p] \in Ends => at'[p] = at[p]
      /\ at'[p] # "unborn"
      /\ \A q \in Procs : q # p => at'[q] = at[q]
  BY <1>1, <1>3 DEF PipeInv, PipeTypeOK
<1>5. OpenWhileHeld' /\ FileShape'
  BY <1>1, <1>4, FilesAlone
<1>6. /\ asleep' \in [Procs -> Ends \cup {NoEnd}]
      /\ \A q \in Procs : q # p =>
           asleep'[q] = NoEnd \/ (asleep'[q] = "write" /\ asleep[q] = "write")
      /\ asleep'[p] = NoEnd \/ (asleep'[p] = "write" /\ k = Room /\ at' = at)
  BY <1>1 DEF PipeInv, PipeTypeOK, Awake
<1>7. PipeTypeOK'
  <2>1. want' \in [Procs -> Nat]
    BY DEF PipeInv, PipeTypeOK
  <2> QED  BY <1>1, <1>2, <1>4, <1>6, <2>1 DEF PipeInv, PipeTypeOK, fileVars
<1>8. /\ CountersSeen /\ CountersSeen'
  <2>1. (PipeTypeOK /\ BufferShape => CountersSeen)'
    BY CountersAlwaysRead, PTL
  <2> QED  BY <1>2, <1>7, <2>1, CountersAlwaysRead DEF PipeInv
<1>9. k = Room => Room' = 0
  BY <1>1, <1>8, BufferConstants DEF CountersSeen, PipeInv, PipeTypeOK
<1>10. Room = 0 => k = Room
  BY <1>8, BufferConstants DEF CountersSeen
<1>11. NoLostWakeup'
  <2> SUFFICES ASSUME NEW q \in Procs
               PROVE  /\ asleep'[q] = "read" => IsEmpty' /\ "write" \in open'
                      /\ asleep'[q] = "write" => Room' = 0 /\ "read" \in open'
                      /\ asleep'[q] # NoEnd => ~killed'[q] /\ at'[q] = asleep'[q]
    BY DEF NoLostWakeup
  <2>1. CASE q = p
    BY <1>1, <1>6, <1>9, <2>1
  <2>2. CASE q # p
    <3>1. asleep'[q] # NoEnd =>
            /\ asleep'[q] = "write" /\ asleep[q] = "write" /\ Room = 0
            /\ ~killed[q] /\ at[q] = "write"
      BY <1>6, <2>2 DEF PipeInv, NoLostWakeup
    <3> QED  BY <1>1, <1>4, <1>9, <1>10, <2>2, <3>1
  <2> QED  BY <2>1, <2>2
<1>12. k \in 0..PIPESIZE
  BY <1>8, BufferConstants DEF CountersSeen
<1> QED  BY <1>1, <1>2, <1>5, <1>7, <1>11, <1>12 DEF PipeInv

LEMMA WriteStep ==
  ASSUME PipeInv, NEW p \in Procs, WriteSleeps(p) \/ WriteReturns(p)
  PROVE  /\ PipeInv'
         /\ got' = got /\ open' = open /\ "read" \in open
         /\ \E k \in 0..PIPESIZE : sent' = sent + k /\ sent' <= Len(got) + PIPESIZE
<1>1. PICK w \in Nat, r \in Nat : w = want[p] /\ r = Room
  <2>1. CountersSeen
    BY CountersAlwaysRead DEF PipeInv
  <2>2. want[p] \in Nat
    BY DEF PipeInv, PipeTypeOK
  <2>3. Room \in Nat
    BY <2>1, BufferConstants DEF CountersSeen
  <2> QED  BY <2>2, <2>3
<1>2. PICK k \in Nat :
        /\ k <= Room /\ Copies(p, k) /\ (at' = at \/ at' = Back(p))
        /\ \E v \in Nat : want' = [want EXCEPT ![p] = v]
        /\ \/ asleep' = Awake("read")
           \/ asleep' = [Awake("read") EXCEPT ![p] = "write"] /\ k = Room /\ at' = at
  <2>1. CASE WriteSleeps(p)
    <3>1. r < w /\ Copies(p, r) /\ at' = at /\ want' = [want EXCEPT ![p] = want[p] - r]
          /\ asleep' = [Awake("read") EXCEPT ![p] = "write"]
      BY <1>1, <2>1, Zenon DEF WriteSleeps, SleepsFull
    <3>2. w - r \in Nat /\ r <= r
      BY <3>1
    <3> QED  BY <1>1, <3>1, <3>2, Zenon
  <2>2. CASE WriteReturns(p)
    <3>1. \A k \in 0..Smaller(w, r) : k \in Nat /\ k <= r
      BY DEF Smaller
    <3>2. PICK k \in 0..Smaller(w, r) :
            /\ Copies(p, k) /\ at' = Back(p) /\ asleep' = Awake("read")
            /\ want' = [want EXCEPT ![p] = 0]
      BY <1>1, <2>2, Zenon DEF WriteReturns
    <3>3. 0 \in Nat
      OBVIOUS
    <3> QED  BY <1>1, <3>1, <3>2, <3>3, Zenon
  <2> QED  BY <2>1, <2>2
<1> QED  BY <1>2, WritesStep, Zenon

-----------------------------------------------------------------------------
(* Descriptors *)

HoldingsCounted ==
  \A e \in Ends :
    /\ IsFiniteSet(Holding(e)) /\ Cardinality(Holding(e)) \in Nat
    /\ Cardinality(Holding(e)) = 0 <=> \A p \in Procs : ~Has(p, e)

LEMMA HoldingsAreCounted == HoldingsCounted
BY HoldingCounted, Zenon DEF HoldingsCounted

\* An end that somebody holds has a reference, is open and is being closed by nobody.
LEMMA HeldEnd ==
  ASSUME PipeInv, NEW p \in Procs, NEW e \in Ends, Has(p, e)
  PROVE  /\ ref[e] = Cardinality(Holding(e)) /\ ref[e] \in Nat /\ ref[e] # 0
         /\ e \in open /\ \A q \in Procs : closing[q] # e
<1>1. ref[e] = Cardinality(Holding(e)) /\ e \in open
  BY DEF PipeInv, OpenWhileHeld, Holding
<1>2. ref[e] \in Nat /\ ref[e] # 0
  BY <1>1, HoldingsAreCounted DEF HoldingsCounted
<1>3. \A q \in Procs : closing[q] # e
  BY <1>2, EndsAre DEF PipeInv, FileShape
<1> QED  BY <1>1, <1>2, <1>3

LEMMA DescriptorsOnly ==
  ASSUME PipeInv, UNCHANGED <<bufVars, asleep, want, killed, sent, got>>,
         \A q \in Procs : at[q] \in Ends => at'[q] = at[q]
  PROVE  BufferShape' /\ NoLostWakeup'
<1>1. BufferShape' /\ (Room' = Room) /\ (IsEmpty' <=> IsEmpty)
  BY BufferAlone DEF bufVars
<1>2. NoLostWakeup'
  BY <1>1 DEF PipeInv, PipeTypeOK, NoLostWakeup, bufVars, Ends, NoEnd
<1> QED  BY <1>1, <1>2

\* The references count the descriptors, and an end open to everybody has one.
LEMMA CountsAgree ==
  ASSUME \A e \in Ends :
           /\ ref'[e] = Cardinality(Holding(e))'
           /\ e \in open' <=> \E q \in Procs : Has(q, e)' \/ closing'[q] = e
  PROVE  OpenWhileHeld'
BY DEF OpenWhileHeld, Holding

LEMMA DupStep ==
  ASSUME PipeInv, NEW p \in Procs, NEW d \in Fd, Dup(p, d)
  PROVE  PipeInv'
<1> USE EndsAre
<1>1. PICK e \in Ends, free \in Fd :
        /\ e = ofile[p][d] /\ ofile[p][free] = NoEnd
        /\ ofile' = [ofile EXCEPT ![p][free] = e] /\ ref' = [ref EXCEPT ![e] = ref[e] + 1]
  BY DEF Dup, FreeFds
<1>2. UNCHANGED <<closing, bufVars, procVars, sent, got>>
  BY DEF Dup
<1>3. Has(p, e)
  BY <1>1 DEF Has
<1>4. /\ ref[e] = Cardinality(Holding(e)) /\ ref[e] \in Nat /\ ref[e] # 0
      /\ e \in open /\ \A q \in Procs : closing[q] # e
  BY <1>3, HeldEnd
<1>5. \A q \in Procs, f \in Fd :
        ofile'[q][f] = IF q = p /\ f = free THEN e ELSE ofile[q][f]
  BY <1>1 DEF PipeInv, PipeTypeOK
<1>6. \A q \in Procs, x \in Ends : Has(q, x)' <=> Has(q, x)
  BY <1>1, <1>5 DEF Has
<1>7. PipeTypeOK'
  <2>1. ofile' \in [Procs -> [Fd -> Ends \cup {NoEnd}]]
    BY <1>1 DEF PipeInv, PipeTypeOK
  <2>2. ref' \in [Ends -> Nat]
    BY <1>1 DEF PipeInv, PipeTypeOK
  <2> QED  BY <1>2, <2>1, <2>2 DEF PipeInv, PipeTypeOK, bufVars, procVars
<1>8. ASSUME NEW x \in Ends PROVE ref'[x] = Cardinality(Holding(x))'
  <2>1. ref[x] = Cardinality(Holding(x)) /\ IsFiniteSet(Holding(x))
    BY HoldingsAreCounted DEF HoldingsCounted, PipeInv, OpenWhileHeld, Holding
  <2>2. CASE x = e
    <3>1. Holding(x)' = Holding(x) \cup {<<p, free>>} /\ <<p, free>> \notin Holding(x)
      BY <1>1, <1>5, <2>2 DEF Holding
    <3>2. Cardinality(Holding(x) \cup {<<p, free>>}) = Cardinality(Holding(x)) + 1
      BY <2>1, <3>1, FS_AddElement
    <3>3. ref'[x] = ref[x] + 1
      BY <1>1, <2>2 DEF PipeInv, PipeTypeOK
    <3> QED  BY <2>1, <3>1, <3>2, <3>3
  <2>3. CASE x # e
    <3>1. Holding(x)' = Holding(x)
      BY <1>1, <1>5, <2>3 DEF Holding
    <3>2. ref'[x] = ref[x]
      BY <1>1, <2>3 DEF PipeInv, PipeTypeOK
    <3> QED  BY <2>1, <3>1, <3>2
  <2> QED  BY <2>2, <2>3
<1>9. OpenWhileHeld'
  <2>1. \A x \in Ends : x \in open' <=> \E q \in Procs : Has(q, x)' \/ closing'[q] = x
    BY <1>2, <1>6 DEF PipeInv, OpenWhileHeld, bufVars
  <2> QED  BY <1>8, <2>1, CountsAgree
<1>10. FileShape'
  <2>1. \A x \in Ends : x # e => ref'[x] = ref[x]
    BY <1>1 DEF PipeInv, PipeTypeOK
  <2> QED  BY <1>2, <1>4, <1>6, <2>1 DEF PipeInv, PipeTypeOK, FileShape, bufVars, procVars
<1>11. BufferShape' /\ NoLostWakeup'
  BY <1>2, DescriptorsOnly DEF procVars
<1> QED  BY <1>7, <1>9, <1>10, <1>11 DEF PipeInv

LEMMA CloseStep ==
  ASSUME PipeInv, NEW p \in Procs, NEW d \in Fd, CloseFd(p, d)
  PROVE  PipeInv'
<1> USE EndsAre
<1>1. PICK e \in Ends :
        /\ e = ofile[p][d] /\ closing[p] = NoEnd
        /\ ofile' = [ofile EXCEPT ![p][d] = NoEnd] /\ ref' = [ref EXCEPT ![e] = ref[e] - 1]
        /\ closing' = [closing EXCEPT ![p] = IF ref[e] = 1 THEN e ELSE NoEnd]
  BY DEF CloseFd
<1>2. UNCHANGED <<bufVars, procVars, sent, got>> /\ at[p] \in {"exit", "user"}
  BY DEF CloseFd, Calls
<1>3. Has(p, e)
  BY <1>1 DEF Has
<1>4. /\ ref[e] = Cardinality(Holding(e)) /\ ref[e] \in Nat /\ ref[e] # 0
      /\ e \in open /\ \A q \in Procs : closing[q] # e
  BY <1>3, HeldEnd
<1>5. \A q \in Procs, f \in Fd :
        ofile'[q][f] = IF q = p /\ f = d THEN NoEnd ELSE ofile[q][f]
  BY <1>1 DEF PipeInv, PipeTypeOK
<1>6. \A q \in Procs, x \in Ends : q # p \/ x # e => (Has(q, x)' <=> Has(q, x))
  BY <1>1, <1>5 DEF Has
<1>7. /\ \A q \in Procs : q # p => closing'[q] = closing[q]
      /\ closing'[p] = (IF ref[e] = 1 THEN e ELSE NoEnd)
      /\ ref'[e] = ref[e] - 1 /\ \A x \in Ends : x # e => ref'[x] = ref[x]
  BY <1>1 DEF PipeInv, PipeTypeOK
<1>8. PipeTypeOK'
  <2>1. ofile' \in [Procs -> [Fd -> Ends \cup {NoEnd}]]
    BY <1>1 DEF PipeInv, PipeTypeOK
  <2>2. ref' \in [Ends -> Nat] /\ closing' \in [Procs -> Ends \cup {NoEnd}]
    BY <1>1, <1>4 DEF PipeInv, PipeTypeOK
  <2> QED  BY <1>2, <2>1, <2>2 DEF PipeInv, PipeTypeOK, bufVars, procVars
<1>9. ASSUME NEW x \in Ends PROVE ref'[x] = Cardinality(Holding(x))'
  <2>1. ref[x] = Cardinality(Holding(x)) /\ IsFiniteSet(Holding(x))
    BY HoldingsAreCounted DEF HoldingsCounted, PipeInv, OpenWhileHeld, Holding
  <2>2. CASE x = e
    <3>1. Holding(x)' = Holding(x) \ {<<p, d>>} /\ <<p, d>> \in Holding(x)
      BY <1>1, <1>5, <2>2 DEF Holding
    <3>2. Cardinality(Holding(x) \ {<<p, d>>}) = Cardinality(Holding(x)) - 1
      BY <2>1, <3>1, FS_RemoveElement
    <3> QED  BY <1>7, <2>1, <2>2, <3>1, <3>2
  <2>3. CASE x # e
    <3>1. Holding(x)' = Holding(x)
      BY <1>1, <1>5, <2>3 DEF Holding
    <3> QED  BY <1>7, <2>1, <2>3, <3>1
  <2> QED  BY <2>2, <2>3
<1>10. ref'[e] # 0 => \E q \in Procs : Has(q, e)'
  <2>1. HoldingsCounted'
    BY HoldingsAreCounted, PTL
  <2> QED  BY <1>9, <2>1 DEF HoldingsCounted
<1>11. OpenWhileHeld'
  <2>1. ASSUME NEW x \in Ends
        PROVE  x \in open' <=> \E q \in Procs : Has(q, x)' \/ closing'[q] = x
    <3>1. CASE x = e
      BY <1>2, <1>4, <1>7, <1>10, <3>1 DEF bufVars
    <3>2. CASE x # e
      BY <1>1, <1>2, <1>6, <1>7, <3>2 DEF PipeInv, OpenWhileHeld, bufVars
    <3> QED  BY <3>1, <3>2
  <2> QED  BY <1>9, <2>1, CountsAgree
<1>12. FileShape'
  <2>1. ASSUME NEW q \in Procs
        PROVE  closing'[q] # NoEnd =>
                 ref'[closing'[q]] = 0 /\ \A r \in Procs : closing'[r] = closing'[q] => r = q
    <3>1. CASE q = p
      BY <1>4, <1>7, <3>1
    <3>2. CASE q # p
      BY <1>4, <1>7, <3>2 DEF PipeInv, PipeTypeOK, FileShape
    <3> QED  BY <3>1, <3>2
  <2>2. ASSUME NEW q \in Procs
        PROVE  /\ at'[q] \in Ends => Has(q, at[q])' /\ closing'[q] = NoEnd
               /\ at'[q] = "unborn" => closing'[q] = NoEnd /\ ~\E x \in Ends : Has(q, x)'
    BY <1>2, <1>6, <1>7 DEF PipeInv, FileShape, procVars
  <2> QED  BY <1>2, <2>1, <2>2 DEF PipeInv, FileShape, bufVars, procVars
<1>13. BufferShape' /\ NoLostWakeup'
  BY <1>2, DescriptorsOnly DEF procVars
<1> QED  BY <1>8, <1>11, <1>12, <1>13 DEF PipeInv

LEMMA ForkStep ==
  ASSUME PipeInv, NEW p \in Procs, NEW q \in Procs, ForkFiles(p, q)
  PROVE  PipeInv'
<1> USE EndsAre
<1> DEFINE Copied(e) == {d \in Fd : ofile[p][d] = e}
<1>1. /\ at[p] = "user" /\ at[q] = "unborn" /\ q # p /\ closing[q] = NoEnd
      /\ \A x \in Ends : ~Has(q, x)
  BY DEF ForkFiles, Calls, PipeInv, FileShape
<1>2. /\ UNCHANGED <<closing, bufVars, asleep, want, killed, sent, got>>
      /\ at' = [at EXCEPT ![q] = "user"]
      /\ ofile' = [ofile EXCEPT ![q] = ofile[p]]
      /\ ref' = [e \in Ends |-> ref[e] + Cardinality(Copied(e))]
  BY DEF ForkFiles, ForkedRef
<1>3. \A r \in Procs : ofile'[r] = IF r = q THEN ofile[p] ELSE ofile[r]
  BY <1>2 DEF PipeInv, PipeTypeOK
<1>4. \A r \in Procs, x \in Ends : Has(r, x)' <=> Has(IF r = q THEN p ELSE r, x)
  BY <1>3 DEF Has
<1>5. \A x \in Ends : IsFiniteSet(Copied(x)) /\ Cardinality(Copied(x)) \in Nat
  <2>1. IsFiniteSet(Fd)
    BY FilesAssumption, FS_Interval DEF Fd
  <2> QED  BY <2>1, FS_Subset, FS_CardinalityType
<1>6. PipeTypeOK'
  <2>1. ofile' \in [Procs -> [Fd -> Ends \cup {NoEnd}]]
    BY <1>2 DEF PipeInv, PipeTypeOK
  <2>2. ref' \in [Ends -> Nat]
    BY <1>2, <1>5 DEF PipeInv, PipeTypeOK
  <2>3. at' \in [Procs -> {"unborn", "user", "exit", "gone"} \cup Ends]
    BY <1>2 DEF PipeInv, PipeTypeOK
  <2> QED  BY <1>2, <2>1, <2>2, <2>3 DEF PipeInv, PipeTypeOK, bufVars
<1>7. ASSUME NEW x \in Ends PROVE ref'[x] = Cardinality(Holding(x))'
  <2>1. /\ ref[x] = Cardinality(Holding(x)) /\ IsFiniteSet(Holding(x))
        /\ Cardinality(Holding(x)) \in Nat
    BY HoldingsAreCounted DEF HoldingsCounted, PipeInv, OpenWhileHeld, Holding
  <2>2. /\ IsFiniteSet({q} \X Copied(x))
        /\ Cardinality({q} \X Copied(x)) = Cardinality(Copied(x))
    <3>1. IsFiniteSet({q}) /\ Cardinality({q}) = 1
      BY FS_Singleton
    <3>2. /\ IsFiniteSet({q} \X Copied(x))
          /\ Cardinality({q} \X Copied(x)) = Cardinality({q}) * Cardinality(Copied(x))
      BY <1>5, <3>1, FS_Product
    <3>3. \A n \in Nat : 1 * n = n
      OBVIOUS
    <3> QED  BY <1>5, <3>1, <3>2, <3>3, Zenon
  <2>3. Holding(x)' = Holding(x) \cup ({q} \X Copied(x))
    BY <1>1, <1>3 DEF Holding, Has
  <2>4. Holding(x) \cap ({q} \X Copied(x)) = {}
    BY <1>1 DEF Holding, Has
  <2>5. Cardinality(Holding(x) \cup ({q} \X Copied(x)))
          = Cardinality(Holding(x)) + Cardinality({q} \X Copied(x))
              - Cardinality(Holding(x) \cap ({q} \X Copied(x)))
    BY <2>1, <2>2, FS_Union
  <2>6. Cardinality(Holding(x) \cap ({q} \X Copied(x))) = 0
    BY <2>4, FS_EmptySet
  <2>7. ref'[x] = ref[x] + Cardinality(Copied(x))
    BY <1>2
  <2> HIDE DEF Copied
  <2> QED  BY <1>5, <2>1, <2>2, <2>3, <2>5, <2>6, <2>7
<1>8. OpenWhileHeld'
  <2>1. \A x \in Ends : x \in open' <=> \E r \in Procs : Has(r, x)' \/ closing'[r] = x
    BY <1>1, <1>2, <1>4 DEF PipeInv, OpenWhileHeld, bufVars
  <2> QED  BY <1>7, <2>1, CountsAgree
<1>9. FileShape'
  <2>1. HoldingsCounted'
    BY HoldingsAreCounted, PTL
  <2>2. ASSUME NEW r \in Procs, closing'[r] # NoEnd
        PROVE  /\ ref'[closing'[r]] = 0
               /\ \A s \in Procs : closing'[s] = closing'[r] => s = r
    <3>1. PICK x \in Ends : closing[r] = x /\ closing'[r] = x
      BY <1>2, <2>2 DEF PipeInv, PipeTypeOK
    <3>2. \A s \in Procs : ~Has(s, x)
      BY <3>1, HeldEnd
    <3>3. \A s \in Procs : ~Has(s, x)'
      BY <1>4, <3>2
    <3>4. ref'[x] = 0
      BY <1>7, <2>1, <3>3 DEF HoldingsCounted
    <3> QED  BY <1>2, <3>1, <3>4 DEF PipeInv, FileShape
  <2>3. ASSUME NEW r \in Procs
        PROVE  /\ at'[r] \in Ends => Has(r, at[r])' /\ closing'[r] = NoEnd
               /\ at'[r] = "unborn" => closing'[r] = NoEnd /\ ~\E x \in Ends : Has(r, x)'
    <3>1. at'[r] = IF r = q THEN "user" ELSE at[r]
      BY <1>2 DEF PipeInv, PipeTypeOK
    <3> QED  BY <1>2, <1>4, <3>1 DEF PipeInv, FileShape
  <2> QED  BY <1>2, <2>2, <2>3 DEF PipeInv, FileShape, bufVars
<1>10. BufferShape' /\ NoLostWakeup'
  <2>1. \A r \in Procs : at[r] \in Ends => at'[r] = at[r]
    BY <1>1, <1>2 DEF PipeInv, PipeTypeOK
  <2> QED  BY <1>2, <2>1, DescriptorsOnly
<1> QED  BY <1>6, <1>8, <1>9, <1>10 DEF PipeInv

LEMMA PipeCloseStep ==
  ASSUME PipeInv, NEW p \in Procs, PipeClose(p)
  PROVE  /\ PipeInv'
         /\ sent' = sent /\ got' = got
         /\ \E e \in open : open' = open \ {e}
<1> USE EndsAre
<1>1. PICK e \in Ends : e = closing[p]
  BY DEF PipeClose, PipeInv, PipeTypeOK
<1>2. /\ open' = open \ {e} /\ asleep' = Tells(e) /\ freed' = (freed \/ PageGoes(e))
      /\ closing' = [closing EXCEPT ![p] = NoEnd]
      /\ UNCHANGED <<ofile, ref, nread, nwrite, data, at, want, killed, sent, got>>
  BY <1>1 DEF PipeClose
<1>3. \A q \in Procs : closing'[q] = IF q = p THEN NoEnd ELSE closing[q]
  BY <1>2 DEF PipeInv, PipeTypeOK
<1>4. \A q \in Procs, x \in Ends : Has(q, x)' <=> Has(q, x)
  BY <1>2 DEF Has
<1>5. /\ \A q \in Procs : ~Has(q, e) /\ (closing[q] = e => q = p)
      /\ e \in open
  <2>1. \A q \in Procs : ~Has(q, e)
    BY <1>1, HeldEnd
  <2> QED  BY <1>1, <2>1 DEF PipeInv, FileShape, OpenWhileHeld
<1>6. /\ asleep' \in [Procs -> Ends \cup {NoEnd}]
      /\ \A q \in Procs :
           /\ asleep'[q] = NoEnd \/ asleep'[q] = asleep[q]
           /\ asleep'[q] = "read" => e # "write"
           /\ asleep'[q] = "write" => e # "read"
  BY <1>2 DEF Tells, Awake, PipeInv, PipeTypeOK
<1>7. freed' <=> open' = {}
  BY <1>2, Zenon DEF PageGoes, PipeInv, FileShape
<1>8. PipeTypeOK'
  <2>1. freed' \in BOOLEAN
    BY <1>2, Zenon DEF PageGoes
  <2>2. closing' \in [Procs -> Ends \cup {NoEnd}]
    BY <1>2 DEF PipeInv, PipeTypeOK
  <2> QED  BY <1>2, <1>6, <2>1, <2>2 DEF PipeInv, PipeTypeOK
<1>9. OpenWhileHeld'
  <2>1. \A x \in Ends : ref'[x] = Cardinality(Holding(x))'
    <3>1. \A x \in Ends : ref[x] = Cardinality(Holding(x))
      BY DEF PipeInv, OpenWhileHeld, Holding
    <3>2. \A x \in Ends : Holding(x)' = Holding(x)
      BY <1>2 DEF Holding
    <3> QED  BY <1>2, <3>1, <3>2, Zenon
  <2>2. ASSUME NEW x \in Ends
        PROVE  x \in open' <=> \E q \in Procs : Has(q, x)' \/ closing'[q] = x
    BY <1>1, <1>2, <1>3, <1>4, <1>5 DEF PipeInv, OpenWhileHeld
  <2> QED  BY <2>1, <2>2, CountsAgree
<1>10. FileShape'
  BY <1>2, <1>3, <1>4, <1>7 DEF PipeInv, FileShape
<1>11. BufferShape' /\ (Room' = Room) /\ (IsEmpty' <=> IsEmpty)
  BY <1>2, BufferAlone
<1>12. NoLostWakeup'
  BY <1>2, <1>6, <1>11 DEF PipeInv, NoLostWakeup
<1> QED  BY <1>2, <1>5, <1>8, <1>9, <1>10, <1>11, <1>12 DEF PipeInv

-----------------------------------------------------------------------------
(* The specification *)

LEMMA PipeStep == PipeInv /\ [PipeNext]_pipeVars => PipeInv'
<1> SUFFICES ASSUME PipeInv, [PipeNext]_pipeVars PROVE PipeInv'
  OBVIOUS
<1>1. ASSUME NEW p \in Procs, InCall(p) PROVE PipeInv'
  <2>1. ASSUME NEW e \in Ends, WriteFails(p) \/ ReadSleeps(p) \/ ReadFails(p) PROVE PipeInv'
    <3>1. 1 \in 1..MaxChunk
      BY PipeBoundsAssumption
    <3> QED  BY <2>1, <3>1, OutsideBuffer, Zenon
  <2>2. "read" \in Ends
    BY EndsAre
  <2> QED  BY <1>1, <2>1, <2>2, WriteStep, ReadReturnsStep, PipeCloseStep, Zenon DEF InCall
<1>2. ASSUME NEW p \in Procs, Exit(p) \/ Gone(p) \/ KillIt(p) PROVE PipeInv'
  <2>1. 1 \in 1..MaxChunk /\ "read" \in Ends
    BY PipeBoundsAssumption, EndsAre
  <2> QED  BY <1>2, <2>1, OutsideBuffer, Zenon
<1>3. ASSUME NEW p \in Procs, NEW e \in Ends, NEW n \in 1..MaxChunk, Enter(p, e, n)
      PROVE  PipeInv'
  BY <1>3, OutsideBuffer, Zenon
<1>4. ASSUME NEW p \in Procs, NEW d \in Fd, Dup(p, d) \/ CloseFd(p, d) PROVE PipeInv'
  BY <1>4, DupStep, CloseStep, Zenon
<1>5. ASSUME NEW p \in Procs, NEW q \in Procs, ForkFiles(p, q) PROVE PipeInv'
  BY <1>5, ForkStep
<1>6. ASSUME UNCHANGED pipeVars PROVE PipeInv'
  <2>1. /\ UNCHANGED <<fileVars, bufVars, procVars, sent, got>>
        /\ UNCHANGED <<nread, nwrite, data, sent, got>>
        /\ UNCHANGED <<fileVars, open, freed>> /\ at' = at
    BY <1>6 DEF pipeVars, bufVars, procVars
  <2>2. PipeTypeOK'
    BY <2>1 DEF PipeInv, PipeTypeOK, fileVars, bufVars, procVars
  <2>3. OpenWhileHeld' /\ FileShape'
    BY <2>1, FilesAlone
  <2>4. BufferShape' /\ NoLostWakeup'
    BY <2>1, DescriptorsOnly DEF procVars
  <2> QED  BY <2>2, <2>3, <2>4 DEF PipeInv
<1> QED  BY <1>1, <1>2, <1>3, <1>4, <1>5, <1>6, Zenon DEF PipeNext, AllGone

\* The state of the pipe, its files and its processes stays consistent.
LEMMA PipeIsConsistent == PipeSpec => []PipeInv
<1> QED  BY PipeInitInv, PipeStep, PTL DEF PipeSpec

\* Whoever sleeps in piperead or pipewrite has something to wait for and somebody who
\* can wake it: no interleaving of readers, writers, closes and kills loses a wakeup.
THEOREM WakeupsReach == PipeSpec => []NoLostWakeup
<1>1. PipeInv => NoLostWakeup
  BY DEF PipeInv
<1> QED  BY <1>1, PipeIsConsistent, PTL

\* However fork, dup, close and exit share an end, it closes with its last descriptor.
THEOREM EndsCloseLast == PipeSpec => []OpenWhileHeld
<1>1. PipeInv => OpenWhileHeld
  BY DEF PipeInv
<1> QED  BY <1>1, PipeIsConsistent, PTL

\* No process can reach the page of the pipe once kfree() has it.
THEOREM PageIsSafe == PipeSpec => []NoUseAfterFree
<1>1. PipeInv => NoUseAfterFree
  <2> SUFFICES ASSUME PipeInv, freed, NEW p \in Procs
               PROVE  /\ ~\E e \in Ends : Has(p, e)
                      /\ at[p] \notin Ends /\ closing[p] = NoEnd
    BY DEF NoUseAfterFree
  <2>1. open = {}
    BY DEF PipeInv, FileShape
  <2>2. \A e \in Ends : ~Has(p, e) /\ closing[p] # e
    BY <2>1 DEF PipeInv, OpenWhileHeld
  <2>3. closing[p] \in Ends \cup {NoEnd}
    BY DEF PipeInv, PipeTypeOK
  <2>4. at[p] \in Ends => Has(p, at[p])
    BY DEF PipeInv, FileShape
  <2> QED  BY <2>2, <2>3, <2>4
<1> QED  BY <1>1, PipeIsConsistent, PTL

\* Every call leaves the channel alone, puts bytes in, takes some out or closes an end.
LEMMA ChannelStep == PipeInv /\ [PipeNext]_pipeVars => [Chan!ChannelNext]_(Chan!channelVars)
<1> SUFFICES ASSUME PipeInv, [PipeNext]_pipeVars
             PROVE  Chan!ChannelNext \/ UNCHANGED <<sent, got, open>>
  BY DEF Chan!channelVars
<1>1. sent \in Nat /\ got = [i \in 1..Len(got) |-> i] /\ Len(got) \in Nat
  <2>1. sent \in Nat /\ got \in Seq(Nat)
    BY DEF PipeInv, PipeTypeOK
  <2> QED  BY <2>1 DEF PipeInv, BufferShape
<1>2. ASSUME NEW p \in Procs, WriteSleeps(p) \/ WriteReturns(p)
      PROVE  Chan!ChannelNext \/ UNCHANGED <<sent, got, open>>
  <2>1. PICK k \in 0..PIPESIZE : /\ sent' = sent + k /\ sent' <= Len(got) + PIPESIZE
                                 /\ got' = got /\ open' = open /\ "read" \in open
    BY <1>2, WriteStep
  <2>2. CASE k = 0
    BY <1>1, <2>1, <2>2
  <2>3. CASE k # 0
    <3>1. k \in 1..PIPESIZE
      BY <2>3, BufferConstants
    <3>2. Chan!Put(k)
      BY <2>1 DEF Chan!Put
    <3> QED  BY <3>1, <3>2 DEF Chan!ChannelNext
  <2> QED  BY <2>2, <2>3
<1>3. ASSUME NEW p \in Procs, ReadReturns(p)
      PROVE  Chan!ChannelNext \/ UNCHANGED <<sent, got, open>>
  <2>1. PICK k \in 0..PIPESIZE : /\ Len(got) + k <= sent /\ sent' = sent /\ open' = open
                                 /\ got' = [i \in 1..(Len(got) + k) |-> i]
    BY <1>3, ReadReturnsStep
  <2>2. CASE k = 0
    BY <1>1, <2>1, <2>2
  <2>3. CASE k # 0
    <3>1. k \in 1..PIPESIZE
      BY <2>3, BufferConstants
    <3>2. Chan!Deliver(k)
      BY <2>1 DEF Chan!Deliver
    <3> QED  BY <3>1, <3>2 DEF Chan!ChannelNext
  <2> QED  BY <2>2, <2>3
<1>4. ASSUME NEW p \in Procs, PipeClose(p) PROVE Chan!ChannelNext
  <2>1. PICK e \in open : open' = open \ {e} /\ sent' = sent /\ got' = got
    BY <1>4, PipeCloseStep
  <2>2. Chan!Close(e)
    BY <2>1 DEF Chan!Close
  <2> QED  BY <2>2 DEF Chan!ChannelNext
<1>5. ASSUME NEW p \in Procs, WriteFails(p) \/ ReadSleeps(p) \/ ReadFails(p)
                               \/ Exit(p) \/ Gone(p) \/ KillIt(p)
      PROVE  UNCHANGED <<sent, got, open>>
  BY <1>5 DEF WriteFails, ReadSleeps, ReadFails, Exit, Gone, KillIt, bufVars
<1>6. ASSUME NEW p \in Procs, NEW e \in Ends, NEW n \in 1..MaxChunk, NEW d \in Fd,
             NEW q \in Procs,
             Enter(p, e, n) \/ Dup(p, d) \/ CloseFd(p, d) \/ ForkFiles(p, q)
      PROVE  UNCHANGED <<sent, got, open>>
  BY <1>6 DEF Enter, Dup, CloseFd, ForkFiles, bufVars
<1>7. 1 \in 1..MaxChunk /\ 1 \in Fd /\ "read" \in Ends /\ First \in Procs
  BY PipeBoundsAssumption, FilesAssumption, FirstAssumption, EndsAre DEF Fd
<1>8. UNCHANGED pipeVars => UNCHANGED <<sent, got, open>>
  BY DEF pipeVars, bufVars
<1> QED  BY <1>2, <1>3, <1>4, <1>5, <1>6, <1>7, <1>8, Zenon DEF PipeNext, InCall, AllGone

\* For any buffer size and counters of any width, with every process killed, forked or
\* closing its ends when it likes and every copy cut short: a bounded channel, every byte
\* once and in order.
THEOREM PipeIsAChannel == PipeSpec => ImplementsChannel
<1>1. PipeInit => Chan!ChannelInit
  BY DEF PipeInit, Chan!ChannelInit, Ends
<1> QED  BY <1>1, PipeIsConsistent, ChannelStep, PTL
         DEF PipeSpec, ImplementsChannel, Chan!ChannelSpec

\* When read() returns 0 nothing is left to read and nobody can write any more.
THEOREM EndOfFileIsFinal == PipeSpec => EofIsFinal
<1>1. PipeInv /\ [PipeNext]_pipeVars =>
        [\A p \in Procs :
           at[p] = "read" /\ at'[p] # "read" /\ ~killed[p] /\ got' = got /\ IsEmpty =>
             Len(got) = sent /\ \A q \in Procs : ~Has(q, "write")]_pipeVars
  <2> SUFFICES ASSUME PipeInv, PipeNext, NEW p \in Procs,
                      at[p] = "read", at'[p] # "read", ~killed[p], IsEmpty
               PROVE  Len(got) = sent /\ \A q \in Procs : ~Has(q, "write")
    OBVIOUS
  <2> USE EndsAre
  <2>1. at \in [Procs -> {"unborn", "user", "exit", "gone"} \cup Ends]
    BY DEF PipeInv, PipeTypeOK
  <2>2. \A x, q : at' = [at EXCEPT ![q] = x] => q = p
    BY <2>1
  <2>3. \A q \in Procs : at' = Back(q) => q = p
    BY <2>2, BackIs, Zenon
  <2>4. ReadReturns(p)
    <3>1. ASSUME NEW q \in Procs, InCall(q) PROVE ReadReturns(p)
      <4>1. at' # at
        OBVIOUS
      <4>2. WriteFails(q) \/ WriteReturns(q) \/ ReadFails(q) \/ ReadReturns(q)
        BY <3>1, <4>1, Zenon DEF InCall, WriteSleeps, ReadSleeps, PipeClose
      <4>3. q = p
        BY <2>3, <4>2, Zenon DEF WriteFails, WriteReturns, ReadFails, ReadReturns
      <4>4. ~WriteFails(p) /\ ~WriteReturns(p) /\ ~ReadFails(p)
        BY DEF WriteFails, WriteReturns, Copies, Runs, ReadFails
      <4> QED  BY <4>2, <4>3, <4>4, Zenon
    <3>2. ASSUME NEW q \in Procs, Exit(q) \/ Gone(q) \/ KillIt(q) PROVE FALSE
      BY <2>2, <3>2 DEF Exit, Gone, KillIt
    <3>3. ASSUME NEW q \in Procs, NEW e \in Ends, NEW n \in 1..MaxChunk, Enter(q, e, n)
          PROVE  FALSE
      BY <2>2, <3>3 DEF Enter, Calls
    <3>4. ASSUME NEW q \in Procs, NEW d \in Fd, Dup(q, d) \/ CloseFd(q, d) PROVE FALSE
      BY <3>4 DEF Dup, CloseFd, procVars
    <3>5. ASSUME NEW q \in Procs, NEW r \in Procs, ForkFiles(q, r) PROVE FALSE
      BY <2>2, <3>5 DEF ForkFiles
    <3>6. ~AllGone
      BY DEF AllGone, pipeVars, procVars
    <3> QED  BY <3>1, <3>2, <3>3, <3>4, <3>5, <3>6, Zenon DEF PipeNext
  <2>5. "write" \notin open
    BY <2>4 DEF ReadReturns, Waits, Runs
  <2>6. sent = Len(got)
    BY CountersAlwaysRead DEF PipeInv, CountersSeen
  <2> QED  BY <2>5, <2>6 DEF PipeInv, OpenWhileHeld
<1> QED  BY <1>1, PipeIsConsistent, PTL DEF PipeSpec, EofIsFinal
=============================================================================
