-------------------------- MODULE LocEngConfigProofs --------------------------
(***************************************************************************)
(* Theorems about LocEngConfig, for any settings, servers and locks, and   *)
(* any number of calls and restarts: what is set reaches the modem, the    *)
(* lock follows the use of the GPS, and no capability is told that the     *)
(* modem does not have.                                                    *)
(***************************************************************************)
EXTENDS LocEngConfig, FiniteSetTheorems, TLAPS

-----------------------------------------------------------------------------
(* Words about a queue of messages and about a job. *)

\* What a message of a setting may carry.
Values == Versions \cup BOOLEAN \cup Hosts \cup Locks \cup {0, None}

\* The messages, and the items of a job.
Msgs == (Settings \cup Orders) \X Values
Items == Settings \cup Orders

\* A message of that name waits.
Has(q, s) == \E i \in DOMAIN q : q[i][1] = s

\* Every a has a b behind it, or one before it.
Followed(q, a, b) ==
  \A i \in DOMAIN q : q[i][1] = a => \E j \in DOMAIN q : j > i /\ q[j][1] = b
Preceded(q, a, b) ==
  \A i \in DOMAIN q : q[i][1] = b => \E j \in DOMAIN q : j < i /\ q[j][1] = a

\* A message of that name is the first.
OnlyFirst(q, s) == \A i \in DOMAIN q : q[i][1] = s => i = 1

\* The last message of s says v, or the modem m does where none waits.
Ends(q, m, s, v) ==
  /\ \A i \in DOMAIN q :
       q[i][1] = s /\ (\A j \in DOMAIN q : j > i => q[j][1] # s) => q[i][2] = v
  /\ (\A i \in DOMAIN q : q[i][1] # s) => m[s] = v

\* An item of a job.
In(x, j) == \E i \in DOMAIN j : j[i] = x

-----------------------------------------------------------------------------
(* The inductive invariant. *)

\* Types of what the runs look at only from outside.
ConfigTypes ==
  /\ ConfigTypeOK
  /\ queue \in Seq(Msgs) /\ job \in Seq(Items)
  /\ update = Idle \/ (update.at \in {"written", "posted"} /\ update.saved \in Confs)
  /\ held # None => /\ job # <<>> /\ Head(job) \in Settings /\ held[1] = Head(job)
                    /\ held = Set(held[1], held[2]) /\ held[2] \in Values
  /\ disturbed \in BOOLEAN /\ crashes \in Nat

\* Without an engine nothing is under way, and the modem is as it was.  While
\* loc_init() runs there is one, and no update.
NothingBefore ==
  /\ ~adapter =>
       /\ queue = <<>> /\ job = <<>> /\ held = None
       /\ modem = Booted(0) /\ up /\ ~linked /\ crashes = 0
       /\ told = None /\ nifs = {} /\ ~agps /\ ~starting
  /\ starting => update = Idle

\* A handle that is not valid will be negotiated: by the first message, or by the
\* news of a restart, which a reinit follows.
LinkFits ==
  /\ linked => up
  /\ adapter /\ up /\ ~linked => (queue # <<>> /\ queue[1][1] = "open") \/ Has(queue, "ssr")
  /\ OnlyFirst(queue, "open")
  /\ Followed(queue, "ssr", "up")
  /\ ~up \/ Has(queue, "up") \/ In("agps", job) => crashes > 0

\* The servers are the last that a reinit thinks of.
JobFits == \A i \in DOMAIN job : job[i] = "agps" => i = Len(job)

\* A server that has never been set is nowhere.
NeverSet ==
  adapter => \A t \in Types : servers[t] = None =>
    ~Has(queue, t) /\ modem[t] = None /\ (held = None \/ held[1] # t)

\* An update has changed s and not posted it yet.
Written(s) ==
  s \in Params /\ update.at = "written" /\ update.saved.params[s] # conf.params[s]

\* The modem has a setting, or it is on its way, or will be: with a reinit that is
\* due or under way, or with an update.
SettingFits(s) ==
  \/ ~up \/ Has(queue, "up")
  \/ s \notin Types /\ Has(queue, "init")
  \/ In(s, job)
  \/ s \in Types /\ In("agps", job)
  \/ Written(s)
  \/ Ends(queue, modem, s, Current(s))

SettingsFit ==
  adapter => \A s \in passed : (s \in Types => agps \/ crashes = 0) => SettingFits(s)

\* Whatever locks the modem at the start, a message of the right lock is behind it
\* once loc_init() is over.
LockFits ==
  adapter /\ ~starting /\ crashes = 0 =>
    /\ In("unlock", job) => Has(queue, "lock")
    /\ Followed(queue, "init", "lock")
    /\ update.at = "written"
         \/ Ends(queue, modem, "lock", IF vote THEN 0 ELSE conf.lock)

\* The capabilities without what an update writes for a moment.
TrueCaps == IF update = Idle THEN conf.caps ELSE update.saved.caps
Carrier(m, caps) == caps \ (IF m = 1 THEN {} ELSE {"MSB"})
Known(m, caps) == {Carrier(m, caps), Carrier(m, caps) \ {"MEASUREMENTS"}}
Asked == ("MEASUREMENTS" \in TrueCaps) = Measures

CapsFit ==
  ~disturbed =>
    /\ ("MSB" \in TrueCaps) = Capable
    /\ "MEASUREMENTS" \in TrueCaps => Measures
    /\ adapter /\ crashes = 0 /\ ~Asked =>
         /\ Preceded(queue, "gnss", "caps")
         /\ In("caps", job) => Has(queue, "gnss") \/ job[1] = "gnss"
    /\ told # None /\ crashes = 0 => (("MEASUREMENTS" \in told) = Measures)
    /\ told # None => (("MSB" \in told) = Capable)
    /\ adapter /\ ~starting =>
         \/ ulp \in Known(conf.mode, TrueCaps)
         \/ Has(queue, "mode")
         \/ update.at = "written" /\ update.saved.mode # conf.mode
    /\ nifs # {} => (("agnss" \in nifs) = Capable)

ConfigIInv ==
  /\ ConfigTypes /\ NothingBefore /\ LinkFits /\ JobFits /\ NeverSet /\ SettingsFit
  /\ LockFits /\ CapsFit

-----------------------------------------------------------------------------
(* Lemmas about sequences. *)

\* A set in some order: every element is there, and nothing else.
LEMMA SetInOrder ==
  ASSUME NEW S, IsFiniteSet(S)
  PROVE  /\ SetToSeq(S) \in Seq(S)
         /\ \A x \in S : In(x, SetToSeq(S))
         /\ \A i \in DOMAIN SetToSeq(S) : SetToSeq(S)[i] \in S
<1> DEFINE n == Cardinality(S)
<1>1. n \in Nat /\ ExistsBijection(1..n, S)
  BY FS_CardinalityType
<1>2. PICK g \in Bijection(1..n, S) : TRUE
  BY <1>1 DEF ExistsBijection
<1>3. g \in [1..n -> S] /\ IsInjective(g)
  BY <1>2 DEF Bijection, Injection
<1>4. SetToSeq(S) \in [1..n -> S] /\ IsInjective(SetToSeq(S))
  BY <1>3 DEF SetToSeq
<1> DEFINE f == SetToSeq(S)
<1> HIDE DEF f
<1>5. f \in Injection(1..n, S)
  BY <1>4 DEF f, Injection
<1>6. IsFiniteSet(1..n) /\ Cardinality(1..n) = n
  BY <1>1, FS_Interval
<1>7. f \in Surjection(1..n, S)
  BY <1>5, <1>6, FS_Injection
<1>8. f \in [1..n -> S] /\ \A x \in S : \E i \in 1..n : f[i] = x
  BY <1>7 DEF Surjection
<1>9. f \in Seq(S) /\ DOMAIN f = 1..n
  BY <1>1, <1>8
<1> QED
  BY <1>8, <1>9 DEF f, In

\* A message or an item more, behind the others.
LEMMA InConcat ==
  ASSUME NEW S, NEW a \in Seq(S), NEW b \in Seq(S)
  PROVE  /\ a \o b \in Seq(S)
         /\ \A x : In(x, a \o b) <=> In(x, a) \/ In(x, b)
<1> DEFINE c == a \o b
<1>1. /\ c \in Seq(S) /\ Len(a) \in Nat /\ Len(b) \in Nat
      /\ DOMAIN a = 1..Len(a) /\ DOMAIN b = 1..Len(b) /\ DOMAIN c = 1..(Len(a) + Len(b))
      /\ \A i \in DOMAIN a : i \in DOMAIN c /\ c[i] = a[i]
      /\ \A i \in DOMAIN b : i + Len(a) \in DOMAIN c /\ c[i + Len(a)] = b[i]
      /\ \A i \in DOMAIN c : ~(i \in DOMAIN a) => i - Len(a) \in DOMAIN b /\ c[i] = b[i - Len(a)]
  OBVIOUS
<1> HIDE DEF c
<1>2. ASSUME NEW x, In(x, c) PROVE In(x, a) \/ In(x, b)
  BY <1>1, <1>2, Zenon DEF In
<1>3. ASSUME NEW x, In(x, a) \/ In(x, b) PROVE In(x, c)
  BY <1>1, <1>3, Zenon DEF In
<1> QED
  BY <1>1, <1>2, <1>3 DEF c

\* What is posted comes behind what waits.
LEMMA Posted ==
  ASSUME NEW q \in Seq(Msgs), NEW m \in Seq(Msgs), NEW r, r = q \o m
  PROVE  /\ r \in Seq(Msgs)
         /\ \A s : Has(r, s) <=> Has(q, s) \/ Has(m, s)
         /\ q # <<>> => r # <<>> /\ r[1] = q[1]
         /\ \A a, b : Followed(q, a, b) /\ Followed(m, a, b) => Followed(r, a, b)
         /\ \A a, b : Preceded(q, a, b) /\ (Has(q, a) \/ ~Has(m, b)) => Preceded(r, a, b)
         /\ \A d, s, v : Ends(q, d, s, v) /\ ~Has(m, s) => Ends(r, d, s, v)
         /\ \A d, s, v : Has(m, s) /\ (\A i \in DOMAIN m : m[i][1] = s => m[i][2] = v)
                           => Ends(r, d, s, v)
         /\ \A s : OnlyFirst(q, s) /\ ~Has(m, s) => OnlyFirst(r, s)
<1> DEFINE n == Len(q)
<1>1. /\ r \in Seq(Msgs) /\ n \in Nat /\ Len(m) \in Nat
      /\ DOMAIN q = 1..n /\ DOMAIN m = 1..Len(m) /\ DOMAIN r = 1..(n + Len(m))
      /\ \A i \in DOMAIN q : i \in DOMAIN r /\ r[i] = q[i]
      /\ \A i \in DOMAIN m : i + n \in DOMAIN r /\ r[i + n] = m[i]
      /\ \A i \in DOMAIN r : ~(i \in DOMAIN q) => i - n \in DOMAIN m /\ r[i] = m[i - n]
  OBVIOUS
<1> HIDE DEF n
<1>2. /\ \A i \in DOMAIN m : \A j \in DOMAIN q : i + n > j
      /\ \A i, j \in DOMAIN m : i > j => i + n > j + n
      /\ \A i \in DOMAIN r : \A j \in DOMAIN q : ~(i \in DOMAIN q) => j < i
      /\ \A i \in DOMAIN r : \A j \in DOMAIN m : j > i - n => j + n > i
  BY <1>1
<1>3. \A s : Has(r, s) <=> Has(q, s) \/ Has(m, s)
  <2>1. ASSUME NEW s, Has(r, s) PROVE Has(q, s) \/ Has(m, s)
    <3>1. PICK i \in DOMAIN r : r[i][1] = s
      BY <2>1 DEF Has
    <3>2. CASE i \in DOMAIN q
      BY <1>1, <3>1, <3>2 DEF Has
    <3>3. CASE ~(i \in DOMAIN q)
      <4>1. i - n \in DOMAIN m /\ m[i - n][1] = s
        BY <1>1, <3>1, <3>3
      <4> QED
        BY <4>1 DEF Has
    <3> QED
      BY <3>2, <3>3
  <2>2. ASSUME NEW s, Has(q, s) PROVE Has(r, s)
    BY <1>1, <2>2 DEF Has
  <2>3. ASSUME NEW s, Has(m, s) PROVE Has(r, s)
    <3>1. PICK i \in DOMAIN m : m[i][1] = s
      BY <2>3 DEF Has
    <3>2. i + n \in DOMAIN r /\ r[i + n][1] = s
      BY <1>1, <3>1
    <3> QED
      BY <3>2 DEF Has
  <2> QED
    BY <2>1, <2>2, <2>3
<1>4. q # <<>> => r # <<>> /\ r[1] = q[1]
  <2> SUFFICES ASSUME q # <<>> PROVE r # <<>> /\ r[1] = q[1]
    OBVIOUS
  <2>1. 1 \in DOMAIN q
    BY <1>1
  <2>2. 1 \in DOMAIN r /\ r[1] = q[1]
    BY <1>1, <2>1
  <2> QED
    BY <2>2
<1>5. ASSUME NEW a, NEW b, Followed(q, a, b), Followed(m, a, b) PROVE Followed(r, a, b)
  <2> SUFFICES ASSUME NEW i \in DOMAIN r, r[i][1] = a
      PROVE  \E j \in DOMAIN r : j > i /\ r[j][1] = b
    BY DEF Followed
  <2>1. CASE i \in DOMAIN q
    <3>1. PICK j \in DOMAIN q : j > i /\ q[j][1] = b
      BY <1>1, <1>5, <2>1 DEF Followed
    <3> QED
      BY <1>1, <3>1
  <2>2. CASE ~(i \in DOMAIN q)
    <3>0. i - n \in DOMAIN m /\ m[i - n][1] = a
      BY <1>1, <2>2
    <3>1. PICK j \in DOMAIN m : j > i - n /\ m[j][1] = b
      BY <1>5, <3>0 DEF Followed
    <3>2. j + n > i /\ j + n \in DOMAIN r /\ r[j + n][1] = b
      BY <1>1, <1>2, <3>1
    <3> QED
      BY <3>2
  <2> QED
    BY <2>1, <2>2
<1>6. ASSUME NEW a, NEW b, Preceded(q, a, b), Has(q, a) \/ ~Has(m, b)
      PROVE  Preceded(r, a, b)
  <2> SUFFICES ASSUME NEW i \in DOMAIN r, r[i][1] = b
      PROVE  \E j \in DOMAIN r : j < i /\ r[j][1] = a
    BY DEF Preceded
  <2>1. CASE i \in DOMAIN q
    <3>1. PICK j \in DOMAIN q : j < i /\ q[j][1] = a
      BY <1>1, <1>6, <2>1 DEF Preceded
    <3> QED
      BY <1>1, <3>1
  <2>2. CASE ~(i \in DOMAIN q)
    <3>0. i - n \in DOMAIN m /\ m[i - n][1] = b
      BY <1>1, <2>2
    <3>1. Has(m, b)
      BY <3>0 DEF Has
    <3>2. PICK j \in DOMAIN q : q[j][1] = a
      BY <1>6, <3>1, Zenon DEF Has
    <3> QED
      BY <1>1, <1>2, <2>2, <3>2, Zenon
  <2> QED
    BY <2>1, <2>2
<1>7. ASSUME NEW d, NEW s, NEW v, Ends(q, d, s, v), ~Has(m, s) PROVE Ends(r, d, s, v)
  <2>1. ASSUME NEW i \in DOMAIN r, r[i][1] = s, \A j \in DOMAIN r : j > i => r[j][1] # s
        PROVE  r[i][2] = v
    <3>1. i \in DOMAIN q /\ q[i] = r[i]
      BY <1>1, <1>7, <2>1, Zenon DEF Has
    <3>2. \A j \in DOMAIN q : j > i => q[j][1] # s
      BY <1>1, <2>1, Zenon
    <3> QED
      BY <1>7, <2>1, <3>1, <3>2, Zenon DEF Ends
  <2>2. ASSUME \A i \in DOMAIN r : r[i][1] # s PROVE d[s] = v
    BY <1>1, <1>7, <2>2, Zenon DEF Ends
  <2> QED
    BY <2>1, <2>2, Zenon DEF Ends
<1>8. ASSUME NEW d, NEW s, NEW v, Has(m, s), \A i \in DOMAIN m : m[i][1] = s => m[i][2] = v
      PROVE  Ends(r, d, s, v)
  <2>1. PICK k \in DOMAIN m : m[k][1] = s
    BY <1>8 DEF Has
  <2>2. k + n \in DOMAIN r /\ r[k + n][1] = s
    BY <1>1, <2>1
  <2>3. ASSUME NEW i \in DOMAIN r, r[i][1] = s, \A j \in DOMAIN r : j > i => r[j][1] # s
        PROVE  r[i][2] = v
    <3>1. ~(i \in DOMAIN q)
      BY <1>2, <2>1, <2>2, <2>3
    <3>2. i - n \in DOMAIN m /\ m[i - n] = r[i]
      BY <1>1, <3>1
    <3> QED
      BY <1>8, <2>3, <3>2
  <2> QED
    BY <2>2, <2>3, Zenon DEF Ends
<1>9. ASSUME NEW s, OnlyFirst(q, s), ~Has(m, s) PROVE OnlyFirst(r, s)
  <2>1. ASSUME NEW i \in DOMAIN r, r[i][1] = s PROVE i \in DOMAIN q
    <3>1. CASE ~(i \in DOMAIN q)
      <4>1. i - n \in DOMAIN m /\ m[i - n][1] = s
        BY <1>1, <2>1, <3>1
      <4> QED
        BY <1>9, <4>1 DEF Has
    <3> QED
      BY <3>1
  <2> QED
    BY <1>1, <1>9, <2>1 DEF OnlyFirst
<1> QED
  BY <1>1, <1>3, <1>4, <1>5, <1>6, <1>7, <1>8, <1>9

\* What is taken was before all the others.
LEMMA Taken ==
  ASSUME NEW q \in Seq(Msgs), q # <<>>, NEW r, r = Tail(q), NEW h, h = Head(q)
  PROVE  /\ r \in Seq(Msgs) /\ h \in Msgs /\ q[1] = h
         /\ \A s : Has(q, s) <=> h[1] = s \/ Has(r, s)
         /\ \A a, b : Followed(q, a, b) => Followed(r, a, b) /\ (h[1] = a => Has(r, b))
         /\ \A a, b : Preceded(q, a, b) => h[1] # b /\ (h[1] = a \/ Preceded(r, a, b))
         /\ \A d, e, s, v : Ends(q, d, s, v) /\ e[s] = (IF h[1] = s THEN h[2] ELSE d[s])
                              => Ends(r, e, s, v)
         /\ \A s : OnlyFirst(q, s) => ~Has(r, s)
<1>1. /\ r \in Seq(Msgs) /\ Len(q) \in Nat \ {0} /\ h \in Msgs
      /\ DOMAIN q = 1..Len(q) /\ DOMAIN r = 1..(Len(q) - 1)
      /\ 1 \in DOMAIN q /\ q[1] = h
      /\ \A i \in DOMAIN r : i + 1 \in DOMAIN q /\ r[i] = q[i + 1] /\ i + 1 # 1 /\ i + 1 > 1
      /\ \A i \in DOMAIN q : i # 1 => i - 1 \in DOMAIN r /\ q[i] = r[i - 1]
      /\ \A i \in DOMAIN q : ~(i < 1)
  OBVIOUS
<1>2. /\ \A i \in DOMAIN r : \A j \in DOMAIN q : j > i + 1 => j # 1 /\ j - 1 > i
      /\ \A i \in DOMAIN r : \A j \in DOMAIN q : j < i + 1 /\ j # 1 => j - 1 < i
      /\ \A i \in DOMAIN q : i > 1 => i # 1
  BY <1>1
<1>3. \A s : Has(q, s) <=> h[1] = s \/ Has(r, s)
  BY <1>1, Zenon DEF Has
<1>4. ASSUME NEW a, NEW b, Followed(q, a, b)
      PROVE  Followed(r, a, b) /\ (h[1] = a => Has(r, b))
  <2>1. Followed(r, a, b)
    <3> SUFFICES ASSUME NEW i \in DOMAIN r, r[i][1] = a
        PROVE  \E j \in DOMAIN r : j > i /\ r[j][1] = b
      BY DEF Followed
    <3>1. PICK j \in DOMAIN q : j > i + 1 /\ q[j][1] = b
      BY <1>1, <1>4, Zenon DEF Followed
    <3> QED
      BY <1>1, <1>2, <3>1, Zenon
  <2>2. ASSUME h[1] = a PROVE Has(r, b)
    <3>1. PICK j \in DOMAIN q : j > 1 /\ q[j][1] = b
      BY <1>1, <1>4, <2>2, Zenon DEF Followed
    <3> QED
      BY <1>1, <1>2, <3>1, Zenon DEF Has
  <2> QED
    BY <2>1, <2>2
<1>5. ASSUME NEW a, NEW b, Preceded(q, a, b)
      PROVE  h[1] # b /\ (h[1] = a \/ Preceded(r, a, b))
  <2>1. h[1] # b
    BY <1>1, <1>5, Zenon DEF Preceded
  <2>2. ASSUME h[1] # a PROVE Preceded(r, a, b)
    <3> SUFFICES ASSUME NEW i \in DOMAIN r, r[i][1] = b
        PROVE  \E j \in DOMAIN r : j < i /\ r[j][1] = a
      BY DEF Preceded
    <3>1. PICK j \in DOMAIN q : j < i + 1 /\ q[j][1] = a
      BY <1>1, <1>5, Zenon DEF Preceded
    <3>2. j # 1
      BY <1>1, <2>2, <3>1, Zenon
    <3> QED
      BY <1>1, <1>2, <3>1, <3>2, Zenon
  <2> QED
    BY <2>1, <2>2
<1>6. ASSUME NEW d, NEW e, NEW s, NEW v,
             Ends(q, d, s, v), e[s] = (IF h[1] = s THEN h[2] ELSE d[s])
      PROVE  Ends(r, e, s, v)
  <2>1. ASSUME NEW i \in DOMAIN r, r[i][1] = s, \A j \in DOMAIN r : j > i => r[j][1] # s
        PROVE  r[i][2] = v
    <3>1. \A j \in DOMAIN q : j > i + 1 => q[j][1] # s
      BY <1>1, <1>2, <2>1, Zenon
    <3> QED
      BY <1>1, <1>6, <2>1, <3>1, Zenon DEF Ends
  <2>2. ASSUME \A i \in DOMAIN r : r[i][1] # s PROVE e[s] = v
    <3>1. CASE h[1] = s
      <4>1. \A j \in DOMAIN q : j > 1 => q[j][1] # s
        BY <1>1, <1>2, <2>2, Zenon
      <4>2. q[1][1] = s => q[1][2] = v
        BY <1>1, <1>6, <4>1 DEF Ends
      <4>3. h[2] = v
        BY <1>1, <3>1, <4>2
      <4> QED
        BY <1>6, <3>1, <4>3
    <3>2. CASE h[1] # s
      <4>1. \A j \in DOMAIN q : q[j][1] # s
        BY <1>1, <2>2, <3>2, Zenon
      <4>2. d[s] = v
        BY <1>6, <4>1, Zenon DEF Ends
      <4> QED
        BY <1>6, <3>2, <4>2
    <3> QED
      BY <3>1, <3>2
  <2> QED
    BY <2>1, <2>2, Zenon DEF Ends
<1>7. ASSUME NEW s, OnlyFirst(q, s) PROVE ~Has(r, s)
  BY <1>1, <1>7, Zenon DEF Has, OnlyFirst
<1> QED
  BY <1>1, <1>3, <1>4, <1>5, <1>6, <1>7

\* Going on with a job leaves the rest of it.
LEMMA GoneOn ==
  ASSUME NEW S, NEW j \in Seq(S), j # <<>>
  PROVE  /\ Tail(j) \in Seq(S) /\ Head(j) \in S /\ Head(j) = j[1]
         /\ \A x : In(x, j) <=> Head(j) = x \/ In(x, Tail(j))
         /\ (\A i \in DOMAIN j : j[i] = "agps" => i = Len(j))
              => /\ \A i \in DOMAIN Tail(j) : Tail(j)[i] = "agps" => i = Len(Tail(j))
                 /\ Head(j) = "agps" => Tail(j) = <<>>
<1> DEFINE r == Tail(j)
<1>1. /\ r \in Seq(S) /\ Len(j) \in Nat \ {0} /\ Len(r) = Len(j) - 1
      /\ DOMAIN j = 1..Len(j) /\ DOMAIN r = 1..(Len(j) - 1)
      /\ 1 \in DOMAIN j /\ j[1] = Head(j) /\ Head(j) \in S
      /\ \A i \in DOMAIN r : i + 1 \in DOMAIN j /\ r[i] = j[i + 1]
      /\ \A i \in DOMAIN j : i # 1 => i - 1 \in DOMAIN r /\ j[i] = r[i - 1]
  OBVIOUS
<1>2. Len(j) = 1 => r = <<>>
  BY <1>1
<1> HIDE DEF r
<1>3. \A x : In(x, j) <=> Head(j) = x \/ In(x, r)
  BY <1>1, Zenon DEF In
<1>4. ASSUME \A i \in DOMAIN j : j[i] = "agps" => i = Len(j)
      PROVE  /\ \A i \in DOMAIN r : r[i] = "agps" => i = Len(r)
             /\ Head(j) = "agps" => r = <<>>
  <2>1. \A i \in DOMAIN r : r[i] = "agps" => i = Len(r)
    BY <1>1, <1>4
  <2>2. Head(j) = "agps" => r = <<>>
    BY <1>1, <1>2, <1>4
  <2> QED
    BY <2>1, <2>2
<1> QED
  BY <1>1, <1>3, <1>4 DEF r

-----------------------------------------------------------------------------
(* What the LocEng thread goes on to do. *)

\* The names of settings are no names of other messages.
LEMMA Names ==
  /\ \A s \in Params \cup Types : s \notin Orders
  /\ \A s \in Types : s \notin Params
  /\ "data" \in Settings /\ \A s \in Settings : s \in Params \cup Types \/ s = "data"
  /\ Params \subseteq Settings /\ Types \subseteq Settings
  /\ \A s \in Settings : s \notin Orders \ {"data"}
BY ConfigAssumption DEF Settings

\* An item of a tuple.
LEMMA InPair ==
  /\ \A a, x : In(x, <<a>>) <=> x = a
  /\ \A a, b, x : In(x, <<a, b>>) <=> x \in {a, b}
<1>1. ASSUME NEW a, NEW x PROVE In(x, <<a>>) <=> x = a
  <2>1. DOMAIN <<a>> = {1} /\ <<a>>[1] = a
    OBVIOUS
  <2> QED
    BY <2>1 DEF In
<1>2. ASSUME NEW a, NEW b, NEW x PROVE In(x, <<a, b>>) <=> x \in {a, b}
  <2>1. DOMAIN <<a, b>> = {1, 2} /\ <<a, b>>[1] = a /\ <<a, b>>[2] = b
    OBVIOUS
  <2> QED
    BY <2>1 DEF In
<1> QED
  BY <1>1, <1>2

\* A reinit thinks of every parameter and of the network.
LEMMA Reinit ==
  /\ ReinitItems \in Seq(Items) /\ ReinitItems # <<>> /\ ReinitItems[1] = "gnss"
  /\ \A x : In(x, ReinitItems) => x \in Params \cup {"gnss", "data"}
  /\ \A x \in Params \cup {"data"} : In(x, ReinitItems)
<1> DEFINE p == SetToSeq(Params)
<1>1. /\ p \in Seq(Items) /\ \A x \in Params : In(x, p)
      /\ \A i \in DOMAIN p : p[i] \in Params
  <2>1. /\ p \in Seq(Params) /\ \A x \in Params : In(x, p)
        /\ \A i \in DOMAIN p : p[i] \in Params
    BY SetInOrder, ConfigAssumption
  <2> HIDE DEF p
  <2>2. p \in Seq(Items)
    BY <2>1 DEF Items, Settings
  <2> QED
    BY <2>1, <2>2
<1> HIDE DEF p
<1>2. <<"gnss">> \in Seq(Items) /\ <<"data">> \in Seq(Items)
  BY DEF Items, Orders
<1>3. <<"gnss">> \o p \in Seq(Items) /\ (<<"gnss">> \o p) \o <<"data">> \in Seq(Items)
  BY <1>1, <1>2, InConcat
<1>4. ReinitItems = (<<"gnss">> \o p) \o <<"data">>
  BY DEF ReinitItems, p
<1>5. \A x : In(x, ReinitItems) <=> x = "gnss" \/ In(x, p) \/ x \in {"data"}
  <2>1. \A x : In(x, <<"gnss">> \o p) <=> In(x, <<"gnss">>) \/ In(x, p)
    BY <1>1, <1>2, InConcat
  <2>2. \A x : In(x, (<<"gnss">> \o p) \o <<"data">>)
               <=> In(x, <<"gnss">> \o p) \/ In(x, <<"data">>)
    BY <1>2, <1>3, InConcat
  <2> QED
    BY <1>4, <2>1, <2>2, InPair, Zenon
<1>6. ReinitItems # <<>> /\ ReinitItems[1] = "gnss"
  BY <1>1, <1>2, <1>3, <1>4
<1>7. \A x : In(x, p) => x \in Params
  BY <1>1 DEF In
<1> QED
  BY <1>1, <1>3, <1>4, <1>5, <1>6, <1>7

\* What a message starts: the init and the news of a restart a reinit, the rest
\* nothing.
LEMMA Jobs ==
  /\ \A m : StartJob(m) \in Seq(Items)
  /\ \A m : m \notin {"init", "up"} => StartJob(m) = <<>>
  /\ \A s \in Params \cup {"data"} : In(s, StartJob("init")) /\ In(s, StartJob("up"))
  /\ StartJob("init")[1] = "gnss" /\ ~In("agps", StartJob("init"))
  /\ In("agps", StartJob("up"))
  /\ ~In("unlock", StartJob("up")) /\ ~In("caps", StartJob("up"))
  /\ \A i \in DOMAIN StartJob("up") : StartJob("up")[i] = "agps" => i = Len(StartJob("up"))
<1>1. /\ StartJob("init") = ReinitItems \o <<"unlock", "caps">>
      /\ StartJob("up") = ReinitItems \o <<"agps">>
      /\ \A m : m \notin {"init", "up"} => StartJob(m) = <<>>
  <2>1. StartJob("init") = ReinitItems \o <<"unlock", "caps">>
    BY Zenon DEF StartJob
  <2>2. StartJob("up") = ReinitItems \o <<"agps">>
    BY Zenon, "up" # "init" DEF StartJob
  <2>3. ASSUME NEW m, m \notin {"init", "up"} PROVE StartJob(m) = <<>>
    BY Zenon, <2>3 DEF StartJob
  <2> QED
    BY <2>1, <2>2, <2>3
<1>2. <<"unlock", "caps">> \in Seq(Items) /\ <<"agps">> \in Seq(Items)
  BY DEF Items, Orders
<1>r. PICK r : r = ReinitItems
  OBVIOUS
<1>q. r \in Seq(Items) /\ r # <<>> /\ r[1] = "gnss"
  BY <1>r, Reinit
<1>3. StartJob("init") \in Seq(Items) /\ StartJob("up") \in Seq(Items)
  BY <1>1, <1>2, <1>r, <1>q, InConcat
<1>r2. StartJob("init") = r \o <<"unlock", "caps">> /\ StartJob("up") = r \o <<"agps">>
  BY <1>1, <1>r
<1>4. /\ \A x : In(x, StartJob("init")) <=> In(x, ReinitItems) \/ x \in {"unlock", "caps"}
      /\ \A x : In(x, StartJob("up")) <=> In(x, ReinitItems) \/ x = "agps"
  <2>1. \A x : In(x, r \o <<"unlock", "caps">>) <=> In(x, r) \/ In(x, <<"unlock", "caps">>)
    BY <1>2, <1>q, InConcat
  <2>2. \A x : In(x, r \o <<"agps">>) <=> In(x, r) \/ In(x, <<"agps">>)
    BY <1>2, <1>q, InConcat
  <2>3. ASSUME NEW x
        PROVE  /\ In(x, r \o <<"unlock", "caps">>) <=> In(x, r) \/ x \in {"unlock", "caps"}
               /\ In(x, r \o <<"agps">>) <=> In(x, r) \/ x = "agps"
    <3>1. In(x, <<"unlock", "caps">>) <=> x \in {"unlock", "caps"}
      BY InPair
    <3>2. In(x, <<"agps">>) <=> x = "agps"
      BY InPair
    <3> QED
      BY <2>1, <2>2, <3>1, <3>2, Zenon
  <2> QED
    BY <1>r, <1>r2, <2>3
<1>5. ~In("agps", ReinitItems) /\ ~In("unlock", ReinitItems) /\ ~In("caps", ReinitItems)
  BY Reinit, Names DEF Orders
<1>6. StartJob("init")[1] = "gnss"
  <2>1. (r \o <<"unlock", "caps">>)[1] = r[1]
    BY <1>2, <1>q
  <2> QED
    BY <1>q, <1>r2, <2>1
<1>7. \A i \in DOMAIN StartJob("up") : StartJob("up")[i] = "agps" => i = Len(StartJob("up"))
  <2>2. r \in Seq(Items) /\ \A i \in DOMAIN r : r[i] # "agps"
    BY <1>5, <1>r, <1>q DEF In
  <2>3. StartJob("up") = r \o <<"agps">>
    BY <1>1, <1>r
  <2> QED
    BY <2>2, <2>3
<1>8. \A m : StartJob(m) \in Seq(Items)
  <2>1. <<>> \in Seq(Items)
    OBVIOUS
  <2> QED
    BY <1>1, <1>3, <2>1, Zenon
<1> QED
  BY <1>1, <1>4, <1>5, <1>6, <1>7, <1>8, Reinit

\* The messages that carry the settings of a set.
LEMMA SetsPosted ==
  ASSUME NEW S, IsFiniteSet(S), S \subseteq Settings, NEW f, \A t \in S : f[t] \in Values,
         NEW q, q = SetToSeq({Set(t, f[t]) : t \in S})
  PROVE  /\ q \in Seq(Msgs)
         /\ \A s : Has(q, s) <=> s \in S
         /\ \A i \in DOMAIN q : q[i][2] = f[q[i][1]]
<1> DEFINE M == {Set(t, f[t]) : t \in S}
<1>1. IsFiniteSet(M)
  <2> DEFINE g == [t \in S |-> Set(t, f[t])]
  <2>1. g \in Surjection(S, M)
    BY DEF Surjection
  <2> QED
    BY <2>1, FS_Surjection
<1>2. \A m \in M : m \in Msgs /\ m[1] \in S /\ m[2] = f[m[1]]
  BY DEF Set, Msgs
<1>3. \A t \in S : Set(t, f[t]) \in M /\ Set(t, f[t])[1] = t
  BY DEF Set
<1> HIDE DEF M
<1>4. /\ SetToSeq(M) \in Seq(M)
      /\ \A x \in M : In(x, SetToSeq(M))
      /\ \A i \in DOMAIN SetToSeq(M) : SetToSeq(M)[i] \in M
  BY <1>1, SetInOrder
<1>5. q = SetToSeq(M)
  BY DEF M
<1>6. q \in Seq(Msgs)
  <2>1. M \subseteq Msgs
    BY <1>2
  <2>2. q \in Seq(M)
    BY <1>4, <1>5
  <2> QED
    BY <2>1, <2>2
<1>7. ASSUME NEW s, Has(q, s) PROVE s \in S
  BY <1>2, <1>4, <1>5, <1>7, Zenon DEF Has
<1>8. ASSUME NEW s \in S PROVE Has(q, s)
  <2>1. PICK i \in DOMAIN q : q[i] = Set(s, f[s])
    BY <1>3, <1>4, <1>5, Zenon DEF In
  <2>2. q[i][1] = s
    BY <1>3, <2>1
  <2> QED
    BY <2>2, Zenon DEF Has
<1>9. \A i \in DOMAIN q : q[i][2] = f[q[i][1]]
  BY <1>2, <1>4, <1>5, Zenon
<1> QED
  BY <1>6, <1>7, <1>8, <1>9

\* A message posted alone.
LEMMA OnePosted ==
  ASSUME NEW s \in Settings \cup Orders, NEW v \in Values
  PROVE  /\ <<Set(s, v)>> \in Seq(Msgs)
         /\ \A x : Has(<<Set(s, v)>>, x) <=> x = s
         /\ \A i \in DOMAIN <<Set(s, v)>> : <<Set(s, v)>>[i][2] = v
<1>1. Set(s, v) \in Msgs /\ Set(s, v)[1] = s /\ Set(s, v)[2] = v
  BY DEF Set, Msgs
<1> DEFINE m == Set(s, v)
<1> HIDE DEF m
<1>2. DOMAIN <<m>> = {1} /\ <<m>>[1] = m
  OBVIOUS
<1>3. m \in Msgs => <<m>> \in Seq(Msgs)
  OBVIOUS
<1>4. \A x : Has(<<m>>, x) <=> x = m[1]
  BY <1>2, Zenon DEF Has
<1>5. \A i \in DOMAIN <<m>> : <<m>>[i][2] = m[2]
  BY <1>2
<1> QED
  BY <1>1, <1>3, <1>4, <1>5 DEF m

\* Two messages posted together.
LEMMA TwoPosted ==
  ASSUME NEW a \in Msgs, NEW b \in Msgs
  PROVE  /\ <<a, b>> \in Seq(Msgs)
         /\ \A x : Has(<<a, b>>, x) <=> x \in {a[1], b[1]}
         /\ \A x, y : (x = a[1] => y = b[1]) /\ x # b[1] => Followed(<<a, b>>, x, y)
<1>2. /\ DOMAIN <<a, b>> = {1, 2} /\ <<a, b>>[1] = a /\ <<a, b>>[2] = b
      /\ <<a, b>> \in Seq(Msgs)
  OBVIOUS
<1>3. \A x : Has(<<a, b>>, x) <=> x \in {a[1], b[1]}
  BY <1>2 DEF Has
<1>4. ASSUME NEW x, NEW y, x = a[1] => y = b[1], x # b[1]
      PROVE  Followed(<<a, b>>, x, y)
  BY <1>2, <1>4 DEF Followed
<1> QED
  BY <1>2, <1>3, <1>4, Zenon

-----------------------------------------------------------------------------
(* What a step that only posts messages, and goes on with a job, keeps. *)

\* The last message counts, wherever else the modem changes.
LEMMA SameEnd ==
  ASSUME NEW q, NEW d, NEW e, NEW s, NEW v, Ends(q, d, s, v), e[s] = d[s]
  PROVE  Ends(q, e, s, v)
BY Zenon DEF Ends

\* Messages that are no news of a restart leave the link as it was.
LEMMA LinkPosts ==
  ASSUME ConfigIInv, NEW msgs \in Seq(Msgs), queue' = queue \o msgs,
         \A x \in {"open", "ssr", "up"} : ~Has(msgs, x),
         In("agps", job') => In("agps", job),
         adapter' = adapter, linked' = linked, up' = up, crashes' = crashes
  PROVE  LinkFits'
<1>1. queue \in Seq(Msgs) /\ LinkFits
  BY DEF ConfigIInv, ConfigTypes
<1>2. /\ \A s : Has(queue', s) <=> Has(queue, s) \/ Has(msgs, s)
      /\ queue # <<>> => queue' # <<>> /\ queue'[1] = queue[1]
      /\ Followed(queue, "ssr", "up") /\ Followed(msgs, "ssr", "up") => Followed(queue', "ssr", "up")
      /\ OnlyFirst(queue, "open") /\ ~Has(msgs, "open") => OnlyFirst(queue', "open")
  BY <1>1, Posted
<1>3. Followed(msgs, "ssr", "up")
  BY Zenon DEF Followed, Has
<1>4. Followed(queue', "ssr", "up") /\ OnlyFirst(queue', "open")
  BY <1>1, <1>2, <1>3 DEF LinkFits
<1>5. /\ Has(queue', "ssr") <=> Has(queue, "ssr")
      /\ Has(queue', "up") <=> Has(queue, "up")
  BY <1>2
<1>6. adapter' /\ up' /\ ~linked' => (queue' # <<>> /\ queue'[1][1] = "open") \/ Has(queue', "ssr")
  BY <1>1, <1>2, <1>5 DEF LinkFits
<1>7. ~up' \/ Has(queue', "up") \/ In("agps", job') => crashes' > 0
  BY <1>1, <1>5 DEF LinkFits
<1> QED
  BY <1>1, <1>4, <1>6, <1>7, Zenon DEF LinkFits

\* Messages about no lock leave the lock as it was.
LEMMA LockPosts ==
  ASSUME ConfigIInv, NEW msgs \in Seq(Msgs), queue' = queue \o msgs,
         ~Has(msgs, "init"), ~Has(msgs, "lock"),
         In("unlock", job') => In("unlock", job),
         adapter' = adapter, starting' = starting, crashes' = crashes, vote' = vote,
         conf'.lock = conf.lock, update' = update,
         modem'["lock"] = modem["lock"]
  PROVE  LockFits'
<1> SUFFICES ASSUME adapter, ~starting, crashes = 0 PROVE LockFits'
  BY DEF LockFits
<1> DEFINE v == IF vote THEN 0 ELSE conf.lock
<1>1. /\ queue \in Seq(Msgs)
      /\ In("unlock", job) => Has(queue, "lock")
      /\ Followed(queue, "init", "lock")
      /\ update.at = "written" \/ Ends(queue, modem, "lock", v)
  BY DEF ConfigIInv, ConfigTypes, LockFits
<1> HIDE DEF v
<1>2. /\ Has(queue, "lock") => Has(queue', "lock")
      /\ Followed(queue, "init", "lock") /\ Followed(msgs, "init", "lock") => Followed(queue', "init", "lock")
      /\ Ends(queue, modem, "lock", v) => Ends(queue', modem, "lock", v)
  BY <1>1, Posted
<1>3. Followed(msgs, "init", "lock")
  BY Zenon DEF Followed, Has
<1>4. update.at = "written" \/ Ends(queue', modem', "lock", v)
  BY <1>1, <1>2, SameEnd
<1>5. v = IF vote' THEN 0 ELSE conf'.lock
  BY DEF v
<1>6. update'.at = "written" \/ Ends(queue', modem', "lock", IF vote' THEN 0 ELSE conf'.lock)
  BY <1>4, <1>5, Zenon
<1> QED
  BY <1>1, <1>2, <1>3, <1>6, Zenon DEF LockFits

\* Messages that tell nobody of the capabilities leave those as they were.
LEMMA CapsPosts ==
  ASSUME ConfigIInv, NEW msgs \in Seq(Msgs), queue' = queue \o msgs,
         ~Has(msgs, "caps"),
         In("caps", job') => In("caps", job) /\ (job[1] # "gnss" \/ job'[1] = "gnss" \/ Has(msgs, "gnss")),
         adapter' = adapter, starting' = starting, crashes' = crashes, conf' = conf,
         update' = update, disturbed' = disturbed, told' = told, ulp' = ulp, nifs' = nifs
  PROVE  CapsFit'
<1> SUFFICES ASSUME ~disturbed PROVE CapsFit'
  BY DEF CapsFit
<1>1. queue \in Seq(Msgs) /\ CapsFit
  BY DEF ConfigIInv, ConfigTypes
<1>2. /\ \A s : Has(queue', s) <=> Has(queue, s) \/ Has(msgs, s)
      /\ Preceded(queue, "gnss", "caps") => Preceded(queue', "gnss", "caps")
  BY <1>1, Posted
<1>3. TrueCaps' = TrueCaps /\ Asked' = Asked
  BY DEF TrueCaps, Asked
<1>4. Known(conf'.mode, TrueCaps') = Known(conf.mode, TrueCaps)
  BY <1>3
<1>5. ASSUME adapter, ~Asked, crashes = 0
      PROVE  /\ Preceded(queue', "gnss", "caps")
             /\ In("caps", job') => Has(queue', "gnss") \/ job'[1] = "gnss"
  <2>1. /\ Preceded(queue, "gnss", "caps")
        /\ In("caps", job) => Has(queue, "gnss") \/ job[1] = "gnss"
    BY <1>1, <1>5 DEF CapsFit
  <2> QED
    BY <1>2, <2>1
<1>6. adapter /\ ~starting => \/ ulp' \in Known(conf'.mode, TrueCaps')
                              \/ Has(queue', "mode")
                              \/ update'.at = "written" /\ update'.saved.mode # conf'.mode
  BY <1>1, <1>2, <1>4 DEF CapsFit
<1>7. /\ ("MSB" \in TrueCaps') = Capable
      /\ "MEASUREMENTS" \in TrueCaps' => Measures
      /\ told' # None /\ crashes' = 0 => (("MEASUREMENTS" \in told') = Measures)
      /\ told' # None => (("MSB" \in told') = Capable)
      /\ nifs' # {} => (("agnss" \in nifs') = Capable)
  BY <1>1, <1>3 DEF CapsFit
<1> QED
  BY <1>3, <1>5, <1>6, <1>7, Zenon DEF CapsFit

\* A setting is passed on as long as no other message of it comes behind.
LEMMA SettingPosts ==
  ASSUME ConfigIInv, NEW msgs \in Seq(Msgs), queue' = queue \o msgs,
         NEW s \in Settings, SettingFits(s), ~Has(msgs, s),
         up' = up, modem'[s] = modem[s], Current(s)' = Current(s),
         In(s, job) => In(s, job'),
         s \in Types /\ In("agps", job) => In("agps", job'),
         Written(s) => Written(s)'
  PROVE  SettingFits(s)'
<1> DEFINE v == Current(s)
<1>1. queue \in Seq(Msgs)
  BY DEF ConfigIInv, ConfigTypes
<1> HIDE DEF v
<1>2. /\ \A x : Has(queue', x) <=> Has(queue, x) \/ Has(msgs, x)
      /\ Ends(queue, modem, s, v) => Ends(queue', modem, s, v)
  BY <1>1, Posted
<1>3. Ends(queue, modem, s, v) => Ends(queue', modem', s, v)
  BY <1>2, SameEnd
<1>4. Ends(queue, modem, s, Current(s)) => Ends(queue', modem', s, Current(s)')
  BY <1>3 DEF v
<1>5. /\ Has(queue, "up") => Has(queue', "up")
      /\ Has(queue, "init") => Has(queue', "init")
  BY <1>2
<1> QED
  BY <1>4, <1>5, Zenon DEF SettingFits

\* A setting is passed on that has just been posted.
LEMMA SettingPosted ==
  ASSUME ConfigIInv, NEW msgs \in Seq(Msgs), queue' = queue \o msgs,
         NEW s, Has(msgs, s), \A i \in DOMAIN msgs : msgs[i][1] = s => msgs[i][2] = Current(s)'
  PROVE  SettingFits(s)'
<1>1. queue \in Seq(Msgs)
  BY DEF ConfigIInv, ConfigTypes
<1> DEFINE v == Current(s)'
<1> HIDE DEF v
<1>2. \A i \in DOMAIN msgs : msgs[i][1] = s => msgs[i][2] = v
  BY DEF v
<1>3. Ends(queue', modem', s, v)
  BY <1>1, <1>2, Posted
<1> QED
  BY <1>3 DEF SettingFits, v

\* A server that has never been set stays out of what is posted.
LEMMA NeverPosts ==
  ASSUME ConfigIInv, NEW msgs \in Seq(Msgs), queue' = queue \o msgs,
         adapter' = adapter,
         \A t \in Types : servers'[t] = None =>
           /\ servers[t] = None /\ ~Has(msgs, t) /\ modem'[t] = modem[t]
           /\ held' \in {held, None}
  PROVE  NeverSet'
<1>1. queue \in Seq(Msgs) /\ NeverSet
  BY DEF ConfigIInv, ConfigTypes
<1>2. \A x : Has(queue', x) <=> Has(queue, x) \/ Has(msgs, x)
  BY <1>1, Posted
<1> QED
  BY <1>1, <1>2, Zenon DEF NeverSet

\* Where nothing is posted, the queue has what it had.
LEMMA NonePosted ==
  /\ <<>> \in Seq(Msgs) /\ \A x : ~Has(<<>>, x)
  /\ \A q \in Seq(Msgs) : q = q \o <<>>
<1>1. ASSUME NEW q \in Seq(Msgs) PROVE q = q \o <<>>
  OBVIOUS
<1> QED
  BY <1>1 DEF Has

\* A server that has never been set is not in the modem, as it should be.
LEMMA NeverEnds ==
  ASSUME ConfigIInv, adapter, NEW t \in Types, servers[t] = None
  PROVE  Ends(queue, modem, t, None)
<1>1. ~Has(queue, t) /\ modem[t] = None
  BY DEF ConfigIInv, NeverSet
<1> QED
  BY <1>1, Zenon DEF Ends, Has

\* A message of the right lock, behind all the others.
LEMMA LockPosted ==
  ASSUME ConfigIInv, NEW msgs \in Seq(Msgs), queue' = queue \o msgs,
         Has(msgs, "lock"), ~Has(msgs, "init"),
         \A i \in DOMAIN msgs :
           msgs[i][1] = "lock" => msgs[i][2] = (IF vote' THEN 0 ELSE conf'.lock)
  PROVE  LockFits'
<1> DEFINE v == IF vote' THEN 0 ELSE conf'.lock
<1>1. queue \in Seq(Msgs)
  BY DEF ConfigIInv, ConfigTypes
<1> HIDE DEF v
<1>2. \A i \in DOMAIN msgs : msgs[i][1] = "lock" => msgs[i][2] = v
  BY DEF v
<1>3. Has(queue', "lock") /\ Ends(queue', modem', "lock", v)
  BY <1>1, <1>2, Posted
<1>4. Followed(queue', "init", "lock")
  <2> DEFINE n == Len(queue)
  <2>1. PICK k \in DOMAIN msgs : msgs[k][1] = "lock"
    BY DEF Has
  <2>2. /\ k + n \in DOMAIN queue' /\ queue'[k + n] = msgs[k]
        /\ \A i \in DOMAIN queue' : k + n > i \/ (i - n \in DOMAIN msgs /\ queue'[i] = msgs[i - n])
    BY <1>1
  <2>3. \A i \in DOMAIN msgs : msgs[i][1] # "init"
    BY DEF Has
  <2> HIDE DEF n
  <2> QED
    BY <2>1, <2>2, <2>3 DEF Followed
<1> QED
  BY <1>3, <1>4, Zenon DEF LockFits, v

-----------------------------------------------------------------------------
(* The actions, one by one. *)

\* What the types say of the queue and of the settings.
LEMMA Typed ==
  ASSUME ConfigTypes
  PROVE  /\ queue \in Seq(Msgs) /\ job \in Seq(Items)
         /\ conf \in Confs /\ conf.params \in [Params -> Versions] /\ conf.lock \in Locks
         /\ conf.caps \in SUBSET Caps /\ conf.mode \in Versions
         /\ servers \in [Types -> Hosts \cup {None}] /\ available \in BOOLEAN
         /\ passed \subseteq Settings /\ DOMAIN modem = Settings \cup {"lock"}
         /\ \A s \in Settings : Current(s) \in Values
         /\ conf.lock \in Values /\ 0 \in Values /\ None \in Values
<1>1. /\ queue \in Seq(Msgs) /\ job \in Seq(Items)
      /\ conf \in Confs /\ servers \in [Types -> Hosts \cup {None}] /\ available \in BOOLEAN
      /\ passed \subseteq Settings /\ DOMAIN modem = Settings \cup {"lock"}
  BY DEF ConfigTypes, ConfigTypeOK
<1>2. /\ conf.params \in [Params -> Versions] /\ conf.lock \in Locks
      /\ conf.caps \in SUBSET Caps /\ conf.mode \in Versions
  BY <1>1 DEF Confs
<1>3. ASSUME NEW s \in Settings PROVE Current(s) \in Values
  <2>1. CASE s \in Params
    <3>1. conf.params[s] \in Versions
      BY <1>2, <2>1
    <3> QED
      BY <2>1, <3>1 DEF Current, Values
  <2>2. CASE s = "data" /\ s \notin Params
    BY <1>1, <2>2 DEF Current, Values
  <2>3. CASE s \in Types /\ s # "data" /\ s \notin Params
    <3>1. servers[s] \in Hosts \cup {None}
      BY <1>1, <2>3
    <3> QED
      BY <2>3, <3>1 DEF Current, Values
  <2> QED
    BY <2>1, <2>2, <2>3 DEF Settings
<1>4. conf.lock \in Values /\ 0 \in Values /\ None \in Values
  BY <1>2 DEF Values
<1> QED
  BY <1>1, <1>2, <1>3, <1>4

\* The GPS is given back.
LEMMA CleanupFits ==
  ASSUME ConfigIInv, LocCleanup
  PROVE  ConfigIInv'
<1> DEFINE m == <<Set("lock", conf.lock)>>
<1>0. /\ ConfigTypes /\ adapter /\ queue' = queue \o m
      /\ starting' = starting /\ adapter' = adapter
      /\ job' = job /\ linked' = linked /\ up' = up /\ crashes' = crashes
      /\ modem' = modem /\ servers' = servers /\ held' = held /\ conf' = conf /\ update' = update
      /\ available' = available /\ agps' = agps /\ nifs' = nifs /\ vote' = FALSE
      /\ told' = told /\ ulp' = ulp /\ asked' = asked /\ passed' = passed /\ disturbed' = disturbed
  BY DEF ConfigIInv, LocCleanup, Call, Free, Post, engine, settings, link, knowledge, history
<1>1. m \in Seq(Msgs) /\ (\A x : Has(m, x) <=> x = "lock") /\ \A i \in DOMAIN m : m[i][2] = conf.lock
  <2>1. conf.lock \in Values /\ "lock" \in Settings \cup Orders
    BY <1>0, Typed DEF Orders
  <2> QED
    BY <2>1, OnePosted
<1> HIDE DEF m
<1>2. \A s \in Settings : ~Has(m, s)
  BY <1>1, Names DEF Orders
<1>3. ConfigTypes'
  <2>1. queue' \in Seq(Msgs)
    BY <1>0, <1>1, Typed, InConcat
  <2>2. ConfigTypeOK'
    BY <1>0 DEF ConfigTypes, ConfigTypeOK
  <2> QED
    BY <1>0, <2>1, <2>2 DEF ConfigTypes
<1>4. NothingBefore'
  BY <1>0 DEF ConfigIInv, NothingBefore
<1>5. LinkFits'
  BY <1>0, <1>1, LinkPosts
<1>6. JobFits'
  BY <1>0 DEF ConfigIInv, JobFits
<1>7. NeverSet'
  BY <1>0, <1>1, <1>2, NeverPosts DEF Settings
<1>8. SettingsFit'
  <2> SUFFICES ASSUME NEW s \in passed, s \in Types => agps \/ crashes = 0
               PROVE  SettingFits(s)'
    BY <1>0 DEF SettingsFit
  <2>1. s \in Settings /\ SettingFits(s)
    BY <1>0, Typed DEF ConfigIInv, SettingsFit
  <2>2. Current(s)' = Current(s) /\ (Written(s) => Written(s)')
    BY <1>0 DEF Current, Written
  <2> QED
    BY <1>0, <1>1, <1>2, <2>1, <2>2, SettingPosts
<1>9. LockFits'
  BY <1>0, <1>1, LockPosted
<1>10. CapsFit'
  BY <1>0, <1>1, CapsPosts
<1> QED
  BY <1>3, <1>4, <1>5, <1>6, <1>7, <1>8, <1>9, <1>10 DEF ConfigIInv

\* The network comes and goes.
LEMMA NetworkFits ==
  ASSUME ConfigIInv, NEW on \in BOOLEAN, NEW apn \in BOOLEAN, UpdateNetwork(on, apn)
  PROVE  ConfigIInv'
<1> DEFINE m == IF adapter /\ apn THEN <<Set("data", on)>> ELSE <<>>
<1>0. /\ ConfigTypes /\ queue' = (IF adapter /\ apn THEN queue \o <<Set("data", on)>> ELSE queue)
      /\ passed' = (IF adapter /\ apn THEN passed \cup {"data"}
                    ELSE IF adapter THEN passed \ {"data"} ELSE passed)
      /\ starting' = starting /\ adapter' = adapter
      /\ job' = job /\ linked' = linked /\ up' = up /\ crashes' = crashes
      /\ modem' = modem /\ servers' = servers /\ held' = held /\ conf' = conf /\ update' = update
      /\ available' = on /\ agps' = agps /\ nifs' = nifs /\ vote' = vote
      /\ told' = told /\ ulp' = ulp /\ asked' = asked /\ disturbed' = disturbed
  BY DEF ConfigIInv, UpdateNetwork, Call, Post, MarkPassed, engine, link, knowledge
<1>1. /\ m \in Seq(Msgs) /\ (\A x : Has(m, x) => x = "data") /\ (adapter /\ apn => Has(m, "data"))
      /\ \A i \in DOMAIN m : m[i][2] = on
      /\ queue' = queue \o m
  <2>1. CASE adapter /\ apn
    <3>1. on \in Values /\ "data" \in Settings \cup Orders
      BY DEF Orders, Values
    <3> QED
      BY <1>0, <2>1, <3>1, OnePosted
  <2>2. CASE ~(adapter /\ apn)
    <3>1. m = <<>> /\ DOMAIN m = {}
      BY <2>2
    <3> QED
      BY <1>0, <2>2, <3>1, NonePosted, Typed
  <2> QED
    BY <2>1, <2>2
<1> HIDE DEF m
<1>2. \A s \in Params \cup Types \cup {"lock", "init", "open", "ssr", "up", "caps"} : ~Has(m, s)
  BY <1>1, Names DEF Orders
<1>3. ConfigTypes'
  <2>1. queue' \in Seq(Msgs)
    BY <1>0, <1>1, Typed, InConcat
  <2>2. passed' \subseteq Settings
    BY <1>0, Typed DEF Settings
  <2> QED
    BY <1>0, <2>1, <2>2 DEF ConfigTypes, ConfigTypeOK
<1>4. NothingBefore'
  BY <1>0 DEF ConfigIInv, NothingBefore
<1>5. LinkFits'
  BY <1>0, <1>1, <1>2, LinkPosts
<1>6. JobFits'
  BY <1>0 DEF ConfigIInv, JobFits
<1>7. NeverSet'
  BY <1>0, <1>1, <1>2, NeverPosts
<1>8. SettingsFit'
  <2> SUFFICES ASSUME adapter, NEW s \in passed', s \in Types => agps \/ crashes = 0
               PROVE  SettingFits(s)'
    BY <1>0 DEF SettingsFit
  <2>1. CASE s = "data"
    <3>1. adapter /\ apn
      BY <1>0, <2>1
    <3>2. Current(s)' = on
      BY <1>0, <2>1, Names DEF Current, Orders
    <3> QED
      BY <1>0, <1>1, <2>1, <3>1, <3>2, SettingPosted
  <2>2. CASE s # "data"
    <3>1. s \in passed
      BY <1>0, <2>2
    <3>2. s \in Settings /\ SettingFits(s)
      BY <1>0, <3>1, Typed DEF ConfigIInv, SettingsFit
    <3>3. Current(s)' = Current(s) /\ (Written(s) => Written(s)')
      BY <1>0, <2>2 DEF Current, Written
    <3> QED
      BY <1>0, <1>1, <2>2, <3>2, <3>3, SettingPosts
  <2> QED
    BY <2>1, <2>2
<1>9. LockFits'
  BY <1>0, <1>1, <1>2, LockPosts
<1>10. CapsFit'
  BY <1>0, <1>1, <1>2, CapsPosts
<1> QED
  BY <1>3, <1>4, <1>5, <1>6, <1>7, <1>8, <1>9, <1>10 DEF ConfigIInv

\* A server is set.
LEMMA ServerFits ==
  ASSUME ConfigIInv, NEW t \in Types, NEW h \in Hosts, NEW r \in BOOLEAN, SetServer(t, h, r)
  PROVE  ConfigIInv'
<1> DEFINE sends == adapter /\ Resolved(t, r)
           m == IF sends THEN <<Set(t, h)>> ELSE <<>>
<1>0. /\ ConfigTypes /\ queue' = (IF sends THEN queue \o <<Set(t, h)>> ELSE queue)
      /\ passed' = (IF sends THEN passed \cup {t}
                    ELSE IF adapter THEN passed \ {t} ELSE passed)
      /\ servers' = [servers EXCEPT ![t] = h] /\ asked' = [asked EXCEPT ![t] = h]
      /\ starting' = starting /\ adapter' = adapter
      /\ job' = job /\ linked' = linked /\ up' = up /\ crashes' = crashes
      /\ modem' = modem /\ held' = held /\ conf' = conf /\ update' = update
      /\ available' = available /\ agps' = agps /\ nifs' = nifs /\ vote' = vote
      /\ told' = told /\ ulp' = ulp /\ disturbed' = disturbed
  BY DEF ConfigIInv, SetServer, Call, Post, MarkPassed, engine, link, knowledge
<1> HIDE DEF sends
<1>1. /\ m \in Seq(Msgs) /\ (\A x : Has(m, x) => x = t) /\ (sends => Has(m, t))
      /\ \A i \in DOMAIN m : m[i][2] = h
      /\ queue' = queue \o m
  <2>1. CASE sends
    <3>1. h \in Values /\ t \in Settings \cup Orders
      BY DEF Settings, Values
    <3> QED
      BY <1>0, <2>1, <3>1, OnePosted
  <2>2. CASE ~sends
    <3>1. m = <<>> /\ DOMAIN m = {}
      BY <2>2
    <3> QED
      BY <1>0, <2>2, <3>1, NonePosted, Typed
  <2> QED
    BY <2>1, <2>2
<1> HIDE DEF m
<1>2. \A s \in Params \cup {"data", "lock", "init", "open", "ssr", "up", "caps"} : ~Has(m, s)
  BY <1>1, Names DEF Orders
<1>a. /\ servers \in [Types -> Hosts \cup {None}] /\ None \notin Hosts
      /\ servers'[t] = h /\ \A u \in Types \ {t} : servers'[u] = servers[u]
      /\ servers' \in [Types -> Hosts \cup {None}]
  BY <1>0, Typed, ConfigAssumption
<1>3. ConfigTypes'
  <2>1. queue' \in Seq(Msgs)
    BY <1>0, <1>1, Typed, InConcat
  <2>2. passed' \subseteq Settings
    BY <1>0, Typed DEF Settings
  <2>3. asked' \in [Types -> Hosts \cup {None}]
    BY <1>0 DEF ConfigTypes, ConfigTypeOK
  <2> QED
    BY <1>0, <1>a, <2>1, <2>2, <2>3 DEF ConfigTypes, ConfigTypeOK
<1>4. NothingBefore'
  BY <1>0 DEF ConfigIInv, NothingBefore, sends
<1>5. LinkFits'
  BY <1>0, <1>1, <1>2, LinkPosts
<1>6. JobFits'
  BY <1>0 DEF ConfigIInv, JobFits
<1>7. NeverSet'
  <2>1. \A u \in Types : servers'[u] = None => servers[u] = None /\ ~Has(m, u)
    BY <1>1, <1>a
  <2> QED
    BY <1>0, <1>1, <2>1, NeverPosts
<1>8. SettingsFit'
  <2> SUFFICES ASSUME adapter, NEW s \in passed', s \in Types => agps \/ crashes = 0
               PROVE  SettingFits(s)'
    BY <1>0 DEF SettingsFit
  <2>1. CASE s = t
    <3>1. sends
      BY <1>0, <2>1
    <3>2. Current(s)' = h
      BY <1>a, <2>1, Names DEF Current, Orders
    <3> QED
      BY <1>0, <1>1, <2>1, <3>1, <3>2, SettingPosted
  <2>2. CASE s # t
    <3>1. s \in passed
      BY <1>0, <2>2
    <3>2. s \in Settings /\ SettingFits(s)
      BY <1>0, <3>1, Typed DEF ConfigIInv, SettingsFit
    <3>3. Current(s)' = Current(s) /\ (Written(s) => Written(s)')
      BY <1>0, <1>a, <2>2, <3>2 DEF Current, Written, Settings
    <3> QED
      BY <1>0, <1>1, <2>2, <3>2, <3>3, SettingPosts
  <2> QED
    BY <2>1, <2>2
<1>9. LockFits'
  BY <1>0, <1>1, <1>2, LockPosts
<1>10. CapsFit'
  BY <1>0, <1>1, <1>2, CapsPosts
<1> QED
  BY <1>3, <1>4, <1>5, <1>6, <1>7, <1>8, <1>9, <1>10 DEF ConfigIInv

\* A configuration is parsed.
LEMMA WriteFits ==
  ASSUME ConfigIInv, NEW params \in [Params -> Versions], NEW mode \in Versions,
         NEW lock \in Locks, NEW caps \in {conf.caps, {"MSB"}},
         UpdateWrite(params, mode, lock, caps)
  PROVE  ConfigIInv'
<1> DEFINE m == <<>>
<1>0. /\ ConfigTypes /\ queue' = queue
      /\ update = Idle /\ ~starting /\ update' = [at |-> "written", saved |-> conf]
      /\ conf' = [params |-> params, mode |-> mode, lock |-> lock, caps |-> caps]
      /\ starting' = starting /\ adapter' = adapter
      /\ job' = job /\ linked' = linked /\ up' = up /\ crashes' = crashes
      /\ modem' = modem /\ servers' = servers /\ held' = held
      /\ available' = available /\ agps' = agps /\ nifs' = nifs /\ vote' = vote
      /\ told' = told /\ ulp' = ulp /\ asked' = asked /\ passed' = passed /\ disturbed' = disturbed
  BY DEF ConfigIInv, UpdateWrite, Call, Free, engine, worker, link, knowledge, history
<1>1. m \in Seq(Msgs) /\ (\A x : ~Has(m, x)) /\ queue' = queue \o m
  BY <1>0, NonePosted, Typed
<1> HIDE DEF m
<1>3. ConfigTypes'
  <2>1. caps \in SUBSET Caps
    BY <1>0, Typed DEF Caps
  <2>2. conf' \in Confs
    BY <1>0, <2>1 DEF Confs
  <2>3. update'.at = "written" /\ update'.saved \in Confs
    BY <1>0, Typed
  <2> QED
    BY <1>0, <2>2, <2>3 DEF ConfigTypes, ConfigTypeOK
<1>4. NothingBefore'
  BY <1>0 DEF ConfigIInv, NothingBefore
<1>5. LinkFits'
  BY <1>0 DEF ConfigIInv, LinkFits
<1>6. JobFits'
  BY <1>0 DEF ConfigIInv, JobFits
<1>7. NeverSet'
  BY <1>0 DEF ConfigIInv, NeverSet
<1>8. SettingsFit'
  <2> SUFFICES ASSUME adapter, NEW s \in passed, s \in Types => agps \/ crashes = 0
               PROVE  SettingFits(s)'
    BY <1>0 DEF SettingsFit
  <2>1. s \in Settings /\ SettingFits(s)
    BY <1>0, Typed DEF ConfigIInv, SettingsFit
  <2>2. CASE s \in Params /\ params[s] # conf.params[s]
    <3>1. Written(s)'
      BY <1>0, <2>2 DEF Written
    <3> QED
      BY <3>1 DEF SettingFits
  <2>3. CASE ~(s \in Params /\ params[s] # conf.params[s])
    <3>1. Current(s)' = Current(s) /\ ~Written(s)
      BY <1>0, <2>3 DEF Current, Written, Idle
    <3> QED
      BY <1>0, <1>1, <2>1, <3>1, SettingPosts
  <2> QED
    BY <2>2, <2>3
<1>9. LockFits'
  BY <1>0 DEF ConfigIInv, LockFits
<1>10. CapsFit'
  <2> SUFFICES ASSUME ~disturbed PROVE CapsFit'
    BY <1>0 DEF CapsFit
  <2>1. CapsFit
    BY DEF ConfigIInv
  <2>2. update' # Idle
    BY <1>0 DEF Idle
  <2>3. TrueCaps' = TrueCaps /\ TrueCaps = conf.caps /\ Asked' = Asked
    BY <1>0, <2>2 DEF TrueCaps, Asked
  <2>4. adapter' /\ ~starting' => \/ ulp' \in Known(conf'.mode, TrueCaps')
                                  \/ Has(queue', "mode")
                                  \/ update'.at = "written" /\ update'.saved.mode # conf'.mode
    <3>1. CASE mode = conf.mode
      <4>1. Known(conf'.mode, TrueCaps') = Known(conf.mode, TrueCaps)
        BY <1>0, <2>3, <3>1
      <4>2. ~(update.at = "written")
        BY <1>0 DEF Idle
      <4> QED
        BY <1>0, <2>1, <4>1, <4>2 DEF CapsFit
    <3>2. CASE mode # conf.mode
      BY <1>0, <3>2
    <3> QED
      BY <3>1, <3>2
  <2> QED
    BY <1>0, <2>1, <2>3, <2>4, Zenon DEF CapsFit
<1> QED
  BY <1>3, <1>4, <1>5, <1>6, <1>7, <1>8, <1>9, <1>10 DEF ConfigIInv

\* What an update posts: each parameter that has changed, and the mode.
LEMMA UpdatesPosted ==
  ASSUME ConfigTypes, NEW old \in Confs
  PROVE  /\ Updates(old) \in Seq(Msgs)
         /\ \A s : Has(Updates(old), s)
                     <=> s \in Changed(old) \/ (s = "mode" /\ old.mode # conf.mode)
         /\ \A i \in DOMAIN Updates(old) :
              Updates(old)[i][1] \in Changed(old) =>
                Updates(old)[i][2] = conf.params[Updates(old)[i][1]]
<1> DEFINE S == Changed(old)
           a == SetToSeq({Set(p, conf.params[p]) : p \in S})
           b == IF old.mode # conf.mode THEN <<Set("mode", None)>> ELSE <<>>
<1>1. /\ S \subseteq Params /\ IsFiniteSet(S) /\ S \subseteq Settings
      /\ \A t \in S : conf.params[t] \in Values
  <2>1. S \subseteq Params
    BY DEF Changed
  <2>2. IsFiniteSet(S)
    BY <2>1, FS_Subset, ConfigAssumption
  <2>3. \A t \in Params : conf.params[t] \in Values
    BY Typed DEF Values
  <2> QED
    BY <2>1, <2>2, <2>3 DEF Settings
<1> HIDE DEF S
<1>2. /\ a \in Seq(Msgs)
      /\ \A s : Has(a, s) <=> s \in S
      /\ \A i \in DOMAIN a : a[i][2] = conf.params[a[i][1]]
  <2>1. PICK f : f = conf.params
    OBVIOUS
  <2>2. PICK q : q = SetToSeq({Set(t, f[t]) : t \in S})
    OBVIOUS
  <2>3. \A t \in S : f[t] \in Values
    BY <1>1, <2>1
  <2>4. /\ q \in Seq(Msgs) /\ (\A s : Has(q, s) <=> s \in S)
        /\ \A i \in DOMAIN q : q[i][2] = f[q[i][1]]
    BY <1>1, <2>2, <2>3, SetsPosted
  <2>5. q = a
    BY <2>1, <2>2
  <2> HIDE DEF a
  <2> QED
    BY <2>1, <2>4, <2>5
<1>3. /\ b \in Seq(Msgs)
      /\ \A s : Has(b, s) <=> s = "mode" /\ old.mode # conf.mode
  <2>1. CASE old.mode # conf.mode
    <3>1. None \in Values /\ "mode" \in Settings \cup Orders
      BY DEF Orders, Values
    <3> QED
      BY <2>1, <3>1, OnePosted
  <2>2. CASE old.mode = conf.mode
    <3>1. b = <<>>
      BY <2>2
    <3> QED
      BY <2>2, <3>1, NonePosted
  <2> QED
    BY <2>1, <2>2
<1>4. Updates(old) = a \o b
  BY DEF Updates, S
<1> HIDE DEF a, b
<1>5. /\ a \o b \in Seq(Msgs)
      /\ \A s : Has(a \o b, s) <=> Has(a, s) \/ Has(b, s)
  BY <1>2, <1>3, Posted
<1>6. ASSUME NEW i \in DOMAIN (a \o b), (a \o b)[i][1] \in S
      PROVE  (a \o b)[i][2] = conf.params[(a \o b)[i][1]]
  <2>1. /\ DOMAIN (a \o b) = 1..(Len(a) + Len(b)) /\ DOMAIN a = 1..Len(a) /\ DOMAIN b = 1..Len(b)
        /\ Len(a) \in Nat /\ Len(b) \in Nat
    BY <1>2, <1>3
  <2>2. CASE i \in DOMAIN a
    <3>1. (a \o b)[i] = a[i]
      BY <1>2, <1>3, <2>1, <2>2
    <3> QED
      BY <1>2, <2>2, <3>1
  <2>3. CASE ~(i \in DOMAIN a)
    <3>1. i - Len(a) \in DOMAIN b /\ (a \o b)[i] = b[i - Len(a)]
      BY <1>2, <1>3, <2>1, <2>3
    <3>2. Has(b, (a \o b)[i][1])
      BY <3>1 DEF Has
    <3>3. "mode" \in S
      BY <1>3, <1>6, <3>2
    <3> QED
      BY <1>1, <3>3, Names DEF Orders
  <2> QED
    BY <2>2, <2>3
<1> QED
  BY <1>2, <1>3, <1>4, <1>5, <1>6, Zenon DEF S

\* What has changed is posted, with the lock.
LEMMA PostFits ==
  ASSUME ConfigIInv, UpdatePost
  PROVE  ConfigIInv'
<1> DEFINE v == IF vote THEN 0 ELSE conf.lock
           u == Updates(update.saved)
           l == <<Set("lock", v)>>
           m == u \o l
           C == Changed(update.saved)
<1>0. /\ ConfigTypes /\ update.at = "written"
      /\ queue' = (IF adapter THEN queue \o m ELSE queue)
      /\ passed' = (IF adapter THEN passed \cup C ELSE passed)
      /\ update' = [update EXCEPT !.at = "posted"]
      /\ starting' = starting /\ adapter' = adapter
      /\ job' = job /\ linked' = linked /\ up' = up /\ crashes' = crashes
      /\ modem' = modem /\ servers' = servers /\ held' = held /\ conf' = conf
      /\ available' = available /\ agps' = agps /\ nifs' = nifs /\ vote' = vote
      /\ told' = told /\ ulp' = ulp /\ asked' = asked /\ disturbed' = disturbed
  <2>1. UNCHANGED <<engine, settings, job, held, link, knowledge, bounds, asked, disturbed>>
    BY DEF UpdatePost
  <2>2. ConfigTypes /\ update.at = "written" /\ update' = [update EXCEPT !.at = "posted"]
    BY Zenon DEF ConfigIInv, UpdatePost
  <2>3. /\ queue' = (IF adapter THEN queue \o m ELSE queue)
        /\ passed' = (IF adapter THEN passed \cup C ELSE passed)
    BY DEF UpdatePost, Post, MarkPassed
  <2>4. /\ starting' = starting /\ adapter' = adapter /\ job' = job /\ linked' = linked /\ up' = up /\ crashes' = crashes
        /\ modem' = modem /\ servers' = servers /\ held' = held /\ conf' = conf
        /\ available' = available /\ agps' = agps /\ nifs' = nifs /\ vote' = vote
        /\ told' = told /\ ulp' = ulp /\ asked' = asked /\ disturbed' = disturbed
    BY <2>1 DEF engine, settings, link, knowledge, bounds
  <2> QED
    BY <2>2, <2>3, <2>4, Zenon
<1>a. /\ update # Idle /\ update.saved \in Confs
      /\ update'.at = "posted" /\ update'.saved = update.saved /\ update' # Idle
  <2>1. update # Idle
    BY <1>0 DEF Idle
  <2>2. update.saved \in Confs
    BY <1>0, <2>1 DEF ConfigTypes
  <2>3. update'.at = "posted" /\ update'.saved = update.saved
    BY <1>0, <2>2 DEF ConfigTypes
  <2> QED
    BY <2>1, <2>2, <2>3 DEF Idle
<1> HIDE DEF v
<1>1. /\ u \in Seq(Msgs)
      /\ \A s : Has(u, s) <=> s \in C \/ (s = "mode" /\ update.saved.mode # conf.mode)
      /\ \A i \in DOMAIN u : u[i][1] \in C => u[i][2] = conf.params[u[i][1]]
  BY <1>0, <1>a, UpdatesPosted
<1>2. /\ l \in Seq(Msgs) /\ (\A x : Has(l, x) <=> x = "lock") /\ \A i \in DOMAIN l : l[i][2] = v
  <2>1. v \in Values /\ "lock" \in Settings \cup Orders
    BY <1>0, Typed DEF Orders, v
  <2> QED
    BY <2>1, OnePosted
<1>3. C \subseteq Params
  BY DEF Changed
<1> HIDE DEF u, l, C
<1>4. /\ m \in Seq(Msgs)
      /\ \A s : Has(m, s) <=> Has(u, s) \/ Has(l, s)
  BY <1>1, <1>2, Posted
<1>5. \A i \in DOMAIN m : \/ \E k \in DOMAIN u : m[i] = u[k]
                          \/ \E k \in DOMAIN l : m[i] = l[k]
  <2>1. /\ DOMAIN m = 1..(Len(u) + Len(l)) /\ DOMAIN u = 1..Len(u) /\ DOMAIN l = 1..Len(l)
        /\ Len(u) \in Nat /\ Len(l) \in Nat
        /\ \A i \in DOMAIN u : m[i] = u[i]
        /\ \A i \in DOMAIN m : ~(i \in DOMAIN u) => i - Len(u) \in DOMAIN l /\ m[i] = l[i - Len(u)]
    BY <1>1, <1>2
  <2> HIDE DEF m
  <2> QED
    BY <2>1
<1> HIDE DEF m
<1>6. \A i \in DOMAIN m : m[i][1] = "lock" => m[i][2] = v
  <2> SUFFICES ASSUME NEW i \in DOMAIN m, m[i][1] = "lock" PROVE m[i][2] = v
    OBVIOUS
  <2>1. ASSUME NEW k \in DOMAIN u, m[i] = u[k] PROVE FALSE
    <3>1. Has(u, "lock")
      BY <2>1 DEF Has
    <3> QED
      BY <1>1, <1>3, <3>1, Names DEF Orders
  <2> QED
    BY <1>2, <1>5, <2>1
<1>7. \A i \in DOMAIN m : m[i][1] \in C => m[i][2] = conf.params[m[i][1]]
  <2> SUFFICES ASSUME NEW i \in DOMAIN m, m[i][1] \in C PROVE m[i][2] = conf.params[m[i][1]]
    OBVIOUS
  <2>1. ASSUME NEW k \in DOMAIN l, m[i] = l[k] PROVE FALSE
    <3>1. Has(l, m[i][1])
      BY <2>1 DEF Has
    <3> QED
      BY <1>2, <1>3, <3>1, Names DEF Orders
  <2> QED
    BY <1>1, <1>5, <2>1
<1>8. /\ Has(m, "lock")
      /\ \A s \in Types \cup {"data", "init", "open", "ssr", "up", "caps"} : ~Has(m, s)
      /\ \A s \in C : Has(m, s)
      /\ \A s \in Params : Has(m, s) => s \in C
      /\ update.saved.mode # conf.mode => Has(m, "mode")
  BY <1>1, <1>2, <1>3, <1>4, Names DEF Orders
<1>9. ConfigTypes'
  <2>1. queue' \in Seq(Msgs)
    BY <1>0, <1>4, Typed, InConcat
  <2>2. passed' \subseteq Settings
    BY <1>0, <1>3, Typed DEF Settings
  <2> QED
    BY <1>0, <1>a, <2>1, <2>2 DEF ConfigTypes, ConfigTypeOK
<1>10. NothingBefore'
  BY <1>0, <1>a DEF ConfigIInv, NothingBefore
<1>11. LinkFits'
  <2>1. CASE adapter
    BY <1>0, <1>4, <1>8, <2>1, LinkPosts
  <2>2. CASE ~adapter
    BY <1>0, <2>2 DEF ConfigIInv, LinkFits
  <2> QED
    BY <2>1, <2>2
<1>12. JobFits'
  BY <1>0 DEF ConfigIInv, JobFits
<1>13. NeverSet'
  <2>1. CASE adapter
    BY <1>0, <1>4, <1>8, <2>1, NeverPosts
  <2>2. CASE ~adapter
    BY <1>0, <2>2 DEF NeverSet
  <2> QED
    BY <2>1, <2>2
<1>14. SettingsFit'
  <2> SUFFICES ASSUME adapter, NEW s \in passed', s \in Types => agps \/ crashes = 0
               PROVE  SettingFits(s)'
    BY <1>0 DEF SettingsFit
  <2>0. queue' = queue \o m
    BY <1>0
  <2>1. CASE s \in C
    <3>1. Current(s)' = conf.params[s]
      BY <1>0, <1>3, <2>1 DEF Current
    <3>2. \A i \in DOMAIN m : m[i][1] = s => m[i][2] = Current(s)'
      BY <1>7, <2>1, <3>1
    <3> QED
      BY <1>4, <1>8, <2>0, <2>1, <3>2, SettingPosted
  <2>2. CASE s \notin C
    <3>1. s \in passed
      BY <1>0, <2>2
    <3>2. s \in Settings /\ SettingFits(s)
      BY <1>0, <3>1, Typed DEF ConfigIInv, SettingsFit
    <3>3. Current(s)' = Current(s) /\ ~Written(s) /\ ~Has(m, s)
      BY <1>0, <1>8, <2>2, <3>2 DEF Current, Written, C, Changed, Settings
    <3> QED
      BY <1>0, <1>4, <2>0, <3>2, <3>3, SettingPosts
  <2> QED
    BY <2>1, <2>2
<1>15. LockFits'
  <2>1. CASE adapter
    <3>1. \A i \in DOMAIN m : m[i][1] = "lock" => m[i][2] = (IF vote' THEN 0 ELSE conf'.lock)
      BY <1>0, <1>6 DEF v
    <3> QED
      BY <1>0, <1>4, <1>8, <2>1, <3>1, LockPosted
  <2>2. CASE ~adapter
    BY <1>0, <2>2 DEF LockFits
  <2> QED
    BY <2>1, <2>2
<1>16. CapsFit'
  <2> SUFFICES ASSUME ~disturbed PROVE CapsFit'
    BY <1>0 DEF CapsFit
  <2>1. CapsFit
    BY DEF ConfigIInv
  <2>2. TrueCaps' = TrueCaps /\ Asked' = Asked
    BY <1>0, <1>a DEF TrueCaps, Asked
  <2>3. Known(conf'.mode, TrueCaps') = Known(conf.mode, TrueCaps)
    BY <1>0, <2>2
  <2>4. ASSUME adapter
        PROVE  /\ Preceded(queue, "gnss", "caps") => Preceded(queue', "gnss", "caps")
               /\ Has(queue, "gnss") => Has(queue', "gnss")
               /\ Has(queue, "mode") => Has(queue', "mode")
               /\ Has(m, "mode") => Has(queue', "mode")
    <3>1. queue \in Seq(Msgs) /\ queue' = queue \o m
      BY <1>0, <2>4, Typed
    <3>2. \A s : Has(queue', s) <=> Has(queue, s) \/ Has(m, s)
      BY <1>4, <3>1, Posted
    <3>3. \A a, b : Preceded(queue, a, b) /\ (Has(queue, a) \/ ~Has(m, b)) => Preceded(queue', a, b)
      BY <1>4, <3>1, Posted
    <3> QED
      BY <1>8, <3>2, <3>3
  <2>5. adapter /\ ~starting => \/ ulp' \in Known(conf'.mode, TrueCaps')
                                \/ Has(queue', "mode")
                                \/ update'.at = "written" /\ update'.saved.mode # conf'.mode
    BY <1>0, <1>8, <2>1, <2>3, <2>4 DEF CapsFit
  <2>6. adapter /\ crashes = 0 /\ ~Asked =>
         /\ Preceded(queue', "gnss", "caps")
         /\ In("caps", job') => Has(queue', "gnss") \/ job'[1] = "gnss"
    BY <1>0, <2>1, <2>4 DEF CapsFit
  <2> QED
    BY <1>0, <2>1, <2>2, <2>5, <2>6, Zenon DEF CapsFit
<1> QED
  BY <1>9, <1>10, <1>11, <1>12, <1>13, <1>14, <1>15, <1>16 DEF ConfigIInv

\* An update ends.
LEMMA EndFits ==
  ASSUME ConfigIInv, UpdateEnd
  PROVE  ConfigIInv'
<1>0. /\ ConfigTypes /\ update.at = "posted" /\ update' = Idle
      /\ conf' = [conf EXCEPT !.caps = update.saved.caps]
      /\ starting' = starting /\ adapter' = adapter
      /\ job' = job /\ linked' = linked /\ up' = up /\ crashes' = crashes
      /\ modem' = modem /\ servers' = servers /\ held' = held /\ queue' = queue
      /\ available' = available /\ agps' = agps /\ nifs' = nifs /\ vote' = vote
      /\ told' = told /\ ulp' = ulp /\ asked' = asked /\ passed' = passed /\ disturbed' = disturbed
  <2>1. UNCHANGED <<engine, available, servers, worker, link, knowledge, bounds, history>>
    BY DEF UpdateEnd
  <2>2. /\ ConfigTypes /\ update.at = "posted" /\ update' = Idle
        /\ conf' = [conf EXCEPT !.caps = update.saved.caps]
    BY Zenon DEF ConfigIInv, UpdateEnd
  <2>3. /\ starting' = starting /\ adapter' = adapter /\ job' = job /\ linked' = linked /\ up' = up /\ crashes' = crashes
        /\ modem' = modem /\ servers' = servers /\ held' = held /\ queue' = queue
        /\ available' = available /\ agps' = agps /\ nifs' = nifs /\ vote' = vote
        /\ told' = told /\ ulp' = ulp /\ asked' = asked /\ passed' = passed /\ disturbed' = disturbed
    BY <2>1 DEF worker, engine, link, knowledge, bounds, history
  <2> QED
    BY <2>2, <2>3, Zenon
<1>a. /\ update # Idle /\ update.saved \in Confs /\ conf' \in Confs
      /\ conf'.params = conf.params /\ conf'.mode = conf.mode /\ conf'.lock = conf.lock
      /\ conf'.caps = update.saved.caps /\ update'.at = "idle"
  <2>1. update # Idle
    BY <1>0 DEF Idle
  <2>2. update.saved \in Confs
    BY <1>0, <2>1 DEF ConfigTypes
  <2> QED
    BY <1>0, <2>1, <2>2, Typed DEF Confs, Idle
<1>3. ConfigTypes'
  BY <1>0, <1>a DEF ConfigTypes, ConfigTypeOK
<1>4. NothingBefore'
  BY <1>0 DEF ConfigIInv, NothingBefore
<1>5. LinkFits'
  BY <1>0 DEF ConfigIInv, LinkFits
<1>6. JobFits'
  BY <1>0 DEF ConfigIInv, JobFits
<1>7. NeverSet'
  BY <1>0 DEF ConfigIInv, NeverSet
<1>8. SettingsFit'
  <2> SUFFICES ASSUME adapter, NEW s \in passed, s \in Types => agps \/ crashes = 0
               PROVE  SettingFits(s)'
    BY <1>0 DEF SettingsFit
  <2>1. SettingFits(s)
    BY <1>0 DEF ConfigIInv, SettingsFit
  <2>2. Current(s)' = Current(s) /\ ~Written(s)
    BY <1>0, <1>a DEF Current, Written
  <2> QED
    BY <1>0, <2>1, <2>2, Zenon DEF SettingFits
<1>9. LockFits'
  BY <1>0, <1>a DEF ConfigIInv, LockFits
<1>10. CapsFit'
  <2> SUFFICES ASSUME ~disturbed PROVE CapsFit'
    BY <1>0 DEF CapsFit
  <2>1. CapsFit
    BY DEF ConfigIInv
  <2>2. TrueCaps' = TrueCaps /\ Asked' = Asked
    BY <1>0, <1>a DEF TrueCaps, Asked
  <2>3. Known(conf'.mode, TrueCaps') = Known(conf.mode, TrueCaps)
    BY <1>a, <2>2
  <2>4. adapter /\ ~starting => \/ ulp' \in Known(conf'.mode, TrueCaps')
                                \/ Has(queue', "mode")
                                \/ update'.at = "written" /\ update'.saved.mode # conf'.mode
    BY <1>0, <2>1, <2>3 DEF CapsFit
  <2> QED
    BY <1>0, <2>1, <2>2, <2>4, Zenon DEF CapsFit
<1> QED
  BY <1>3, <1>4, <1>5, <1>6, <1>7, <1>8, <1>9, <1>10 DEF ConfigIInv

\* The engine starts.
LEMMA StartFits ==
  ASSUME ConfigIInv, LocInit
  PROVE  ConfigIInv'
<1> DEFINE a == Set("open", None)
           b == Set("init", None)
<1>0. /\ ConfigTypes /\ ~adapter /\ update = Idle /\ queue' = queue \o <<a, b>>
      /\ servers' = [t \in Types |-> None] /\ ulp' = ulp
      /\ adapter' = TRUE /\ starting' = TRUE /\ agps' = FALSE /\ nifs' = {} /\ vote' = vote
      /\ update' = update /\ conf' = conf /\ available' = available
      /\ job' = job /\ held' = held /\ modem' = modem /\ up' = up /\ linked' = linked
      /\ told' = told /\ crashes' = crashes
      /\ asked' = asked /\ passed' = passed /\ disturbed' = disturbed
  BY DEF ConfigIInv, LocInit, Free, Post, link, knowledge, history, bounds
<1>1. /\ queue = <<>> /\ job = <<>> /\ held = None
      /\ modem = Booted(0) /\ up /\ ~linked /\ crashes = 0 /\ told = None
  BY <1>0 DEF ConfigIInv, NothingBefore
<1>2. a \in Msgs /\ b \in Msgs /\ a[1] = "open" /\ b[1] = "init"
  BY DEF Set, Msgs, Orders, Values
<1> HIDE DEF a, b
<1>3. /\ queue' \in Seq(Msgs) /\ DOMAIN queue' = {1, 2}
      /\ queue'[1] = a /\ queue'[2] = b /\ queue' # <<>>
  BY <1>0, <1>1, <1>2
<1>4. \A x : Has(queue', x) <=> x \in {"open", "init"}
  BY <1>2, <1>3 DEF Has
<1>5. \A s \in Settings : modem[s] = None /\ s \notin {"open", "init"}
  BY <1>1, Names DEF Booted, Orders
<1>6. ConfigTypes'
  BY <1>0, <1>3 DEF ConfigTypes, ConfigTypeOK
<1>7. NothingBefore'
  BY <1>0 DEF ConfigIInv, NothingBefore
<1>8. ~In("agps", job') /\ ~In("unlock", job') /\ ~In("caps", job')
  BY <1>0, <1>1 DEF In
<1>9. LinkFits'
  <2>1. queue'[1][1] = "open" /\ ~Has(queue', "up") /\ ~Has(queue', "ssr")
    BY <1>2, <1>3, <1>4
  <2>2. OnlyFirst(queue', "open")
    BY <1>2, <1>3 DEF OnlyFirst
  <2>3. Followed(queue', "ssr", "up")
    BY <2>1, Zenon DEF Followed, Has
  <2> QED
    BY <1>0, <1>1, <1>3, <1>8, <2>1, <2>2, <2>3, Zenon DEF LinkFits
<1>10. JobFits'
  BY <1>0 DEF ConfigIInv, JobFits
<1>11. NeverSet'
  <2>1. \A t \in Types : ~Has(queue', t) /\ modem'[t] = None
    BY <1>0, <1>4, <1>5 DEF Settings
  <2> QED
    BY <1>0, <1>1, <2>1, Zenon DEF NeverSet
<1>12. SettingsFit'
  <2> SUFFICES ASSUME NEW s \in passed PROVE SettingFits(s)'
    BY <1>0 DEF SettingsFit
  <2>1. s \in Settings
    BY <1>0, Typed
  <2>2. CASE s \notin Types
    BY <1>4, <2>2 DEF SettingFits
  <2>3. CASE s \in Types
    <3>1. Current(s)' = None
      BY <1>0, <2>3, Names DEF Current, Orders
    <3>2. ~Has(queue', s) /\ modem'[s] = None
      BY <1>0, <1>4, <1>5, <2>1
    <3>3. Ends(queue', modem', s, None)
      BY <3>2, Zenon DEF Ends, Has
    <3> QED
      BY <3>1, <3>3 DEF SettingFits
  <2> QED
    BY <2>2, <2>3
<1>13. LockFits'
  BY <1>0 DEF LockFits
<1>14. CapsFit'
  <2> SUFFICES ASSUME ~disturbed PROVE CapsFit'
    BY <1>0 DEF CapsFit
  <2>1. CapsFit
    BY DEF ConfigIInv
  <2>2. TrueCaps' = TrueCaps /\ TrueCaps = conf.caps
    BY <1>0 DEF TrueCaps
  <2>3. starting'
    BY <1>0
  <2>4. Preceded(queue', "gnss", "caps")
    BY <1>2, <1>3 DEF Preceded
  <2> QED
    BY <1>0, <1>8, <2>1, <2>2, <2>3, <2>4, Zenon DEF CapsFit
<1> QED
  BY <1>6, <1>7, <1>9, <1>10, <1>11, <1>12, <1>13, <1>14 DEF ConfigIInv

\* The rest of loc_init(), with an engine that has just started or with another.
LEMMA InitFits ==
  ASSUME ConfigIInv, LocInitEnds \/ LocInitAgain
  PROVE  ConfigIInv'
<1> DEFINE m == <<Set("lock", 0)>>
<1>0. /\ ConfigTypes /\ adapter /\ update = Idle /\ queue' = queue \o m
      /\ servers' = servers /\ ulp' = CarrierCapabilities
      /\ starting' = FALSE /\ adapter' = adapter /\ agps' = agps /\ nifs' = nifs /\ vote' = TRUE
      /\ update' = update /\ conf' = conf /\ available' = available
      /\ job' = job /\ held' = held /\ modem' = modem /\ up' = up /\ linked' = linked
      /\ told' = told /\ crashes' = crashes
      /\ asked' = asked /\ passed' = passed /\ disturbed' = disturbed
  <2>1. adapter /\ update = Idle /\ starting' = FALSE /\ crashes' = crashes
    <3>1. CASE LocInitEnds
      BY <3>1 DEF ConfigIInv, LocInitEnds, NothingBefore, bounds
    <3>2. CASE LocInitAgain
      BY <3>2 DEF ConfigIInv, ConfigTypes, ConfigTypeOK, LocInitAgain, Call, Free
    <3> QED
      BY <3>1, <3>2
  <2>2. ConfigTypes /\ TakesOver
    BY DEF ConfigIInv, LocInitEnds, LocInitAgain
  <2> QED
    BY <2>1, <2>2 DEF TakesOver, Post, settings, link, history
<1>1. m \in Seq(Msgs) /\ (\A x : Has(m, x) <=> x = "lock") /\ \A i \in DOMAIN m : m[i][2] = 0
  <2>1. 0 \in Values /\ "lock" \in Settings \cup Orders
    BY DEF Orders, Values
  <2> QED
    BY <2>1, OnePosted
<1> HIDE DEF m
<1>2. \A s \in Settings : ~Has(m, s)
  BY <1>1, Names DEF Orders
<1>3. ConfigTypes'
  <2>1. queue' \in Seq(Msgs)
    BY <1>0, <1>1, Typed, InConcat
  <2>2. ulp' \in {None} \cup SUBSET Caps
    BY <1>0, Typed DEF CarrierCapabilities, Caps
  <2> QED
    BY <1>0, <2>1, <2>2 DEF ConfigTypes, ConfigTypeOK
<1>4. NothingBefore'
  BY <1>0 DEF ConfigIInv, NothingBefore
<1>5. LinkFits'
  BY <1>0, <1>1, LinkPosts
<1>6. JobFits'
  BY <1>0 DEF ConfigIInv, JobFits
<1>7. NeverSet'
  BY <1>0, <1>1, <1>2, NeverPosts DEF Settings
<1>8. SettingsFit'
  <2> SUFFICES ASSUME NEW s \in passed, s \in Types => agps \/ crashes = 0
               PROVE  SettingFits(s)'
    BY <1>0 DEF SettingsFit
  <2>1. s \in Settings /\ SettingFits(s)
    BY <1>0, Typed DEF ConfigIInv, SettingsFit
  <2>2. Current(s)' = Current(s) /\ (Written(s) => Written(s)')
    BY <1>0 DEF Current, Written
  <2> QED
    BY <1>0, <1>1, <1>2, <2>1, <2>2, SettingPosts
<1>9. LockFits'
  BY <1>0, <1>1, LockPosted
<1>10. CapsFit'
  <2> SUFFICES ASSUME ~disturbed PROVE CapsFit'
    BY <1>0 DEF CapsFit
  <2>1. CapsFit
    BY DEF ConfigIInv
  <2>2. TrueCaps' = TrueCaps /\ TrueCaps = conf.caps /\ Asked' = Asked
    BY <1>0 DEF TrueCaps, Asked
  <2>3. ulp' \in Known(conf'.mode, TrueCaps')
    BY <1>0, <2>2 DEF Known, Carrier, CarrierCapabilities
  <2>4. /\ \A s : Has(queue', s) <=> Has(queue, s) \/ Has(m, s)
        /\ Preceded(queue, "gnss", "caps") => Preceded(queue', "gnss", "caps")
    BY <1>0, <1>1, Typed, Posted
  <2>5. adapter' /\ crashes' = 0 /\ ~Asked' =>
         /\ Preceded(queue', "gnss", "caps")
         /\ In("caps", job') => Has(queue', "gnss") \/ job'[1] = "gnss"
    BY <1>0, <2>1, <2>2, <2>4 DEF CapsFit
  <2> QED
    BY <1>0, <2>1, <2>2, <2>3, <2>5, Zenon DEF CapsFit
<1> QED
  BY <1>3, <1>4, <1>5, <1>6, <1>7, <1>8, <1>9, <1>10 DEF ConfigIInv

\* AGPS is initialized: the servers are posted that are known.
LEMMA AgpsFits ==
  ASSUME ConfigIInv, NEW r \in BOOLEAN, AgpsInit(r)
  PROVE  ConfigIInv'
<1> DEFINE known == {t \in Types : servers[t] # None}
           sent == {t \in known : Resolved(t, r)}
           n == <<Set("nif", None)>>
           k == SetToSeq({Set(t, servers[t]) : t \in sent})
           m == n \o k
<1>0. /\ ConfigTypes /\ adapter /\ agps' = TRUE /\ queue' = queue \o m
      /\ passed' = (passed \cup sent) \ (known \ sent)
      /\ starting' = starting /\ adapter' = adapter
      /\ job' = job /\ linked' = linked /\ up' = up /\ crashes' = crashes
      /\ modem' = modem /\ servers' = servers /\ held' = held /\ conf' = conf /\ update' = update
      /\ available' = available /\ nifs' = nifs /\ vote' = vote
      /\ told' = told /\ ulp' = ulp /\ asked' = asked /\ disturbed' = disturbed
  BY DEF ConfigIInv, AgpsInit, Call, Post, MarkPassed, settings, link, knowledge
<1>1. n \in Seq(Msgs) /\ (\A x : Has(n, x) <=> x = "nif")
  <2>1. None \in Values /\ "nif" \in Settings \cup Orders
    BY DEF Orders, Values
  <2> QED
    BY <2>1, OnePosted
<1>2. sent \subseteq Types /\ sent \subseteq known /\ IsFiniteSet(sent) /\ sent \subseteq Settings
  <2>1. sent \subseteq Types
    OBVIOUS
  <2>2. IsFiniteSet(sent)
    BY <2>1, FS_Subset, ConfigAssumption
  <2> QED
    BY <2>1, <2>2 DEF Settings
<1>a. \A t \in Types : t \in known <=> servers[t] # None
  OBVIOUS
<1> HIDE DEF n, sent, known
<1>3. /\ k \in Seq(Msgs)
      /\ \A s : Has(k, s) <=> s \in sent
      /\ \A i \in DOMAIN k : k[i][2] = servers[k[i][1]]
  <2>1. PICK f : f = servers
    OBVIOUS
  <2>2. PICK q : q = SetToSeq({Set(t, f[t]) : t \in sent})
    OBVIOUS
  <2>3. \A t \in sent : f[t] \in Values
    <3>1. \A t \in sent : servers[t] \in Hosts \cup {None}
      BY <1>0, <1>2, Typed
    <3> QED
      BY <2>1, <3>1 DEF Values
  <2>4. /\ q \in Seq(Msgs) /\ (\A s : Has(q, s) <=> s \in sent)
        /\ \A i \in DOMAIN q : q[i][2] = f[q[i][1]]
    BY <1>2, <2>2, <2>3, SetsPosted
  <2>5. q = k
    BY <2>1, <2>2
  <2> HIDE DEF k
  <2> QED
    BY <2>1, <2>4, <2>5
<1> HIDE DEF k
<1>4. m \in Seq(Msgs) /\ \A s : Has(m, s) <=> Has(n, s) \/ Has(k, s)
  BY <1>1, <1>3, Posted
<1>5. /\ \A s \in sent : Has(m, s)
      /\ \A s \in Settings : Has(m, s) => s \in sent
      /\ \A s \in {"lock", "init", "open", "ssr", "up", "caps"} : ~Has(m, s)
  BY <1>1, <1>2, <1>3, <1>4, Names DEF Orders
<1>6. \A i \in DOMAIN m : m[i][1] \in sent => m[i][2] = servers[m[i][1]]
  <2>1. /\ DOMAIN m = 1..(Len(n) + Len(k)) /\ DOMAIN n = 1..Len(n) /\ DOMAIN k = 1..Len(k)
        /\ Len(n) \in Nat /\ Len(k) \in Nat
        /\ \A i \in DOMAIN n : m[i] = n[i]
        /\ \A i \in DOMAIN m : ~(i \in DOMAIN n) => i - Len(n) \in DOMAIN k /\ m[i] = k[i - Len(n)]
    BY <1>1, <1>3
  <2> SUFFICES ASSUME NEW i \in DOMAIN m, m[i][1] \in sent PROVE m[i][2] = servers[m[i][1]]
    OBVIOUS
  <2>2. ASSUME i \in DOMAIN n PROVE FALSE
    <3>1. m[i] = n[i]
      BY <2>1, <2>2
    <3>2. Has(n, m[i][1])
      BY <2>2, <3>1 DEF Has
    <3> QED
      BY <1>1, <1>2, <3>2, Names DEF Orders
  <2> QED
    BY <1>3, <2>1, <2>2
<1> HIDE DEF m
<1>7. ConfigTypes'
  <2>1. queue' \in Seq(Msgs)
    BY <1>0, <1>4, Typed, InConcat
  <2>2. passed' \subseteq Settings
    BY <1>0, <1>2, Typed
  <2> QED
    BY <1>0, <2>1, <2>2 DEF ConfigTypes, ConfigTypeOK
<1>8. NothingBefore'
  BY <1>0 DEF ConfigIInv, NothingBefore
<1>9. LinkFits'
  BY <1>0, <1>4, <1>5, LinkPosts
<1>10. JobFits'
  BY <1>0 DEF ConfigIInv, JobFits
<1>11. NeverSet'
  <2>1. \A t \in Types : servers'[t] = None => servers[t] = None /\ ~Has(m, t)
    BY <1>0, <1>2, <1>5, <1>a DEF Settings
  <2> QED
    BY <1>0, <1>4, <2>1, NeverPosts
<1>12. SettingsFit'
  <2> SUFFICES ASSUME NEW s \in passed' PROVE SettingFits(s)'
    BY <1>0 DEF SettingsFit
  <2>1. CASE s \in sent
    <3>1. Current(s)' = servers[s]
      BY <1>0, <1>2, <2>1, Names DEF Current, Orders
    <3>2. \A i \in DOMAIN m : m[i][1] = s => m[i][2] = Current(s)'
      BY <1>6, <2>1, <3>1
    <3> QED
      BY <1>0, <1>4, <1>5, <2>1, <3>2, SettingPosted
  <2>2. CASE s \notin sent
    <3>1. s \in passed /\ s \notin known /\ s \in Settings
      BY <1>0, <2>2, Typed
    <3>2. SettingFits(s)
      <4>1. CASE s \in Types
        <5>1. servers[s] = None /\ Current(s) = None
          BY <1>a, <3>1, <4>1, Names DEF Current, Orders
        <5>2. Ends(queue, modem, s, None)
          BY <1>0, <4>1, <5>1, NeverEnds
        <5> QED
          BY <5>1, <5>2 DEF SettingFits
      <4>2. CASE s \notin Types
        BY <1>0, <3>1, <4>2 DEF ConfigIInv, SettingsFit
      <4> QED
        BY <4>1, <4>2
    <3>3. Current(s)' = Current(s) /\ (Written(s) => Written(s)') /\ ~Has(m, s)
      BY <1>0, <1>5, <2>2, <3>1 DEF Current, Written
    <3> QED
      BY <1>0, <1>4, <3>1, <3>2, <3>3, SettingPosts
  <2> QED
    BY <2>1, <2>2
<1>13. LockFits'
  BY <1>0, <1>4, <1>5, LockPosts
<1>14. CapsFit'
  BY <1>0, <1>4, <1>5, CapsPosts
<1> QED
  BY <1>7, <1>8, <1>9, <1>10, <1>11, <1>12, <1>13, <1>14 DEF ConfigIInv

\* What a message sets in the modem, if the handle is valid.
LEMMA WorkSets ==
  ASSUME ConfigTypes, Work
  PROVE  /\ DOMAIN modem' = Settings \cup {"lock"}
         /\ \A s \in Settings \cup {"lock"} :
              modem'[s] = IF linked /\ Head(queue)[1] = s THEN Head(queue)[2] ELSE modem[s]
<1> DEFINE x == Head(queue)[1]
           v == Head(queue)[2]
<1>1. Sets(x, v) /\ DOMAIN modem = Settings \cup {"lock"}
  BY Typed DEF Work
<1> HIDE DEF x, v
<1>2. ASSUME x \in Settings \cup {"lock"}, modem' = Sent(x, v)
      PROVE  /\ DOMAIN modem' = Settings \cup {"lock"}
             /\ \A s \in Settings \cup {"lock"} :
                  modem'[s] = IF linked /\ x = s THEN v ELSE modem[s]
  BY <1>1, <1>2 DEF Sent
<1>3. ASSUME x \notin Settings \cup {"lock"}, modem' = modem
      PROVE  /\ DOMAIN modem' = Settings \cup {"lock"}
             /\ \A s \in Settings \cup {"lock"} :
                  modem'[s] = IF linked /\ x = s THEN v ELSE modem[s]
  BY <1>1, <1>3
<1>4. CASE SetsParam(x, v)
  BY <1>2, <1>4 DEF SetsParam, Settings, x, v
<1>5. CASE SetsServer(x, v)
  BY <1>2, <1>5 DEF SetsServer, Settings, x, v
<1>6. CASE EnablesData(x, v)
  BY <1>2, <1>6 DEF EnablesData, Settings, x, v
<1>7. CASE SetsLock(x, v)
  BY <1>2, <1>7 DEF SetsLock, x, v
<1>8. CASE SetsNothingElse(x)
  <2>1. x \notin Settings \cup {"lock"}
    BY <1>8, Names DEF SetsNothingElse, Orders
  <2> QED
    BY <1>3, <1>8, <2>1 DEF SetsNothingElse, x, v
<1> QED
  BY <1>1, <1>4, <1>5, <1>6, <1>7, <1>8 DEF Sets

\* A message is worked off.
LEMMA WorkFits ==
  ASSUME ConfigIInv, Work
  PROVE  ConfigIInv'
<1> DEFINE x == Head(queue)[1]
           v == Head(queue)[2]
<1>0. /\ ConfigTypes /\ job = <<>> /\ queue # <<>> /\ queue' = Tail(queue) /\ job' = StartJob(x)
      /\ linked' = (IF x \in {"open", "ssr"} THEN up ELSE linked)
      /\ conf' = (IF x = "gnss" /\ linked /\ Measures
                    THEN [conf EXCEPT !.caps = conf.caps \cup {"MEASUREMENTS"}] ELSE conf)
      /\ told' = (IF x = "caps" THEN conf.caps ELSE told)
      /\ ulp' = (IF x = "mode" THEN CarrierCapabilities ELSE ulp)
      /\ nifs' = (IF x = "nif"
            THEN nifs \cup {"internet"} \cup (IF "MSB" \in conf.caps THEN {"agnss"} ELSE {})
            ELSE nifs)
      /\ disturbed' = (disturbed \/ (x \in {"gnss", "caps", "mode", "nif"} /\ update # Idle))
      /\ starting' = starting /\ adapter' = adapter /\ agps' = agps /\ vote' = vote /\ available' = available
      /\ servers' = servers /\ held' = held /\ update' = update /\ up' = up /\ crashes' = crashes
      /\ asked' = asked /\ passed' = passed
  BY DEF ConfigIInv, Work, Opens, AsksMeasures, TellsCaps, TellsUlp, CreatesNifs, bounds
<1>1. /\ DOMAIN modem' = Settings \cup {"lock"}
      /\ \A s \in Settings \cup {"lock"} :
           modem'[s] = IF linked /\ x = s THEN v ELSE modem[s]
  BY <1>0, WorkSets
<1>2. PICK h : h = Head(queue)
  OBVIOUS
<1>3. x = h[1] /\ v = h[2]
  BY <1>2
<1> HIDE DEF x, v
<1>4. /\ queue' \in Seq(Msgs) /\ queue[1] = h
      /\ \A s : Has(queue, s) <=> h[1] = s \/ Has(queue', s)
      /\ \A a, b : Followed(queue, a, b) => Followed(queue', a, b) /\ (h[1] = a => Has(queue', b))
      /\ \A a, b : Preceded(queue, a, b) => h[1] # b /\ (h[1] = a \/ Preceded(queue', a, b))
      /\ \A d, e, s, w : Ends(queue, d, s, w) /\ e[s] = (IF h[1] = s THEN h[2] ELSE d[s])
                           => Ends(queue', e, s, w)
      /\ \A s : OnlyFirst(queue, s) => ~Has(queue', s)
  <2>1. queue \in Seq(Msgs)
    BY <1>0, Typed
  <2>2. PICK q : q = queue'
    OBVIOUS
  <2>3. q = Tail(queue)
    BY <1>0, <2>2
  <2>4. /\ q \in Seq(Msgs) /\ queue[1] = h
        /\ \A s : Has(queue, s) <=> h[1] = s \/ Has(q, s)
        /\ \A a, b : Followed(queue, a, b) => Followed(q, a, b) /\ (h[1] = a => Has(q, b))
        /\ \A a, b : Preceded(queue, a, b) => h[1] # b /\ (h[1] = a \/ Preceded(q, a, b))
        /\ \A d, e, s, w : Ends(queue, d, s, w) /\ e[s] = (IF h[1] = s THEN h[2] ELSE d[s])
                             => Ends(q, e, s, w)
        /\ \A s : OnlyFirst(queue, s) => ~Has(q, s)
    BY <1>0, <1>2, <2>1, <2>3, Taken
  <2> QED
    BY <2>2, <2>4
<1>5. adapter
  BY <1>0 DEF ConfigIInv, NothingBefore
<1>6. LinkFits
  BY DEF ConfigIInv
\* Without a valid handle nothing is taken but the message that negotiates it, while
\* the modem is up and no restart is known of.
<1>7. up /\ ~Has(queue, "up") /\ ~linked => x = "open"
  BY <1>3, <1>4, <1>5, <1>6 DEF LinkFits, Followed, Has
<1>8. /\ conf'.params = conf.params /\ conf'.mode = conf.mode /\ conf'.lock = conf.lock
      /\ conf' \in Confs
  <2>1. conf \in Confs
    BY <1>0, Typed
  <2> QED
    BY <1>0, <2>1 DEF Confs, Caps
<1>9. /\ In("agps", job') => x = "up"
      /\ In("unlock", job') => x = "init"
      /\ In("caps", job') => x = "init"
  <2>1. x \notin {"init", "up"} => \A y : ~In(y, job')
    <3>1. \A y : ~In(y, <<>>)
      BY DEF In
    <3> QED
      BY <1>0, <3>1, Jobs
  <2> QED
    BY <1>0, <2>1, Jobs
<1>10. ConfigTypes'
  <2>1. job' \in Seq(Items)
    BY <1>0, Jobs
  <2>2. held' = None
    BY <1>0 DEF ConfigTypes
  <2>3. /\ told' \in {None} \cup SUBSET Caps /\ ulp' \in {None} \cup SUBSET Caps
    <3>1. conf.caps \in SUBSET Caps /\ CarrierCapabilities \in SUBSET Caps
      BY <1>0, Typed DEF CarrierCapabilities, Caps
    <3> QED
      BY <1>0, <3>1 DEF ConfigTypes, ConfigTypeOK
  <2>4. nifs' \subseteq {"internet", "agnss"}
    BY <1>0 DEF ConfigTypes, ConfigTypeOK
  <2>5. linked' \in BOOLEAN /\ disturbed' \in BOOLEAN
    BY <1>0 DEF ConfigTypes, ConfigTypeOK
  <2> QED
    BY <1>0, <1>1, <1>4, <1>8, <2>1, <2>2, <2>3, <2>4, <2>5 DEF ConfigTypes, ConfigTypeOK
<1>11. NothingBefore'
  BY <1>0, <1>5 DEF ConfigIInv, NothingBefore
<1>12. LinkFits'
  <2>1. linked' => up'
    BY <1>0, <1>6 DEF LinkFits
  <2>2. up' /\ ~linked' => Has(queue', "ssr")
    BY <1>0, <1>3, <1>4, <1>5, <1>6 DEF LinkFits
  <2>3. OnlyFirst(queue', "open")
    BY <1>4, <1>6 DEF LinkFits, OnlyFirst, Has
  <2>4. Followed(queue', "ssr", "up")
    BY <1>4, <1>6 DEF LinkFits
  <2>5. ~up' \/ Has(queue', "up") \/ In("agps", job') => crashes' > 0
    BY <1>0, <1>3, <1>4, <1>6, <1>9 DEF LinkFits
  <2> QED
    BY <2>1, <2>2, <2>3, <2>4, <2>5, Zenon DEF LinkFits
<1>13. JobFits'
  <2>1. CASE x = "up"
    BY <1>0, <2>1, Jobs DEF JobFits
  <2>2. CASE x # "up"
    BY <1>9, <2>2 DEF JobFits, In
  <2> QED
    BY <2>1, <2>2
<1>14. NeverSet'
  <2> SUFFICES ASSUME NEW t \in Types, servers[t] = None
               PROVE  ~Has(queue', t) /\ modem'[t] = None /\ (held' = None \/ held'[1] # t)
    BY <1>0 DEF NeverSet
  <2>1. ~Has(queue, t) /\ modem[t] = None /\ (held = None \/ held[1] # t)
    BY <1>5 DEF ConfigIInv, NeverSet
  <2>2. t \in Settings
    BY DEF Settings
  <2> QED
    BY <1>0, <1>1, <1>3, <1>4, <2>1, <2>2
<1>15. SettingsFit'
  <2> SUFFICES ASSUME NEW s \in passed, s \in Types => agps \/ crashes = 0
               PROVE  SettingFits(s)'
    BY <1>0 DEF SettingsFit
  <2>1. s \in Settings /\ SettingFits(s)
    BY <1>0, <1>5, Typed DEF ConfigIInv, SettingsFit
  <2>2. Current(s)' = Current(s) /\ (Written(s) => Written(s)')
    BY <1>0, <1>8 DEF Current, Written
  <2>3. CASE ~up
    BY <1>0, <2>3 DEF SettingFits
  <2>4. CASE Has(queue, "up")
    <3>1. CASE x = "up"
      <4>1. CASE s \in Types
        BY <1>0, <3>1, <4>1, Jobs DEF SettingFits
      <4>2. CASE s \notin Types
        <5>1. s \in Params \cup {"data"}
          BY <2>1, <4>2 DEF Settings
        <5> QED
          BY <1>0, <3>1, <5>1, Jobs DEF SettingFits
      <4> QED
        BY <4>1, <4>2
    <3>2. CASE x # "up"
      BY <1>3, <1>4, <2>4, <3>2 DEF SettingFits
    <3> QED
      BY <3>1, <3>2
  <2>5. CASE s \notin Types /\ Has(queue, "init")
    <3>1. CASE x = "init"
      <4>1. s \in Params \cup {"data"}
        BY <2>1, <2>5 DEF Settings
      <4> QED
        BY <1>0, <3>1, <4>1, Jobs DEF SettingFits
    <3>2. CASE x # "init"
      BY <1>3, <1>4, <2>5, <3>2 DEF SettingFits
    <3> QED
      BY <3>1, <3>2
  <2>6. CASE Written(s)
    BY <2>2, <2>6 DEF SettingFits
  <2>7. CASE up /\ ~Has(queue, "up") /\ Ends(queue, modem, s, Current(s))
    <3>1. ~linked => x # s
      BY <1>7, <2>1, <2>7, Names DEF Orders
    <3>2. modem'[s] = IF h[1] = s THEN h[2] ELSE modem[s]
      BY <1>1, <1>3, <2>1, <3>1
    <3>3. Ends(queue', modem', s, Current(s))
      BY <1>4, <2>7, <3>2, Zenon
    <3> QED
      BY <2>2, <3>3 DEF SettingFits
  <2>8. ~In(s, job) /\ ~In("agps", job)
    BY <1>0 DEF In
  <2> QED
    BY <2>1, <2>3, <2>4, <2>5, <2>6, <2>7, <2>8 DEF SettingFits
<1>16. LockFits'
  <2> SUFFICES ASSUME ~starting, crashes = 0 PROVE LockFits'
    BY <1>0 DEF LockFits
  <2> DEFINE w == IF vote THEN 0 ELSE conf.lock
  <2>1. /\ Followed(queue, "init", "lock")
        /\ update.at = "written" \/ Ends(queue, modem, "lock", w)
    BY <1>5 DEF ConfigIInv, LockFits
  <2> HIDE DEF w
  <2>2. Followed(queue', "init", "lock") /\ (x = "init" => Has(queue', "lock"))
    BY <1>3, <1>4, <2>1
  <2>3. ~linked => x = "open"
    BY <1>6, <1>7 DEF LinkFits
  <2>4. modem'["lock"] = IF h[1] = "lock" THEN h[2] ELSE modem["lock"]
    BY <1>1, <1>3, <2>3
  <2>5. update.at = "written" \/ Ends(queue', modem', "lock", w)
    BY <1>4, <2>1, <2>4, Zenon
  <2>6. w = IF vote' THEN 0 ELSE conf'.lock
    BY <1>0, <1>8 DEF w
  <2>7. update'.at = "written" \/ Ends(queue', modem', "lock", IF vote' THEN 0 ELSE conf'.lock)
    BY <1>0, <2>5, <2>6, Zenon
  <2> QED
    BY <1>9, <2>2, <2>7, Zenon DEF LockFits
<1>17. CapsFit'
  <2> SUFFICES ASSUME ~disturbed' PROVE CapsFit'
    BY DEF CapsFit
  <2>1. /\ CapsFit /\ ~disturbed
        /\ x \in {"gnss", "caps", "mode", "nif"} => update = Idle
    BY <1>0 DEF ConfigIInv
  <2>2. /\ TrueCaps' = IF x = "gnss" /\ linked /\ Measures
                         THEN TrueCaps \cup {"MEASUREMENTS"} ELSE TrueCaps
        /\ x \in {"gnss", "caps", "mode", "nif"} => TrueCaps = conf.caps
    <3>1. CASE update = Idle
      <4>1. TrueCaps = conf.caps /\ TrueCaps' = conf'.caps
        BY <1>0, <3>1 DEF TrueCaps
      <4>2. conf'.caps = IF x = "gnss" /\ linked /\ Measures
                           THEN conf.caps \cup {"MEASUREMENTS"} ELSE conf.caps
        <5>1. conf \in Confs
          BY <1>0, Typed
        <5> QED
          BY <1>0, <5>1 DEF Confs
      <4> QED
        BY <4>1, <4>2
    <3>2. CASE update # Idle
      <4>1. x # "gnss" /\ TrueCaps' = TrueCaps
        BY <1>0, <2>1, <3>2 DEF TrueCaps
      <4> QED
        BY <2>1, <3>2, <4>1
    <3> QED
      BY <3>1, <3>2
  <2>3. /\ ("MSB" \in TrueCaps') = ("MSB" \in TrueCaps)
        /\ "MEASUREMENTS" \in TrueCaps' => Measures
        /\ Known(conf.mode, TrueCaps) \subseteq Known(conf'.mode, TrueCaps')
    <3> DEFINE C == Carrier(conf.mode, TrueCaps)
               D == Carrier(conf.mode, TrueCaps')
    <3>1. D = C \/ (D = C \cup {"MEASUREMENTS"} /\ Measures)
      BY <2>2 DEF Carrier
    <3>2. C = D \/ C = D \ {"MEASUREMENTS"}
      BY <3>1
    <3>3. C \ {"MEASUREMENTS"} = D \ {"MEASUREMENTS"}
      BY <3>1
    <3>4. Known(conf.mode, TrueCaps) \subseteq Known(conf'.mode, TrueCaps')
      BY <1>8, <3>2, <3>3 DEF Known
    <3> QED
      BY <2>1, <2>2, <3>4 DEF CapsFit
  <2>4. crashes = 0 /\ ~linked => x = "open"
    BY <1>6, <1>7 DEF LinkFits
  <2>5. ASSUME crashes = 0, ~Asked'
        PROVE  ~Asked /\ x # "gnss"
    <3>1. Measures \in BOOLEAN
      BY ConfigAssumption
    <3>2. "MEASUREMENTS" \notin TrueCaps' /\ Measures
      BY <2>3, <2>5, <3>1 DEF Asked
    <3>3. x # "gnss"
      BY <2>2, <2>4, <2>5, <3>2
    <3> QED
      BY <2>2, <3>2, <3>3 DEF Asked
  <2>6. adapter' /\ crashes' = 0 /\ ~Asked' =>
          /\ Preceded(queue', "gnss", "caps")
          /\ In("caps", job') => Has(queue', "gnss") \/ job'[1] = "gnss"
    <3> SUFFICES ASSUME crashes = 0, ~Asked'
                 PROVE  /\ Preceded(queue', "gnss", "caps")
                        /\ In("caps", job') => Has(queue', "gnss") \/ job'[1] = "gnss"
      BY <1>0
    <3>1. Preceded(queue, "gnss", "caps") /\ x # "gnss"
      BY <1>5, <2>1, <2>5 DEF CapsFit
    <3>2. Preceded(queue', "gnss", "caps")
      BY <1>3, <1>4, <3>1
    <3>3. In("caps", job') => job'[1] = "gnss"
      BY <1>0, <1>9, Jobs
    <3> QED
      BY <3>2, <3>3
  <2>7. told' # None /\ crashes' = 0 => (("MEASUREMENTS" \in told') = Measures)
    <3>1. CASE x = "caps"
      <4>1. told' = TrueCaps
        BY <1>0, <2>2, <3>1
      <4>2. crashes = 0 => Asked
        BY <1>3, <1>4, <1>5, <2>1, <3>1 DEF CapsFit
      <4> QED
        BY <1>0, <4>1, <4>2 DEF Asked
    <3>2. CASE x # "caps"
      BY <1>0, <2>1, <3>2 DEF CapsFit
    <3> QED
      BY <3>1, <3>2
  <2>8. told' # None => (("MSB" \in told') = Capable)
    <3>1. CASE x = "caps"
      BY <1>0, <2>1, <2>2, <3>1 DEF CapsFit
    <3>2. CASE x # "caps"
      BY <1>0, <2>1, <3>2 DEF CapsFit
    <3> QED
      BY <3>1, <3>2
  <2>9. ~starting' => \/ ulp' \in Known(conf'.mode, TrueCaps')
                      \/ Has(queue', "mode")
                      \/ update'.at = "written" /\ update'.saved.mode # conf'.mode
    <3>1. CASE x = "mode"
      <4>1. ulp' = CarrierCapabilities /\ TrueCaps = conf.caps
        BY <1>0, <2>2, <3>1
      <4>2. CarrierCapabilities = Carrier(conf.mode, conf.caps)
        BY DEF Carrier, CarrierCapabilities
      <4>3. ulp' \in Known(conf.mode, TrueCaps)
        BY <4>1, <4>2 DEF Known
      <4> QED
        BY <2>3, <4>3
    <3>2. CASE x # "mode"
      BY <1>0, <1>3, <1>4, <1>5, <1>8, <2>1, <2>3, <3>2 DEF CapsFit
    <3> QED
      BY <3>1, <3>2
  <2>10. nifs' # {} => (("agnss" \in nifs') = Capable)
    <3>1. CASE x = "nif"
      <4>1. ("MSB" \in conf.caps) = Capable
        BY <2>1, <2>2, <3>1 DEF CapsFit
      <4>2. Capable \in BOOLEAN
        BY ConfigAssumption
      <4>3. nifs # {} => (("agnss" \in nifs) = Capable)
        BY <2>1 DEF CapsFit
      <4> QED
        BY <1>0, <3>1, <4>1, <4>2, <4>3
    <3>2. CASE x # "nif"
      BY <1>0, <2>1, <3>2 DEF CapsFit
    <3> QED
      BY <3>1, <3>2
  <2>11. ("MSB" \in TrueCaps') = Capable
    BY <2>1, <2>3 DEF CapsFit
  <2> QED
    BY <2>3, <2>6, <2>7, <2>8, <2>9, <2>10, <2>11, Zenon DEF CapsFit
<1> QED
  BY <1>10, <1>11, <1>12, <1>13, <1>14, <1>15, <1>16, <1>17 DEF ConfigIInv

\* A reinit reads a setting.
LEMMA ReadFits ==
  ASSUME ConfigIInv, ReadSetting
  PROVE  ConfigIInv'
<1> DEFINE m == <<>>
           h == Head(job)
           skips == h \in Types /\ servers[h] = None
<1>0. /\ ConfigTypes /\ job # <<>> /\ h \in Settings /\ held = None /\ queue' = queue
      /\ job' = (IF skips THEN Tail(job) ELSE job)
      /\ held' = (IF skips THEN None ELSE Set(h, Current(h)))
      /\ starting' = starting /\ adapter' = adapter /\ linked' = linked /\ up' = up /\ crashes' = crashes
      /\ modem' = modem /\ servers' = servers /\ conf' = conf /\ update' = update
      /\ available' = available /\ agps' = agps /\ nifs' = nifs /\ vote' = vote
      /\ told' = told /\ ulp' = ulp /\ asked' = asked /\ passed' = passed /\ disturbed' = disturbed
  <2>1. /\ job' = (IF skips THEN Tail(job) ELSE job)
        /\ held' = (IF skips THEN None ELSE Set(h, Current(h)))
    BY DEF ReadSetting
  <2>2. job # <<>> /\ h \in Settings /\ held = None /\ queue' = queue
    BY DEF ReadSetting
  <2> HIDE DEF skips, h
  <2> QED
    BY <2>1, <2>2 DEF ConfigIInv, ReadSetting, engine, settings, link, knowledge, bounds, history
<1>1. m \in Seq(Msgs) /\ (\A x : ~Has(m, x)) /\ queue' = queue \o m
  BY <1>0, NonePosted, Typed
<1> HIDE DEF m
<1>2. /\ Tail(job) \in Seq(Items) /\ h = job[1]
      /\ \A x : In(x, job) <=> h = x \/ In(x, Tail(job))
      /\ (\A i \in DOMAIN job : job[i] = "agps" => i = Len(job))
           => \A i \in DOMAIN Tail(job) : Tail(job)[i] = "agps" => i = Len(Tail(job))
  BY <1>0, Typed, GoneOn
<1>a. /\ \A x : In(x, job') => In(x, job)
      /\ \A x : In(x, job) => In(x, job') \/ (skips /\ x = h)
      /\ h \notin {"gnss", "agps"} /\ job' \in Seq(Items)
  <2>1. h \notin {"gnss", "agps"}
    BY <1>0, Names DEF Orders
  <2>2. (job' = Tail(job) /\ skips) \/ job' = job
    BY <1>0
  <2> HIDE DEF h, skips
  <2> QED
    BY <1>0, <1>2, <2>1, <2>2, Typed
<1>b. adapter
  BY <1>0 DEF ConfigIInv, NothingBefore
<1>c. skips \/ (held' = Set(h, Current(h)) /\ job' = job)
  BY <1>0
<1>3. ConfigTypes'
  <2>1. held' = None \/ (held' = Set(h, Current(h)) /\ job' = job)
    BY <1>0
  <2>2. /\ Current(h) \in Values /\ Set(h, Current(h))[1] = h /\ Set(h, Current(h))[2] = Current(h)
    BY <1>0, Typed DEF Set
  <2>3. held' = None \/ held'[1] \in Settings
    BY <1>0, <2>1, <2>2
  <2>4. held' # None => /\ job' # <<>> /\ Head(job') \in Settings /\ held'[1] = Head(job')
                        /\ held' = Set(held'[1], held'[2]) /\ held'[2] \in Values
    BY <1>0, <2>1, <2>2
  <2> QED
    BY <1>0, <1>a, <2>3, <2>4 DEF ConfigTypes, ConfigTypeOK
<1>4. NothingBefore'
  BY <1>0, <1>b DEF ConfigIInv, NothingBefore
<1>5. LinkFits'
  BY <1>0, <1>1, <1>a, LinkPosts
<1>6. JobFits'
  <2>1. \A i \in DOMAIN job : job[i] = "agps" => i = Len(job)
    BY DEF ConfigIInv, JobFits
  <2>2. job' = Tail(job) \/ job' = job
    BY <1>0
  <2> QED
    BY <1>2, <2>1, <2>2 DEF JobFits
<1>7. NeverSet'
  <2> SUFFICES ASSUME NEW t \in Types, servers[t] = None
               PROVE  ~Has(queue', t) /\ modem'[t] = None /\ (held' = None \/ held'[1] # t)
    BY <1>0 DEF NeverSet
  <2>1. ~Has(queue, t) /\ modem[t] = None
    BY <1>b DEF ConfigIInv, NeverSet
  <2>2. CASE skips
    BY <1>0, <2>1, <2>2
  <2>3. CASE ~skips
    <3>1. h # t /\ held' = Set(h, Current(h))
      BY <1>0, <2>3
    <3> QED
      BY <1>0, <2>1, <3>1 DEF Set
  <2> QED
    BY <2>2, <2>3
<1>8. SettingsFit'
  <2> SUFFICES ASSUME NEW s \in passed, s \in Types => agps \/ crashes = 0
               PROVE  SettingFits(s)'
    BY <1>0 DEF SettingsFit
  <2>1. s \in Settings /\ SettingFits(s)
    BY <1>0, <1>b, Typed DEF ConfigIInv, SettingsFit
  <2>2. Current(s)' = Current(s) /\ (Written(s) => Written(s)')
    BY <1>0 DEF Current, Written
  <2>3. CASE skips /\ s = h
    <3>1. Current(s) = None
      BY <2>3, Names DEF Current, Orders
    <3>2. Ends(queue, modem, s, None)
      BY <1>b, <2>3, NeverEnds
    <3> QED
      BY <1>0, <2>2, <3>1, <3>2 DEF SettingFits
  <2>4. CASE ~(skips /\ s = h)
    <3>1. /\ In(s, job) => In(s, job')
          /\ s \in Types /\ In("agps", job) => In("agps", job')
      BY <1>a, <2>4
    <3> HIDE DEF skips, h
    <3> QED
      BY <1>0, <1>1, <2>1, <2>2, <3>1, SettingPosts
  <2> QED
    BY <2>3, <2>4
<1>9. LockFits'
  BY <1>0, <1>1, <1>a, LockPosts
<1>10. CapsFit'
  <2>1. In("caps", job') => In("caps", job) /\ (job[1] # "gnss" \/ job'[1] = "gnss" \/ Has(m, "gnss"))
    BY <1>2, <1>a
  <2> HIDE DEF h, skips
  <2> QED
    BY <1>0, <1>1, <2>1, CapsPosts
<1> QED
  BY <1>3, <1>4, <1>5, <1>6, <1>7, <1>8, <1>9, <1>10 DEF ConfigIInv

\* A reinit posts a setting.
LEMMA PostSettingFits ==
  ASSUME ConfigIInv, NEW r \in BOOLEAN, PostSetting(r)
  PROVE  ConfigIInv'
<1> DEFINE h == held[1]
           sends == h \in Types => Resolved(h, r)
           right == sends /\ held[2] = Current(h)
           m == IF sends THEN <<held>> ELSE <<>>
<1>0. /\ ConfigTypes /\ held # None /\ held' = None /\ job' = Tail(job)
      /\ queue' = (IF sends THEN queue \o <<held>> ELSE queue)
      /\ passed' = (IF right THEN passed \cup {h} ELSE passed \ {h})
      /\ starting' = starting /\ adapter' = adapter /\ linked' = linked /\ up' = up /\ crashes' = crashes
      /\ modem' = modem /\ servers' = servers /\ conf' = conf /\ update' = update
      /\ available' = available /\ agps' = agps /\ nifs' = nifs /\ vote' = vote
      /\ told' = told /\ ulp' = ulp /\ asked' = asked /\ disturbed' = disturbed
  <2>1. /\ queue' = (IF sends THEN queue \o <<held>> ELSE queue)
        /\ passed' = (IF right THEN passed \cup {h} ELSE passed \ {h})
    BY DEF PostSetting, Post, MarkPassed
  <2>2. held # None /\ held' = None /\ job' = Tail(job)
    BY DEF PostSetting
  <2> HIDE DEF sends, right
  <2> QED
    BY <2>1, <2>2 DEF ConfigIInv, PostSetting, engine, settings, link, knowledge, bounds
<1>1. /\ job # <<>> /\ h = Head(job) /\ h \in Settings
      /\ held = Set(h, held[2]) /\ held[2] \in Values
  BY <1>0 DEF ConfigTypes
<1> HIDE DEF sends, right
<1>2. /\ m \in Seq(Msgs) /\ (\A x : Has(m, x) => x = h) /\ (sends => Has(m, h))
      /\ \A i \in DOMAIN m : m[i][2] = held[2]
      /\ queue' = queue \o m
  <2>1. CASE sends
    <3>1. PICK v : v = held[2]
      OBVIOUS
    <3>2. h \in Settings \cup Orders /\ v \in Values
      BY <1>1, <3>1
    <3>3. m = <<Set(h, v)>>
      BY <1>1, <2>1, <3>1
    <3>4. /\ <<Set(h, v)>> \in Seq(Msgs)
          /\ \A x : Has(<<Set(h, v)>>, x) <=> x = h
          /\ \A i \in DOMAIN <<Set(h, v)>> : <<Set(h, v)>>[i][2] = v
      BY <3>2, OnePosted
    <3>5. queue' = queue \o m
      BY <1>0, <2>1
    <3> HIDE DEF m
    <3> QED
      BY <3>1, <3>3, <3>4, <3>5
  <2>2. CASE ~sends
    <3>1. m = <<>> /\ DOMAIN m = {}
      BY <2>2
    <3> QED
      BY <1>0, <2>2, <3>1, NonePosted, Typed
  <2> QED
    BY <2>1, <2>2
<1> HIDE DEF m
<1>3. /\ job' \in Seq(Items) /\ h = job[1]
      /\ \A x : In(x, job) <=> h = x \/ In(x, job')
      /\ (\A i \in DOMAIN job : job[i] = "agps" => i = Len(job))
           => \A i \in DOMAIN job' : job'[i] = "agps" => i = Len(job')
  <2>1. /\ Tail(job) \in Seq(Items) /\ Head(job) = job[1]
        /\ \A x : In(x, job) <=> Head(job) = x \/ In(x, Tail(job))
        /\ (\A i \in DOMAIN job : job[i] = "agps" => i = Len(job))
             => \A i \in DOMAIN Tail(job) : Tail(job)[i] = "agps" => i = Len(Tail(job))
    BY <1>0, <1>1, Typed, GoneOn
  <2> QED
    BY <1>0, <1>1, <2>1
<1> HIDE DEF h
<1>a. /\ \A x \in {"lock", "init", "open", "ssr", "up", "caps"} : ~Has(m, x)
      /\ h \notin {"gnss", "agps"}
  BY <1>1, <1>2, Names DEF Orders
<1>b. adapter
  BY <1>0 DEF ConfigIInv, NothingBefore
<1>4. ConfigTypes'
  <2>1. queue' \in Seq(Msgs)
    BY <1>0, <1>2, Typed, InConcat
  <2>2. passed' \subseteq Settings
    BY <1>0, <1>1, Typed
  <2> QED
    BY <1>0, <1>3, <2>1, <2>2 DEF ConfigTypes, ConfigTypeOK
<1>5. NothingBefore'
  BY <1>0, <1>b DEF ConfigIInv, NothingBefore
<1>6. LinkFits'
  BY <1>0, <1>2, <1>3, <1>a, LinkPosts
<1>7. JobFits'
  BY <1>3 DEF ConfigIInv, JobFits
<1>8. NeverSet'
  <2>1. \A t \in Types : servers'[t] = None => servers[t] = None /\ ~Has(m, t)
    <3>1. \A t \in Types : servers[t] = None => held[1] # t
      BY <1>0, <1>b DEF ConfigIInv, NeverSet
    <3> QED
      BY <1>0, <1>2, <3>1 DEF h
  <2> QED
    BY <1>0, <1>2, <2>1, NeverPosts
<1>9. SettingsFit'
  <2> SUFFICES ASSUME NEW s \in passed', s \in Types => agps \/ crashes = 0
               PROVE  SettingFits(s)'
    BY <1>0 DEF SettingsFit
  <2>0. Current(s)' = Current(s) /\ (Written(s) => Written(s)')
    BY <1>0 DEF Current, Written
  <2>1. CASE s = h
    <3>1. right
      BY <1>0, <2>1
    <3>2. Has(m, s) /\ held[2] = Current(s)
      BY <1>2, <2>1, <3>1 DEF right
    <3>3. \A i \in DOMAIN m : m[i][1] = s => m[i][2] = Current(s)'
      BY <1>2, <2>0, <3>2
    <3> QED
      BY <1>2, <3>2, <3>3, SettingPosted
  <2>2. CASE s # h
    <3>1. s \in passed
      BY <1>0, <2>2
    <3>2. s \in Settings /\ SettingFits(s)
      BY <1>0, <1>b, <3>1, Typed DEF ConfigIInv, SettingsFit
    <3>3. ~Has(m, s) /\ (In(s, job) => In(s, job')) /\ (In("agps", job) => In("agps", job'))
      BY <1>2, <1>3, <1>a, <2>2
    <3> QED
      BY <1>0, <1>2, <2>0, <3>2, <3>3, SettingPosts
  <2> QED
    BY <2>1, <2>2
<1>10. LockFits'
  BY <1>0, <1>2, <1>3, <1>a, LockPosts
<1>11. CapsFit'
  <2>1. In("caps", job') => In("caps", job) /\ (job[1] # "gnss" \/ job'[1] = "gnss" \/ Has(m, "gnss"))
    BY <1>3, <1>a
  <2> QED
    BY <1>0, <1>2, <1>a, <2>1, CapsPosts
<1> QED
  BY <1>4, <1>5, <1>6, <1>7, <1>8, <1>9, <1>10, <1>11 DEF ConfigIInv

\* The rest of a handler.
LEMMA ProceedFits ==
  ASSUME ConfigIInv, Proceed
  PROVE  ConfigIInv'
<1> DEFINE h == Head(job)
           posts == h \in {"gnss", "caps"}
           m == IF posts THEN <<Set(h, None)>> ELSE <<>>
<1>0. /\ ConfigTypes /\ job # <<>> /\ h \notin Settings
      /\ job' = (IF h = "agps" THEN (IF agps THEN SetToSeq(Types) ELSE <<>>) ELSE Tail(job))
      /\ queue' = (IF posts THEN queue \o <<Set(h, None)>> ELSE queue)
      /\ modem' = (IF h = "unlock" THEN Sent("lock", 1) ELSE modem)
      /\ starting' = starting /\ adapter' = adapter /\ linked' = linked /\ up' = up /\ crashes' = crashes
      /\ servers' = servers /\ conf' = conf /\ update' = update /\ held' = held
      /\ available' = available /\ agps' = agps /\ nifs' = nifs /\ vote' = vote
      /\ told' = told /\ ulp' = ulp /\ asked' = asked /\ passed' = passed /\ disturbed' = disturbed
  <2>1. /\ job # <<>> /\ h \notin Settings
        /\ job' = (IF h = "agps" THEN (IF agps THEN SetToSeq(Types) ELSE <<>>) ELSE Tail(job))
        /\ queue' = (IF posts THEN queue \o <<Set(h, None)>> ELSE queue)
        /\ modem' = (IF h = "unlock" THEN Sent("lock", 1) ELSE modem)
    BY DEF Proceed, Post
  <2> HIDE DEF h, posts
  <2> QED
    BY <2>1 DEF ConfigIInv, Proceed, engine, settings, knowledge, bounds, history
<1>1. /\ m \in Seq(Msgs) /\ (\A x : Has(m, x) => x = h) /\ (posts => Has(m, h)) /\ (~posts => m = <<>>)
      /\ (\A x : Has(m, x) => x \in {"gnss", "caps"})
      /\ queue' = queue \o m
  <2>1. CASE posts
    <3>1. h \in Settings \cup Orders /\ None \in Values
      BY <2>1 DEF Orders, Values
    <3>2. /\ <<Set(h, None)>> \in Seq(Msgs)
          /\ \A x : Has(<<Set(h, None)>>, x) <=> x = h
      BY <3>1, OnePosted
    <3>3. m = <<Set(h, None)>> /\ queue' = queue \o m
      BY <1>0, <2>1
    <3> HIDE DEF m
    <3> QED
      BY <2>1, <3>2, <3>3
  <2>2. CASE ~posts
    <3>1. m = <<>>
      BY <2>2
    <3> QED
      BY <1>0, <2>2, <3>1, NonePosted, Typed
  <2> QED
    BY <2>1, <2>2
<1> HIDE DEF m
<1>2. /\ Tail(job) \in Seq(Items) /\ h = job[1]
      /\ \A x : In(x, job) <=> h = x \/ In(x, Tail(job))
      /\ (\A i \in DOMAIN job : job[i] = "agps" => i = Len(job))
           => /\ \A i \in DOMAIN Tail(job) : Tail(job)[i] = "agps" => i = Len(Tail(job))
              /\ h = "agps" => Tail(job) = <<>>
  BY <1>0, Typed, GoneOn
<1>3. \A i \in DOMAIN job : job[i] = "agps" => i = Len(job)
  BY DEF ConfigIInv, JobFits
<1> HIDE DEF h, posts
<1>4. /\ SetToSeq(Types) \in Seq(Items)
      /\ \A t \in Types : In(t, SetToSeq(Types))
      /\ \A x : In(x, SetToSeq(Types)) => x \in Types
  <2>1. /\ SetToSeq(Types) \in Seq(Types)
        /\ \A x \in Types : In(x, SetToSeq(Types))
        /\ \A i \in DOMAIN SetToSeq(Types) : SetToSeq(Types)[i] \in Types
    BY SetInOrder, ConfigAssumption
  <2>2. PICK q : q = SetToSeq(Types)
    OBVIOUS
  <2>3. q \in Seq(Items)
    BY <2>1, <2>2 DEF Items, Settings
  <2> QED
    BY <2>1, <2>2, <2>3 DEF In
<1>5. /\ job' \in Seq(Items)
      /\ h # "agps" => job' = Tail(job)
      /\ h = "agps" => \A x : In(x, job') => x \in Types
      /\ h = "agps" /\ agps => \A t \in Types : In(t, job')
  <2>1. <<>> \in Seq(Items) /\ \A x : ~In(x, <<>>)
    BY DEF In
  <2>2. h # "agps" => job' = Tail(job)
    BY <1>0
  <2>3. h = "agps" /\ agps => job' = SetToSeq(Types)
    BY <1>0
  <2>4. h = "agps" /\ ~agps => job' = <<>>
    BY <1>0
  <2> QED
    BY <1>2, <1>4, <2>1, <2>2, <2>3, <2>4
<1>6. \A x \in {"agps", "unlock", "caps"} : In(x, job') => In(x, job) /\ h # "agps"
  <2>1. \A x \in {"agps", "unlock", "caps"} : x \notin Types
    BY Names DEF Orders
  <2> QED
    BY <1>2, <1>5, <2>1
<1>7. adapter /\ held = None
  BY <1>0 DEF ConfigIInv, NothingBefore, ConfigTypes, h
<1>8. /\ DOMAIN modem' = Settings \cup {"lock"}
      /\ \A s \in Settings : modem'[s] = modem[s]
      /\ h # "unlock" => modem' = modem
  <2>1. DOMAIN modem = Settings \cup {"lock"} /\ "lock" \notin Settings
    BY <1>0, Typed, Names DEF Orders
  <2> QED
    BY <1>0, <2>1 DEF Sent
<1>9. ConfigTypes'
  <2>1. queue' \in Seq(Msgs)
    BY <1>0, <1>1, Typed, InConcat
  <2> QED
    BY <1>0, <1>5, <1>7, <1>8, <2>1 DEF ConfigTypes, ConfigTypeOK
<1>10. NothingBefore'
  BY <1>0, <1>7 DEF ConfigIInv, NothingBefore
<1>11. LinkFits'
  <2>1. \A x \in {"open", "ssr", "up"} : ~Has(m, x)
    BY <1>1
  <2> QED
    BY <1>0, <1>1, <1>6, <2>1, LinkPosts
<1>12. JobFits'
  <2>1. CASE h = "agps"
    BY <1>6, <2>1 DEF JobFits, In
  <2>2. CASE h # "agps"
    BY <1>2, <1>3, <1>5, <2>2 DEF JobFits
  <2> QED
    BY <2>1, <2>2
<1>13. NeverSet'
  <2>1. \A t \in Types : ~Has(m, t) /\ modem'[t] = modem[t]
    BY <1>1, <1>8, Names DEF Orders, Settings
  <2> QED
    BY <1>0, <1>1, <2>1, NeverPosts
<1>14. SettingsFit'
  <2> SUFFICES ASSUME NEW s \in passed, s \in Types => agps \/ crashes = 0
               PROVE  SettingFits(s)'
    BY <1>0 DEF SettingsFit
  <2>1. s \in Settings /\ SettingFits(s)
    BY <1>0, <1>7, Typed DEF ConfigIInv, SettingsFit
  <2>2. Current(s)' = Current(s) /\ (Written(s) => Written(s)')
    BY <1>0 DEF Current, Written
  <2>3. ~Has(m, s) /\ modem'[s] = modem[s]
    BY <1>1, <1>8, <2>1, Names DEF Orders
  <2>4. CASE h = "agps" /\ s \in Types /\ In("agps", job)
    <3>1. crashes > 0
      BY <2>4 DEF ConfigIInv, LinkFits
    <3>2. agps
      BY <2>4, <3>1
    <3>3. In(s, job')
      BY <1>5, <2>4, <3>2
    <3> QED
      BY <3>3 DEF SettingFits
  <2>5. CASE ~(h = "agps" /\ s \in Types /\ In("agps", job))
    <3>1. In(s, job) => In(s, job')
      <4>1. CASE h = "agps"
        <5>1. Tail(job) = <<>> /\ ~In(s, <<>>)
          BY <1>2, <1>3, <4>1 DEF In
        <5> QED
          BY <1>0, <1>2, <2>1, <5>1 DEF h
      <4>2. CASE h # "agps"
        BY <1>0, <1>2, <1>5, <2>1, <4>2 DEF h
      <4> QED
        BY <4>1, <4>2
    <3>2. s \in Types /\ In("agps", job) => In("agps", job')
      BY <1>2, <1>5, <2>5
    <3> QED
      BY <1>0, <1>1, <2>1, <2>2, <2>3, <3>1, <3>2, SettingPosts
  <2> QED
    BY <2>4, <2>5
<1>15. LockFits'
  <2>0. ~Has(m, "init") /\ ~Has(m, "lock")
    BY <1>1
  <2>1. CASE h # "unlock"
    BY <1>0, <1>1, <1>6, <1>8, <2>0, <2>1, LockPosts
  <2>2. CASE h = "unlock"
    <3> SUFFICES ASSUME ~starting, crashes = 0 PROVE LockFits'
      BY <1>0 DEF LockFits
    <3> DEFINE w == IF vote THEN 0 ELSE conf.lock
    <3>1. m = <<>> /\ queue' = queue
      BY <1>0, <1>1, <2>2 DEF posts
    <3>2. In("unlock", job)
      BY <1>2, <2>2
    <3>3. /\ Has(queue, "lock") /\ Followed(queue, "init", "lock")
          /\ update.at = "written" \/ Ends(queue, modem, "lock", w)
      BY <1>7, <3>2 DEF ConfigIInv, LockFits
    <3> HIDE DEF w
    <3>4. update.at = "written" \/ Ends(queue, modem', "lock", w)
      BY <3>3, Zenon DEF Ends, Has
    <3>5. w = IF vote' THEN 0 ELSE conf'.lock
      BY <1>0 DEF w
    <3>6. update'.at = "written" \/ Ends(queue', modem', "lock", IF vote' THEN 0 ELSE conf'.lock)
      BY <1>0, <3>1, <3>4, <3>5, Zenon
    <3> QED
      BY <3>1, <3>3, <3>6, Zenon DEF LockFits
  <2> QED
    BY <2>1, <2>2
<1>16. CapsFit'
  <2> SUFFICES ASSUME ~disturbed PROVE CapsFit'
    BY <1>0 DEF CapsFit
  <2>1. CASE h # "caps"
    <3>1. ~Has(m, "caps")
      BY <1>1, <2>1
    <3>2. In("caps", job') => In("caps", job) /\ (job[1] # "gnss" \/ job'[1] = "gnss" \/ Has(m, "gnss"))
      BY <1>1, <1>2, <1>6 DEF posts
    <3> QED
      BY <1>0, <1>1, <3>1, <3>2, CapsPosts
  <2>2. CASE h = "caps"
    <3>1. queue \in Seq(Msgs) /\ CapsFit
      BY <1>0, Typed DEF ConfigIInv
    <3>2. /\ \A s : Has(queue', s) <=> Has(queue, s) \/ Has(m, s)
          /\ \A a, b : Preceded(queue, a, b) /\ (Has(queue, a) \/ ~Has(m, b)) => Preceded(queue', a, b)
      BY <1>1, <3>1, Posted
    <3>3. TrueCaps' = TrueCaps /\ Asked' = Asked
      BY <1>0 DEF TrueCaps, Asked
    <3>4. Known(conf'.mode, TrueCaps') = Known(conf.mode, TrueCaps)
      BY <1>0, <3>3
    <3>5. ASSUME ~Asked, crashes = 0
          PROVE  Preceded(queue', "gnss", "caps") /\ Has(queue', "gnss")
      <4>1. Preceded(queue, "gnss", "caps") /\ In("caps", job)
        BY <1>2, <1>7, <2>2, <3>1, <3>5 DEF CapsFit
      <4>2. Has(queue, "gnss")
        BY <1>2, <1>7, <2>2, <3>1, <3>5, <4>1 DEF CapsFit
      <4> QED
        BY <3>2, <4>1, <4>2
    <3>6. ~starting' => \/ ulp' \in Known(conf'.mode, TrueCaps')
                        \/ Has(queue', "mode")
                        \/ update'.at = "written" /\ update'.saved.mode # conf'.mode
      BY <1>0, <1>7, <3>1, <3>2, <3>4 DEF CapsFit
    <3>7. /\ ("MSB" \in TrueCaps') = Capable
          /\ "MEASUREMENTS" \in TrueCaps' => Measures
          /\ told' # None /\ crashes' = 0 => (("MEASUREMENTS" \in told') = Measures)
          /\ told' # None => (("MSB" \in told') = Capable)
          /\ nifs' # {} => (("agnss" \in nifs') = Capable)
      BY <1>0, <3>1, <3>3 DEF CapsFit
    <3>8. adapter' /\ crashes' = 0 /\ ~Asked' =>
            /\ Preceded(queue', "gnss", "caps")
            /\ In("caps", job') => Has(queue', "gnss") \/ job'[1] = "gnss"
      BY <1>0, <3>3, <3>5
    <3> QED
      BY <3>6, <3>7, <3>8, Zenon DEF CapsFit
  <2> QED
    BY <2>1, <2>2
<1> QED
  BY <1>9, <1>10, <1>11, <1>12, <1>13, <1>14, <1>15, <1>16 DEF ConfigIInv

\* The modem crashes: all it has been told will be told again.
LEMMA CrashFits ==
  ASSUME ConfigIInv, ModemCrashes
  PROVE  ConfigIInv'
<1>0. /\ ConfigTypes /\ adapter /\ crashes' = crashes + 1 /\ crashes \in Nat
      /\ ~up' /\ ~linked' /\ up' \in BOOLEAN /\ linked' \in BOOLEAN /\ modem' = Booted(modem["lock"])
      /\ queue' = queue /\ job' = job /\ held' = held /\ starting' = starting /\ adapter' = adapter
      /\ servers' = servers /\ conf' = conf /\ update' = update
      /\ available' = available /\ agps' = agps /\ nifs' = nifs /\ vote' = vote
      /\ told' = told /\ ulp' = ulp /\ asked' = asked /\ passed' = passed /\ disturbed' = disturbed
  BY DEF ConfigIInv, ConfigTypes, ModemCrashes, engine, settings, worker, knowledge, history
<1>1. crashes' > 0 /\ crashes' \in Nat
  BY <1>0
<1>2. ConfigTypes'
  BY <1>0, <1>1 DEF ConfigTypes, ConfigTypeOK, Booted
<1>3. NothingBefore'
  BY <1>0 DEF ConfigIInv, NothingBefore
<1>4. LinkFits'
  BY <1>0, <1>1 DEF ConfigIInv, LinkFits
<1>5. JobFits'
  BY <1>0 DEF ConfigIInv, JobFits
<1>6. NeverSet'
  <2>1. \A t \in Types : Booted(modem["lock"])[t] = None
    BY Names DEF Booted, Settings, Orders
  <2> QED
    BY <1>0, <2>1 DEF ConfigIInv, NeverSet
<1>7. SettingsFit'
  BY <1>0 DEF SettingsFit, SettingFits
<1>8. LockFits'
  BY <1>1 DEF LockFits
<1>9. CapsFit'
  <2>1. TrueCaps' = TrueCaps /\ Asked' = Asked
    BY <1>0 DEF TrueCaps, Asked
  <2>2. Known(conf'.mode, TrueCaps') = Known(conf.mode, TrueCaps)
    BY <1>0, <2>1
  <2>3. crashes' # 0
    BY <1>1
  <2> QED
    BY <1>0, <2>1, <2>2, <2>3, Zenon DEF ConfigIInv, CapsFit
<1> QED
  BY <1>2, <1>3, <1>4, <1>5, <1>6, <1>7, <1>8, <1>9 DEF ConfigIInv

\* The modem returns: the handle is negotiated, and a reinit follows.
LEMMA ReturnFits ==
  ASSUME ConfigIInv, ModemReturns
  PROVE  ConfigIInv'
<1> DEFINE m == <<Set("ssr", None), Set("up", None)>>
<1>0. /\ ConfigTypes /\ ~up /\ up' = TRUE /\ queue' = queue \o m
      /\ job' = job /\ held' = held /\ starting' = starting /\ adapter' = adapter
      /\ linked' = linked /\ modem' = modem /\ crashes' = crashes
      /\ servers' = servers /\ conf' = conf /\ update' = update
      /\ available' = available /\ agps' = agps /\ nifs' = nifs /\ vote' = vote
      /\ told' = told /\ ulp' = ulp /\ asked' = asked /\ passed' = passed /\ disturbed' = disturbed
  BY DEF ConfigIInv, ModemReturns, Post, engine, settings, knowledge, bounds, history
<1>1. /\ m \in Seq(Msgs) /\ (\A x : Has(m, x) <=> x \in {"ssr", "up"})
      /\ Followed(m, "ssr", "up")
  <2>1. Set("ssr", None) \in Msgs /\ Set("up", None) \in Msgs
    BY DEF Set, Msgs, Orders, Values
  <2>2. Set("ssr", None)[1] = "ssr" /\ Set("up", None)[1] = "up"
    BY DEF Set
  <2>3. \A a, b \in Msgs : /\ <<a, b>> \in Seq(Msgs)
                           /\ \A x : Has(<<a, b>>, x) <=> x \in {a[1], b[1]}
                           /\ \A x, y : (x = a[1] => y = b[1]) /\ x # b[1] => Followed(<<a, b>>, x, y)
    BY TwoPosted
  <2> QED
    BY <2>1, <2>2, <2>3
<1> HIDE DEF m
<1>2. queue \in Seq(Msgs) /\ LinkFits
  BY <1>0, Typed DEF ConfigIInv
<1>3. adapter /\ crashes > 0 /\ ~linked
  BY <1>0 DEF ConfigIInv, NothingBefore, LinkFits
<1>4. /\ queue' \in Seq(Msgs)
      /\ \A s : Has(queue', s) <=> Has(queue, s) \/ Has(m, s)
      /\ Followed(queue, "ssr", "up") /\ Followed(m, "ssr", "up") => Followed(queue', "ssr", "up")
      /\ OnlyFirst(queue, "open") /\ ~Has(m, "open") => OnlyFirst(queue', "open")
  BY <1>0, <1>1, <1>2, Posted
<1>5. ConfigTypes'
  BY <1>0, <1>4 DEF ConfigTypes, ConfigTypeOK
<1>6. NothingBefore'
  BY <1>0, <1>3 DEF ConfigIInv, NothingBefore
<1>7. LinkFits'
  <2>1. Followed(queue', "ssr", "up") /\ OnlyFirst(queue', "open") /\ Has(queue', "ssr")
    BY <1>1, <1>2, <1>4 DEF LinkFits
  <2>2. ~linked' /\ crashes' > 0
    BY <1>0, <1>3
  <2> QED
    BY <2>1, <2>2, Zenon DEF LinkFits
<1>8. JobFits'
  BY <1>0 DEF ConfigIInv, JobFits
<1>9. NeverSet'
  <2>1. \A t \in Types : ~Has(m, t)
    BY <1>1, Names DEF Orders
  <2> QED
    BY <1>0, <1>1, <2>1, NeverPosts
<1>10. SettingsFit'
  <2>1. Has(queue', "up")
    BY <1>1, <1>4
  <2> QED
    BY <2>1 DEF SettingsFit, SettingFits
<1>11. LockFits'
  BY <1>0, <1>3 DEF LockFits
<1>12. CapsFit'
  <2>1. ~Has(m, "caps")
    BY <1>1
  <2> QED
    BY <1>0, <1>1, <2>1, CapsPosts
<1> QED
  BY <1>5, <1>6, <1>7, <1>8, <1>9, <1>10, <1>11, <1>12 DEF ConfigIInv

-----------------------------------------------------------------------------
(* The theorems. *)

\* Nothing is set at first, and there is no engine.
LEMMA InitiallyFits ==
  ConfigInit => ConfigIInv
<1> SUFFICES ASSUME ConfigInit PROVE ConfigIInv
  OBVIOUS
<1>0. /\ ~adapter /\ ~starting /\ starting \in BOOLEAN /\ ~agps /\ nifs = {} /\ ~vote /\ adapter \in BOOLEAN /\ agps \in BOOLEAN
      /\ vote \in BOOLEAN /\ conf = Defaults /\ update = Idle /\ available = FALSE
      /\ servers = [t \in Types |-> None] /\ queue = <<>> /\ job = <<>> /\ held = None
      /\ modem = Booted(0) /\ up = TRUE /\ linked = FALSE
      /\ told = None /\ ulp = None /\ crashes = 0
      /\ asked = [t \in Types |-> None] /\ passed = Settings /\ disturbed = FALSE
  BY DEF ConfigInit
<1>1. conf \in Confs /\ conf.caps = IF Capable THEN {"MSB"} ELSE {}
  <2>1. (CHOOSE lock \in Locks : TRUE) \in Locks
    <3>1. \E lock \in Locks : TRUE
      BY ConfigAssumption
    <3> QED
      BY <3>1
  <2> QED
    BY <1>0, <2>1 DEF Confs, Defaults, Versions, Caps
<1>2. ConfigTypes
  <2>1. queue \in Seq(Msgs) /\ job \in Seq(Items)
    BY <1>0
  <2>2. update.at = "idle"
    BY <1>0 DEF Idle
  <2>3. DOMAIN modem = Settings \cup {"lock"}
    BY <1>0 DEF Booted
  <2> QED
    BY <1>0, <1>1, <2>1, <2>2, <2>3 DEF ConfigTypes, ConfigTypeOK
<1>3. NothingBefore
  BY <1>0 DEF NothingBefore
<1>4. LinkFits
  BY <1>0 DEF LinkFits, Has, In, OnlyFirst, Followed
<1>5. JobFits
  BY <1>0 DEF JobFits
<1>6. NeverSet /\ SettingsFit /\ LockFits
  BY <1>0 DEF NeverSet, SettingsFit, LockFits
<1>7. CapsFit
  <2>1. ("MSB" \in TrueCaps) = Capable /\ "MEASUREMENTS" \notin TrueCaps
    <3>1. TrueCaps = conf.caps /\ Capable \in BOOLEAN
      BY <1>0, ConfigAssumption DEF TrueCaps
    <3> QED
      BY <1>1, <3>1
  <2> QED
    BY <1>0, <2>1 DEF CapsFit
<1> QED
  BY <1>2, <1>3, <1>4, <1>5, <1>6, <1>7 DEF ConfigIInv

\* A step in which nothing happens.
LEMMA StutterFits ==
  ASSUME ConfigIInv, UNCHANGED vars
  PROVE  ConfigIInv'
<1>0. /\ queue' = queue /\ job' = job /\ held' = held /\ starting' = starting /\ adapter' = adapter
      /\ up' = up /\ linked' = linked /\ modem' = modem /\ crashes' = crashes
      /\ servers' = servers /\ conf' = conf /\ update' = update
      /\ available' = available /\ agps' = agps /\ nifs' = nifs /\ vote' = vote
      /\ told' = told /\ ulp' = ulp /\ asked' = asked /\ passed' = passed /\ disturbed' = disturbed
  BY DEF vars, engine, settings, worker, link, knowledge, bounds, history
<1>1. ConfigTypes'
  BY <1>0 DEF ConfigIInv, ConfigTypes, ConfigTypeOK
<1>2. NothingBefore' /\ LinkFits' /\ JobFits' /\ NeverSet'
  BY <1>0 DEF ConfigIInv, NothingBefore, LinkFits, JobFits, NeverSet
<1>3. SettingsFit'
  <2> SUFFICES ASSUME adapter, NEW s \in passed, s \in Types => agps \/ crashes = 0
               PROVE  SettingFits(s)'
    BY <1>0 DEF SettingsFit
  <2>1. SettingFits(s)
    BY DEF ConfigIInv, SettingsFit
  <2>2. Current(s)' = Current(s) /\ (Written(s) => Written(s)')
    BY <1>0 DEF Current, Written
  <2> QED
    BY <1>0, <2>1, <2>2, Zenon DEF SettingFits
<1>4. LockFits'
  BY <1>0 DEF ConfigIInv, LockFits
<1>5. CapsFit'
  <2>1. TrueCaps' = TrueCaps /\ Asked' = Asked
    BY <1>0 DEF TrueCaps, Asked
  <2>2. Known(conf'.mode, TrueCaps') = Known(conf.mode, TrueCaps)
    BY <1>0, <2>1
  <2> QED
    BY <1>0, <2>1, <2>2, Zenon DEF ConfigIInv, CapsFit
<1> QED
  BY <1>1, <1>2, <1>3, <1>4, <1>5 DEF ConfigIInv

\* Whatever the framework does and however often the modem restarts, each setting
\* is in the modem, or on its way, or due to be sent.
THEOREM ConfigAlwaysFits == ConfigSpec => []ConfigIInv
<1>1. ConfigIInv /\ [ConfigNext]_vars => ConfigIInv'
  <2> SUFFICES ASSUME ConfigIInv, [ConfigNext]_vars PROVE ConfigIInv'
    OBVIOUS
  <2>0. CASE LocInitEnds \/ LocInitAgain
    BY <2>0, InitFits
  <2>1. CASE LocInit
    BY <2>1, StartFits
  <2>2. CASE LocCleanup
    BY <2>2, CleanupFits
  <2>3. CASE ConfigUpdate
    <3>1. CASE \E params \in [Params -> Versions], mode \in Versions, lock \in Locks,
                  caps \in {conf.caps, {"MSB"}} : UpdateWrite(params, mode, lock, caps)
      BY <3>1, WriteFits
    <3>2. CASE UpdatePost
      BY <3>2, PostFits
    <3>3. CASE UpdateEnd
      BY <3>3, EndFits
    <3> QED
      BY <2>3, <3>1, <3>2, <3>3 DEF ConfigUpdate
  <2>4. CASE \E r \in BOOLEAN : AgpsInit(r)
    BY <2>4, AgpsFits
  <2>5. CASE \E t \in Types, h \in Hosts, r \in BOOLEAN : SetServer(t, h, r)
    BY <2>5, ServerFits
  <2>6. CASE \E on \in BOOLEAN, apn \in BOOLEAN : UpdateNetwork(on, apn)
    BY <2>6, NetworkFits
  <2>7. CASE LocEngThread
    <3>1. CASE Work
      BY <3>1, WorkFits
    <3>2. CASE ReadSetting
      BY <3>2, ReadFits
    <3>3. CASE Proceed
      BY <3>3, ProceedFits
    <3>4. CASE \E r \in BOOLEAN : PostSetting(r)
      BY <3>4, PostSettingFits
    <3> QED
      BY <2>7, <3>1, <3>2, <3>3, <3>4 DEF LocEngThread
  <2>8. CASE ModemCrashes
    BY <2>8, CrashFits
  <2>9. CASE ModemReturns
    BY <2>9, ReturnFits
  <2>10. CASE UNCHANGED vars
    BY <2>10, StutterFits
  <2> QED
    BY <2>0, <2>1, <2>2, <2>3, <2>4, <2>5, <2>6, <2>7, <2>8, <2>9, <2>10 DEF ConfigNext
<1> QED
  BY <1>1, InitiallyFits, PTL DEF ConfigSpec

\* Once all is quiet, the modem has each setting that the code passes on, after
\* any number of restarts.
THEOREM SettingsReach == ConfigSpec => []SettingsArrive
<1>1. ConfigIInv => SettingsArrive
  <2> SUFFICES ASSUME ConfigIInv, Quiet, NEW s \in passed, s \in Types => agps \/ crashes = 0
               PROVE  modem[s] = Current(s)
    BY DEF SettingsArrive
  <2>1. adapter /\ linked /\ queue = <<>> /\ job = <<>> /\ update = Idle
    BY DEF Quiet, Free
  <2>2. up /\ SettingFits(s)
    BY <2>1 DEF ConfigIInv, SettingsFit, LinkFits
  <2>3. /\ \A x : ~Has(queue, x)
        /\ \A x : ~In(x, job)
        /\ ~Written(s)
    BY <2>1 DEF Has, In, Written, Idle
  <2>4. Ends(queue, modem, s, Current(s))
    BY <2>2, <2>3 DEF SettingFits
  <2> QED
    BY <2>1, <2>4 DEF Ends
<1> QED
  BY <1>1, ConfigAlwaysFits, PTL

\* The types; the lock follows the use of the GPS; the capabilities that are told
\* and used are the modem's.
THEOREM ConfigSound == ConfigSpec => []ConfigInv
<1>1. ConfigIInv => ConfigInv
  <2> SUFFICES ASSUME ConfigIInv PROVE ConfigInv
    OBVIOUS
  <2>1. ConfigTypeOK
    BY DEF ConfigIInv, ConfigTypes
  <2>2. LockFollowsVote
    <3> SUFFICES ASSUME Quiet, crashes = 0
                 PROVE  modem["lock"] = (IF vote THEN 0 ELSE conf.lock)
      BY DEF LockFollowsVote
    <3>1. adapter /\ ~starting /\ queue = <<>> /\ update.at # "written"
      BY DEF Quiet, Free, Idle
    <3>2. Ends(queue, modem, "lock", IF vote THEN 0 ELSE conf.lock)
      BY <3>1, Zenon DEF ConfigIInv, LockFits
    <3> QED
      BY <3>1, <3>2 DEF Ends
  <2>3. CapabilitiesAreTrue
    <3> SUFFICES ASSUME ~disturbed PROVE CapabilitiesAreTrue
      BY DEF CapabilitiesAreTrue
    <3>1. CapsFit
      BY DEF ConfigIInv
    <3>2. Quiet => ulp \in {CarrierCapabilities, CarrierCapabilities \ {"MEASUREMENTS"}}
      <4> SUFFICES ASSUME Quiet
                   PROVE  ulp \in {CarrierCapabilities, CarrierCapabilities \ {"MEASUREMENTS"}}
        OBVIOUS
      <4>1. adapter /\ ~starting /\ queue = <<>> /\ update = Idle /\ update.at # "written"
        BY DEF Quiet, Free, Idle
      <4>2. ~Has(queue, "mode")
        BY <4>1 DEF Has
      <4>3. ulp \in Known(conf.mode, TrueCaps)
        BY <3>1, <4>1, <4>2 DEF CapsFit
      <4>4. TrueCaps = conf.caps
        BY <4>1 DEF TrueCaps
      <4>5. CarrierCapabilities = Carrier(conf.mode, conf.caps)
        BY DEF Carrier, CarrierCapabilities
      <4> QED
        BY <4>3, <4>4, <4>5 DEF Known
    <3> QED
      BY <3>1, <3>2 DEF CapsFit, CapabilitiesAreTrue
  <2> QED
    BY <2>1, <2>2, <2>3 DEF ConfigInv
<1> QED
  BY <1>1, ConfigAlwaysFits, PTL

=============================================================================
