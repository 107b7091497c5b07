--------------------------- MODULE OrgMemoryProofs ---------------------------
(***************************************************************************)
(* Theorems about OrgMemory, for any number of agents and commits, any     *)
(* lock time and any clock.                                                *)
(*                                                                         *)
(* Nothing an agent writes is changed or taken back, only moved: from its  *)
(* local commits to those a rebase has to replay, back again, and to the   *)
(* remote.  So the invariant says, of the set of all commits, what they    *)
(* said when they were made (CommitsInv, OwnPathInv, LockInv), of the      *)
(* sequences, that an author's commits stay in order (OrderInv) and that   *)
(* every commit replaces what the ones before it left (ChainInv), and of   *)
(* the locks, who may remove one (RemovalInv, HeldInv).  Under which       *)
(* conditions the lock excludes is said at OneHolder.                      *)
(***************************************************************************)
EXTENDS OrgMemory, SequenceTheorems, WellFoundedInduction, TLAPS

(* What is said of commits does not depend on whether they were replayed.  *)
Alike(c, d) ==
  /\ c.id = d.id /\ c.author = d.author /\ c.path = d.path /\ c.op = d.op
  /\ c.over = d.over /\ c.at = d.at /\ c.until = d.until

Elements(s) == {s[i] : i \in DOMAIN s}
Outbox(a) == local[a] \o todo[a]
Known == Elements(remote) \cup UNION {Elements(Outbox(a)) : a \in Agents}

(* K: the commits there are, n: how many were made, t: the time.           *)
CommitsInv(K, n, t) ==
  /\ \A c \in K :
       /\ c.id <= n /\ c.over < c.id /\ c.at <= t
       /\ c.path \in Agents => c.author = c.path /\ c.op = "put"
       /\ c.op = "remove" => c.path = Lock
  /\ \A c, d \in K : c.id = d.id => Alike(c, d)

(* A commit on an agent's own path replaces the one before on that path.   *)
OwnPathInv(K) ==
  /\ \A c, d \in K : c.path \in Agents /\ d.path = c.path /\ d.id < c.id => d.id <= c.over
  /\ \A c \in K : c.path \in Agents /\ c.over # 0 => \E d \in K : d.path = c.path /\ d.id = c.over

(* A lock was put over one that had expired.                               *)
LockInv(K) == \A c, d \in K :
  c.path = Lock /\ c.op = "put" /\ d.id = c.over => c.at >= d.until

(* An author's commits stand in the order they were made.                  *)
Ordered(s) == \A i, j \in DOMAIN s : i < j /\ s[i].author = s[j].author => s[i].id < s[j].id

(* Every commit replaces what the commits before it left of its path.      *)
Chained(s) == \A i \in DOMAIN s : s[i].over = Content(SubSeq(s, 1, i - 1), s[i].path)

OrderInv ==
  /\ Ordered(remote)
  /\ \A a \in Agents :
       /\ Ordered(Outbox(a))
       /\ \A d \in Elements(Outbox(a)) : d.author = a
       /\ \A c \in Elements(remote), d \in Elements(Outbox(a)) : c.author = a => c.id < d.id
       /\ \A i \in (base[a] + 1)..Len(remote) : remote[i].author # a

ChainInv == Chained(remote) /\ \A a \in Agents : Chained(Clone(a))

LastIsPut(s) == s # <<>> /\ s[Len(s)].op = "put"
PhaseInv == \A a \in Agents :
  /\ base[a] <= Len(remote)
  /\ phase[a] \in {"idle", "push", "pull", "unlock", "settle"} => todo[a] = <<>>
  /\ phase[a] \in {"push", "pull"} => LastIsPut(local[a])
  /\ phase[a] = "unlock" => local[a] # <<>> /\ Newest(a).op = "remove"
  /\ phase[a] = "replay" => LastIsPut(todo[a])
  /\ phase[a] = "conflict" => todo[a] # <<>>
  /\ phase[a] = "settle" => local[a] = <<>>

(* Who removes a lock put it there, is late, or has lost his own.          *)
Lost(a) == \E j \in Touching(remote, Lock) : TakesOut(j, a)
Justified(c) ==
  \/ \A d \in Known : d.id = c.over => d.author = c.author
  \/ c.at >= c.until
  \/ Lost(c.author)
RemovalInv == \A a \in Agents : \A c \in Elements(Outbox(a)) : c.op = "remove" => Justified(c)

(* Who believes to hold a lock has put one, and not removed it since.      *)
HeldInv == \A a \in Agents : held[a] # 0 => \E c \in Known :
  /\ c.author = a /\ c.path = Lock /\ c.op = "put" /\ c.until = held[a]
  /\ \A d \in Known : d.author = a /\ d.op = "remove" => d.id < c.id

OrgInv ==
  /\ TypeOK /\ PhaseInv
  /\ CommitsInv(Known, made, now) /\ OwnPathInv(Known) /\ LockInv(Known)
  /\ OrderInv /\ ChainInv
  /\ RemovalInv /\ HeldInv
  /\ LockHistoryHonest /\ ConflictsOnlyOnSharedPaths
-----------------------------------------------------------------------------
LEMMA CommitFields ==
  ASSUME NEW c \in Commits
  PROVE  /\ c.id \in Nat /\ c.id # 0 /\ c.id <= MaxCommits /\ c.over \in Nat
         /\ c.author \in Agents /\ c.path \in Paths /\ c.op \in {"put", "remove"}
         /\ c.at \in Nat /\ c.until \in Nat
BY OrgMemoryAssumption DEF Commits

(* Sequences: prefixes, elements, and sequences without one element.       *)
LEMMA Prefix ==
  ASSUME NEW S, NEW s \in Seq(S), NEW n \in 0..Len(s)
  PROVE  /\ SubSeq(s, 1, n) \in Seq(S) /\ Len(SubSeq(s, 1, n)) = n
         /\ \A i \in 1..n : SubSeq(s, 1, n)[i] = s[i]
<1>1. Len(s) \in Nat /\ n \in Int /\ n >= 0  BY LenProperties
<1>2. \A i \in 1..n : s[i] \in S  BY <1>1, ElementOfSeq
<1>3. /\ SubSeq(s, 1, n) \in Seq(S)
      /\ Len(SubSeq(s, 1, n)) = IF 1 <= n THEN n - 1 + 1 ELSE 0
      /\ \A i \in 1..(n - 1 + 1) : SubSeq(s, 1, n)[i] = s[1 + i - 1]
  BY <1>1, <1>2, SubSeqProperties
<1> QED  BY <1>1, <1>3

LEMMA PrefixOfConcat ==
  ASSUME NEW S, NEW s \in Seq(S), NEW t \in Seq(S), NEW n \in 0..Len(s)
  PROVE  SubSeq(s \o t, 1, n) = SubSeq(s, 1, n)
<1>1. Len(s) \in Nat /\ Len(t) \in Nat  BY LenProperties
<1>2. /\ s \o t \in Seq(S) /\ n \in 0..Len(s \o t)
      /\ \A i \in 1..n : (s \o t)[i] = s[i]
  BY <1>1, ConcatProperties
<1>3. /\ SubSeq(s \o t, 1, n) \in Seq(S) /\ Len(SubSeq(s \o t, 1, n)) = n
      /\ \A i \in 1..n : SubSeq(s \o t, 1, n)[i] = (s \o t)[i]
  BY <1>2, Prefix
<1>4. /\ SubSeq(s, 1, n) \in Seq(S) /\ Len(SubSeq(s, 1, n)) = n
      /\ \A i \in 1..n : SubSeq(s, 1, n)[i] = s[i]
  BY Prefix
<1> QED  BY <1>2, <1>3, <1>4, SeqEqual

LEMMA PrefixOfPrefix ==
  ASSUME NEW S, NEW s \in Seq(S), NEW n \in 0..Len(s), NEW m \in 0..n
  PROVE  SubSeq(SubSeq(s, 1, n), 1, m) = SubSeq(s, 1, m)
<1>1. Len(s) \in Nat  BY LenProperties
<1>2. /\ SubSeq(s, 1, n) \in Seq(S) /\ Len(SubSeq(s, 1, n)) = n
      /\ \A i \in 1..n : SubSeq(s, 1, n)[i] = s[i]
  BY Prefix
<1>3. m \in 0..Len(SubSeq(s, 1, n)) /\ m \in 0..Len(s)  BY <1>1, <1>2
<1>4. /\ SubSeq(SubSeq(s, 1, n), 1, m) \in Seq(S)
      /\ Len(SubSeq(SubSeq(s, 1, n), 1, m)) = m
      /\ \A i \in 1..m : SubSeq(SubSeq(s, 1, n), 1, m)[i] = SubSeq(s, 1, n)[i]
  BY <1>2, <1>3, Prefix
<1>5. /\ SubSeq(s, 1, m) \in Seq(S) /\ Len(SubSeq(s, 1, m)) = m
      /\ \A i \in 1..m : SubSeq(s, 1, m)[i] = s[i]
  BY <1>3, Prefix
<1>6. \A i \in 1..m : i \in 1..n  BY <1>1
<1> QED  BY <1>2, <1>4, <1>5, <1>6, SeqEqual

LEMMA ElementsOf ==
  ASSUME NEW S, NEW s \in Seq(S)
  PROVE  /\ Len(s) \in Nat /\ DOMAIN s = 1..Len(s)
         /\ Elements(s) = {s[i] : i \in 1..Len(s)} /\ Elements(s) \subseteq S
<1>1. Len(s) \in Nat /\ DOMAIN s = 1..Len(s)  BY LenProperties
<1>2. \A i \in 1..Len(s) : s[i] \in S  BY ElementOfSeq
<1> QED  BY <1>1, <1>2 DEF Elements

LEMMA ElementsConcat ==
  ASSUME NEW S, NEW s \in Seq(S), NEW t \in Seq(S)
  PROVE  Elements(s \o t) = Elements(s) \cup Elements(t)
<1>1. Len(s) \in Nat /\ Len(t) \in Nat  BY LenProperties
<1>2. /\ s \o t \in Seq(S) /\ Len(s \o t) = Len(s) + Len(t)
      /\ \A i \in 1..(Len(s) + Len(t)) :
           (s \o t)[i] = IF i <= Len(s) THEN s[i] ELSE t[i - Len(s)]
  BY ConcatProperties
<1>3. Elements(s \o t) = {(s \o t)[i] : i \in 1..(Len(s) + Len(t))}  BY <1>2, ElementsOf
<1>4. Elements(s) = {s[i] : i \in 1..Len(s)} /\ Elements(t) = {t[i] : i \in 1..Len(t)}
  BY ElementsOf
<1>5. ASSUME NEW e \in Elements(s) PROVE e \in Elements(s \o t)
  <2>1. PICK i \in 1..Len(s) : e = s[i]  BY <1>4, <1>5
  <2>2. i \in 1..(Len(s) + Len(t)) /\ (s \o t)[i] = s[i]  BY <1>1, <1>2
  <2> QED  BY <2>1, <2>2, <1>3
<1>6. ASSUME NEW e \in Elements(t) PROVE e \in Elements(s \o t)
  <2>1. PICK i \in 1..Len(t) : e = t[i]  BY <1>4, <1>6
  <2>2. Len(s) + i \in 1..(Len(s) + Len(t)) /\ (s \o t)[Len(s) + i] = t[i]  BY <1>1, <1>2
  <2> QED  BY <2>1, <2>2, <1>3
<1>7. ASSUME NEW e \in Elements(s \o t) PROVE e \in Elements(s) \cup Elements(t)
  <2>1. PICK i \in 1..(Len(s) + Len(t)) : e = (s \o t)[i]  BY <1>3, <1>7
  <2>2. CASE i <= Len(s)
    <3>1. i \in 1..Len(s)  BY <1>1, <2>2
    <3> QED  BY <1>2, <1>4, <2>1, <2>2, <3>1
  <2>3. CASE ~(i <= Len(s))
    <3>1. i - Len(s) \in 1..Len(t)  BY <1>1, <2>3
    <3> QED  BY <1>2, <1>4, <2>1, <2>3, <3>1
  <2> QED  BY <2>2, <2>3
<1> QED  BY <1>5, <1>6, <1>7

LEMMA ElementsSingle == ASSUME NEW S, NEW e \in S PROVE Elements(<<e>>) = {e} /\ <<e>> \in Seq(S)
BY DEF Elements

LEMMA ElementsEmpty == Elements(<<>>) = {}
BY DEF Elements

LEMMA ElementsAppend ==
  ASSUME NEW S, NEW s \in Seq(S), NEW e \in S
  PROVE  Elements(Append(s, e)) = Elements(s) \cup {e}
<1>1. Append(s, e) = s \o <<e>>  BY AppendIsConcat
<1>2. <<e>> \in Seq(S) /\ Elements(<<e>>) = {e}  BY ElementsSingle
<1>3. Elements(s \o <<e>>) = Elements(s) \cup Elements(<<e>>)  BY <1>2, ElementsConcat
<1> QED  BY <1>1, <1>2, <1>3

LEMMA HeadFirst ==
  ASSUME NEW S, NEW s \in Seq(S), s # <<>>
  PROVE  /\ Head(s) \in S /\ Tail(s) \in Seq(S) /\ Len(s) >= 1 /\ Head(s) = s[1]
         /\ Len(Tail(s)) = Len(s) - 1 /\ \A i \in 1..Len(Tail(s)) : Tail(s)[i] = s[i + 1]
         /\ s = <<Head(s)>> \o Tail(s)
         /\ Elements(s) = {Head(s)} \cup Elements(Tail(s))
<1>1. /\ Head(s) \in S /\ Tail(s) \in Seq(S) /\ Len(Tail(s)) = Len(s) - 1
      /\ \A i \in 1..Len(Tail(s)) : Tail(s)[i] = s[i + 1]
  BY HeadTailProperties
<1>2. Len(s) \in Nat \ {0} /\ Head(s) = s[1]  BY EmptySeq
<1>3. <<Head(s)>> \in Seq(S) /\ Len(<<Head(s)>>) = 1 /\ <<Head(s)>>[1] = Head(s)  BY <1>1
<1>4. /\ <<Head(s)>> \o Tail(s) \in Seq(S)
      /\ Len(<<Head(s)>> \o Tail(s)) = 1 + (Len(s) - 1)
      /\ \A i \in 1..(1 + (Len(s) - 1)) : (<<Head(s)>> \o Tail(s))[i] =
           IF i <= 1 THEN <<Head(s)>>[i] ELSE Tail(s)[i - 1]
  BY <1>1, <1>3, ConcatProperties
<1>5. \A i \in 1..Len(s) : (<<Head(s)>> \o Tail(s))[i] = s[i]
  <2>1. TAKE i \in 1..Len(s)
  <2>2. i \in 1..(1 + (Len(s) - 1))  BY <1>2
  <2>3. CASE i <= 1  BY <1>2, <1>3, <1>4, <2>2, <2>3
  <2>4. CASE ~(i <= 1)
    <3>1. i - 1 \in 1..Len(Tail(s)) /\ (i - 1) + 1 = i  BY <1>1, <1>2, <2>4
    <3>2. Tail(s)[i - 1] = s[(i - 1) + 1]  BY <1>1, <3>1
    <3> QED  BY <1>4, <2>2, <2>4, <3>1, <3>2
  <2> QED  BY <2>3, <2>4
<1>6. s = <<Head(s)>> \o Tail(s)
  <2>1. Len(<<Head(s)>> \o Tail(s)) = Len(s)  BY <1>2, <1>4
  <2> QED  BY <1>4, <1>5, <2>1, SeqEqual
<1>7. Elements(s) = {Head(s)} \cup Elements(Tail(s))
  <2>1. Elements(<<Head(s)>>) = {Head(s)}  BY <1>1, ElementsSingle
  <2>2. Elements(<<Head(s)>> \o Tail(s)) = Elements(<<Head(s)>>) \cup Elements(Tail(s))
    BY <1>1, <1>3, ElementsConcat
  <2> QED  BY <1>6, <2>1, <2>2
<1> QED  BY <1>1, <1>2, <1>6, <1>7
-----------------------------------------------------------------------------
(* The last commit on a path, and what it leaves.                          *)
LEMMA Least == ASSUME NEW T, T \subseteq Nat, T # {} PROVE \E x \in T : \A y \in T : x <= y
<1> DEFINE R == {ss \in Nat \X Nat : ss[1] < ss[2]}
<1>1. IsWellFoundedOn(R, Nat)  BY NatLessThanWellFounded DEF OpToRel
<1>2. PICK x \in T : \A y \in T : ~(<<y, x>> \in R)
  <2> HIDE DEF R
  <2> QED  BY <1>1, WFMin
<1>3. \A y \in T : ~(y < x)  BY <1>2
<1> QED  BY <1>2, <1>3

LEMMA LastOf ==
  ASSUME NEW h \in Seq(Commits), NEW p, Touching(h, p) # {}
  PROVE  Last(h, p) \in Touching(h, p) /\ \A j \in Touching(h, p) : j <= Last(h, p)
<1>1. Len(h) \in Nat /\ DOMAIN h = 1..Len(h)  BY LenProperties
<1>2. Touching(h, p) \subseteq 1..Len(h)  BY <1>1 DEF Touching
<1> DEFINE T == {k \in 0..Len(h) : Len(h) - k \in Touching(h, p)}
<1>3. T # {} /\ T \subseteq Nat
  <2>1. PICK i \in Touching(h, p) : TRUE  OBVIOUS
  <2>2. Len(h) - i \in 0..Len(h) /\ Len(h) - (Len(h) - i) = i  BY <1>1, <1>2, <2>1
  <2> QED  BY <1>1, <2>1, <2>2
<1>4. PICK x \in T : \A y \in T : x <= y
  <2> HIDE DEF T
  <2> QED  BY <1>3, Least
<1>5. \A j \in Touching(h, p) : j <= Len(h) - x
  <2>1. TAKE j \in Touching(h, p)
  <2>2. j \in 1..Len(h)  BY <1>2
  <2>3. Len(h) - j \in 0..Len(h) /\ Len(h) - (Len(h) - j) = j  BY <1>1, <2>2
  <2>4. Len(h) - j \in T  BY <2>1, <2>3
  <2>5. x <= Len(h) - j  BY <1>4, <2>4
  <2> QED  BY <1>1, <2>2, <2>5
<1>6. Len(h) - x \in Touching(h, p)  BY <1>4
<1> QED  BY <1>5, <1>6 DEF Last

LEMMA LastIs ==
  ASSUME NEW h \in Seq(Commits), NEW p, NEW i \in Touching(h, p),
         \A j \in Touching(h, p) : j <= i
  PROVE  Last(h, p) = i
<1>1. Len(h) \in Nat /\ DOMAIN h = 1..Len(h)  BY LenProperties
<1>2. Touching(h, p) \subseteq Nat  BY <1>1 DEF Touching
<1>3. Last(h, p) \in Touching(h, p) /\ \A j \in Touching(h, p) : j <= Last(h, p)  BY LastOf
<1> QED  BY <1>2, <1>3

(* What a path holds is 0, or the id of a commit that put it.              *)
LEMMA ContentOf ==
  ASSUME NEW h \in Seq(Commits), NEW p
  PROVE  \/ ~Exists(h, p) /\ Content(h, p) = 0
         \/ /\ Exists(h, p) /\ Content(h, p) # 0
            /\ Last(h, p) \in 1..Len(h) /\ h[Last(h, p)] \in Elements(h)
            /\ h[Last(h, p)].path = p /\ h[Last(h, p)].op = "put"
            /\ Content(h, p) = h[Last(h, p)].id
<1>1. CASE ~Exists(h, p)  BY <1>1 DEF Content
<1>2. CASE Exists(h, p)
  <2>1. Touching(h, p) # {} /\ h[Last(h, p)].op = "put" /\ Content(h, p) = h[Last(h, p)].id
    BY <1>2 DEF Exists, Content
  <2>2. Last(h, p) \in Touching(h, p)  BY <2>1, LastOf
  <2>3. Last(h, p) \in 1..Len(h) /\ h[Last(h, p)].path = p  BY <2>2, LenProperties DEF Touching
  <2>4. h[Last(h, p)] \in Commits  BY <2>3, ElementOfSeq
  <2>5. h[Last(h, p)].id # 0  BY <2>4, OrgMemoryAssumption DEF Commits
  <2>6. h[Last(h, p)] \in Elements(h)  BY <2>3, ElementsOf
  <2> QED  BY <1>2, <2>1, <2>3, <2>5, <2>6
<1> QED  BY <1>1, <1>2

LEMMA ContentTyped ==
  ASSUME NEW h \in Seq(Commits), NEW p PROVE Content(h, p) \in 0..MaxCommits
<1>1. CASE Content(h, p) = 0  BY <1>1, OrgMemoryAssumption
<1>2. CASE Content(h, p) # 0
  <2>1. h[Last(h, p)] \in Elements(h) /\ Content(h, p) = h[Last(h, p)].id  BY <1>2, ContentOf
  <2>2. h[Last(h, p)] \in Commits  BY <2>1, ElementsOf
  <2> QED  BY <2>1, <2>2, OrgMemoryAssumption DEF Commits
<1> QED  BY <1>1, <1>2

LEMMA ChainedAppend ==
  ASSUME NEW h \in Seq(Commits), NEW c \in Commits, Chained(h), c.over = Content(h, c.path)
  PROVE  Chained(Append(h, c))
<1>1. Len(h) \in Nat /\ DOMAIN h = 1..Len(h)  BY LenProperties
<1>2. /\ Append(h, c) \in Seq(Commits) /\ Len(Append(h, c)) = Len(h) + 1
      /\ \A i \in 1..Len(h) : Append(h, c)[i] = h[i]
      /\ Append(h, c)[Len(h) + 1] = c
  BY AppendProperties
<1>3. DOMAIN Append(h, c) = 1..(Len(h) + 1)  BY <1>2, LenProperties
<1>4. <<c>> \in Seq(Commits) /\ Append(h, c) = h \o <<c>>  BY ElementsSingle, AppendIsConcat
<1>5. \A n \in 0..Len(h) : SubSeq(Append(h, c), 1, n) = SubSeq(h, 1, n)
  BY <1>4, PrefixOfConcat
<1>6. SUFFICES ASSUME NEW i \in 1..(Len(h) + 1)
               PROVE  Append(h, c)[i].over = Content(SubSeq(Append(h, c), 1, i - 1), Append(h, c)[i].path)
  BY <1>3 DEF Chained
<1>7. i - 1 \in 0..Len(h)  BY <1>1
<1>8. SubSeq(Append(h, c), 1, i - 1) = SubSeq(h, 1, i - 1)  BY <1>5, <1>7
<1>9. CASE i <= Len(h)
  <2>1. i \in 1..Len(h)  BY <1>1, <1>9
  <2>2. h[i].over = Content(SubSeq(h, 1, i - 1), h[i].path)  BY <1>1, <2>1 DEF Chained
  <2> QED  BY <1>2, <1>8, <2>1, <2>2
<1>10. CASE i = Len(h) + 1
  <2>1. i - 1 = Len(h)  BY <1>1, <1>10
  <2>2. SubSeq(h, 1, Len(h)) = h  BY SubSeqFull
  <2>3. SubSeq(Append(h, c), 1, i - 1) = h  BY <1>8, <2>1, <2>2
  <2> QED  BY <1>2, <1>10, <2>3
<1> QED  BY <1>1, <1>9, <1>10

LEMMA ChainedPrefix ==
  ASSUME NEW h \in Seq(Commits), NEW n \in 0..Len(h), Chained(h)
  PROVE  Chained(SubSeq(h, 1, n))
<1>1. Len(h) \in Nat /\ DOMAIN h = 1..Len(h)  BY LenProperties
<1>2. /\ SubSeq(h, 1, n) \in Seq(Commits) /\ Len(SubSeq(h, 1, n)) = n
      /\ \A i \in 1..n : SubSeq(h, 1, n)[i] = h[i]
  BY Prefix
<1>3. DOMAIN SubSeq(h, 1, n) = 1..n  BY <1>2, LenProperties
<1>4. SUFFICES ASSUME NEW i \in 1..n
               PROVE  SubSeq(h, 1, n)[i].over
                      = Content(SubSeq(SubSeq(h, 1, n), 1, i - 1), SubSeq(h, 1, n)[i].path)
  BY <1>3 DEF Chained
<1>5. i \in 1..Len(h) /\ i - 1 \in 0..n  BY <1>1
<1>6. SubSeq(SubSeq(h, 1, n), 1, i - 1) = SubSeq(h, 1, i - 1)  BY <1>5, PrefixOfPrefix
<1>7. h[i].over = Content(SubSeq(h, 1, i - 1), h[i].path)  BY <1>1, <1>5 DEF Chained
<1> QED  BY <1>2, <1>6, <1>7
-----------------------------------------------------------------------------
(* The order of an author's commits.                                       *)
LEMMA OrderedConcat ==
  ASSUME NEW s \in Seq(Commits), NEW t \in Seq(Commits), Ordered(s), Ordered(t),
         \A c \in Elements(s), d \in Elements(t) : c.author = d.author => c.id < d.id
  PROVE  Ordered(s \o t)
<1>1. /\ Len(s) \in Nat /\ DOMAIN s = 1..Len(s) /\ Len(t) \in Nat /\ DOMAIN t = 1..Len(t)
      /\ Elements(s) = {s[i] : i \in 1..Len(s)} /\ Elements(t) = {t[i] : i \in 1..Len(t)}
  BY ElementsOf
<1>2. /\ s \o t \in Seq(Commits) /\ Len(s \o t) = Len(s) + Len(t)
      /\ \A i \in 1..(Len(s) + Len(t)) :
           (s \o t)[i] = IF i <= Len(s) THEN s[i] ELSE t[i - Len(s)]
  BY ConcatProperties
<1>3. DOMAIN (s \o t) = 1..(Len(s) + Len(t))  BY <1>2, LenProperties
<1> SUFFICES ASSUME NEW i \in 1..(Len(s) + Len(t)), NEW j \in 1..(Len(s) + Len(t)),
                    i < j, (s \o t)[i].author = (s \o t)[j].author
             PROVE  (s \o t)[i].id < (s \o t)[j].id
  BY <1>3 DEF Ordered
<1>4. CASE j <= Len(s)
  <2>1. i \in 1..Len(s) /\ j \in 1..Len(s) /\ i <= Len(s)  BY <1>1, <1>4
  <2>2. (s \o t)[i] = s[i] /\ (s \o t)[j] = s[j]  BY <1>2, <1>4, <2>1
  <2> QED  BY <1>1, <2>1, <2>2 DEF Ordered
<1>5. CASE i <= Len(s) /\ ~(j <= Len(s))
  <2>1. i \in 1..Len(s) /\ j - Len(s) \in 1..Len(t)  BY <1>1, <1>5
  <2>2. (s \o t)[i] = s[i] /\ (s \o t)[j] = t[j - Len(s)]  BY <1>2, <1>5
  <2> QED  BY <1>1, <2>1, <2>2
<1>6. CASE ~(i <= Len(s))
  <2>1. /\ i - Len(s) \in 1..Len(t) /\ j - Len(s) \in 1..Len(t)
        /\ i - Len(s) < j - Len(s) /\ ~(j <= Len(s))
    BY <1>1, <1>6
  <2>2. (s \o t)[i] = t[i - Len(s)] /\ (s \o t)[j] = t[j - Len(s)]  BY <1>2, <1>6, <2>1
  <2> QED  BY <1>1, <2>1, <2>2 DEF Ordered
<1> QED  BY <1>1, <1>4, <1>5, <1>6

LEMMA OrderedParts ==
  ASSUME NEW s \in Seq(Commits), NEW t \in Seq(Commits), Ordered(s \o t)
  PROVE  /\ Ordered(s) /\ Ordered(t)
         /\ \A c \in Elements(s), d \in Elements(t) : c.author = d.author => c.id < d.id
<1>1. /\ Len(s) \in Nat /\ DOMAIN s = 1..Len(s) /\ Len(t) \in Nat /\ DOMAIN t = 1..Len(t)
      /\ Elements(s) = {s[i] : i \in 1..Len(s)} /\ Elements(t) = {t[i] : i \in 1..Len(t)}
  BY ElementsOf
<1>2. /\ s \o t \in Seq(Commits) /\ Len(s \o t) = Len(s) + Len(t)
      /\ \A i \in 1..(Len(s) + Len(t)) :
           (s \o t)[i] = IF i <= Len(s) THEN s[i] ELSE t[i - Len(s)]
  BY ConcatProperties
<1>3. DOMAIN (s \o t) = 1..(Len(s) + Len(t))  BY <1>2, LenProperties
<1>4. \A i \in 1..Len(s) : i \in DOMAIN (s \o t) /\ (s \o t)[i] = s[i]  BY <1>1, <1>2, <1>3
<1>5. \A i \in 1..Len(t) : Len(s) + i \in DOMAIN (s \o t) /\ (s \o t)[Len(s) + i] = t[i]
  <2>1. TAKE i \in 1..Len(t)
  <2>2. /\ Len(s) + i \in 1..(Len(s) + Len(t)) /\ ~(Len(s) + i <= Len(s))
        /\ (Len(s) + i) - Len(s) = i
    BY <1>1
  <2> QED  BY <1>2, <1>3, <2>2
<1>6. Ordered(s)  BY <1>1, <1>4 DEF Ordered
<1>7. Ordered(t)
  <2> SUFFICES ASSUME NEW i \in 1..Len(t), NEW j \in 1..Len(t), i < j, t[i].author = t[j].author
               PROVE  t[i].id < t[j].id
    BY <1>1 DEF Ordered
  <2>1. Len(s) + i < Len(s) + j  BY <1>1
  <2> QED  BY <1>5, <2>1 DEF Ordered
<1>8. ASSUME NEW c \in Elements(s), NEW d \in Elements(t), c.author = d.author
      PROVE  c.id < d.id
  <2>1. PICK i \in 1..Len(s) : c = s[i]  BY <1>1
  <2>2. PICK j \in 1..Len(t) : d = t[j]  BY <1>1
  <2>3. i < Len(s) + j  BY <1>1
  <2> QED  BY <1>4, <1>5, <1>8, <2>1, <2>2, <2>3 DEF Ordered
<1> QED  BY <1>6, <1>7, <1>8

LEMMA OrderedPrefix ==
  ASSUME NEW h \in Seq(Commits), NEW n \in 0..Len(h), Ordered(h)
  PROVE  Ordered(SubSeq(h, 1, n)) /\ Elements(SubSeq(h, 1, n)) \subseteq Elements(h)
<1>1. Len(h) \in Nat /\ DOMAIN h = 1..Len(h) /\ Elements(h) = {h[i] : i \in 1..Len(h)}
  BY ElementsOf
<1>2. /\ SubSeq(h, 1, n) \in Seq(Commits) /\ Len(SubSeq(h, 1, n)) = n
      /\ \A i \in 1..n : SubSeq(h, 1, n)[i] = h[i]
  BY Prefix
<1>3. /\ DOMAIN SubSeq(h, 1, n) = 1..n
      /\ Elements(SubSeq(h, 1, n)) = {SubSeq(h, 1, n)[i] : i \in 1..n}
  BY <1>2, ElementsOf
<1>4. \A i \in 1..n : i \in 1..Len(h)  BY <1>1
<1> QED  BY <1>1, <1>2, <1>3, <1>4 DEF Ordered

(* On a path of its own an author's newest commit is the last.             *)
LEMMA NewestOnPath ==
  ASSUME NEW h \in Seq(Commits), Ordered(h), NEW p,
         \A c \in Elements(h) : c.path = p => c.author = p /\ c.op = "put"
  PROVE  /\ Content(h, p) # 0 => \E c \in Elements(h) : c.path = p /\ c.id = Content(h, p)
         /\ \A c \in Elements(h) : c.path = p => c.id <= Content(h, p)
<1>1. Content(h, p) # 0 => \E c \in Elements(h) : c.path = p /\ c.id = Content(h, p)
  BY ContentOf
<1>2. ASSUME NEW c \in Elements(h), c.path = p PROVE c.id <= Content(h, p)
  <2>1. /\ Len(h) \in Nat /\ DOMAIN h = 1..Len(h) /\ Elements(h) = {h[i] : i \in 1..Len(h)}
        /\ Elements(h) \subseteq Commits
    BY ElementsOf
  <2>2. PICK i \in 1..Len(h) : c = h[i]  BY <2>1
  <2>3. i \in Touching(h, p)  BY <1>2, <2>1, <2>2 DEF Touching
  <2> DEFINE l == Last(h, p)
  <2>4. l \in Touching(h, p) /\ i <= l  BY <2>3, LastOf
  <2>5. l \in 1..Len(h) /\ h[l].path = p  BY <2>1, <2>4 DEF Touching
  <2>6. h[l] \in Elements(h)  BY <2>1, <2>5
  <2>7. h[l].author = p /\ h[l].op = "put" /\ c.author = p  BY <1>2, <2>5, <2>6
  <2>8. Content(h, p) = h[l].id  BY <2>3, <2>7 DEF Exists, Content
  <2>9. c.id \in Nat /\ h[l].id \in Nat
    <3>1. c \in Commits /\ h[l] \in Commits  BY <2>1, <2>6
    <3> HIDE DEF l
    <3> QED  BY <3>1, CommitFields
  <2>10. CASE i = l  BY <2>2, <2>8, <2>9, <2>10
  <2>11. CASE i < l
    <3> HIDE DEF l
    <3>1. h[i].id < h[l].id  BY <2>1, <2>2, <2>5, <2>7, <2>11 DEF Ordered
    <3> QED  BY <2>2, <2>8, <2>9, <3>1
  <2>12. i = l \/ i < l
    <3> HIDE DEF l
    <3> QED  BY <2>1, <2>4, <2>5
  <2> QED  BY <2>10, <2>11, <2>12
<1> QED  BY <1>1, <1>2
-----------------------------------------------------------------------------
(* The set of all commits: what is renewed or added says what it should.   *)
Renewed(K, L) ==
  /\ \A c \in L : \E d \in K : Alike(c, d)
  /\ \A d \in K : d.op = "put" => \E c \in L : Alike(c, d)

LEMMA RenewedSelf == ASSUME NEW K PROVE Renewed(K, K)
BY DEF Renewed, Alike

LEMMA RenewedInv ==
  ASSUME NEW K, NEW L, K \subseteq Commits, L \subseteq Commits, Renewed(K, L),
         NEW n \in Nat, NEW m \in Nat, NEW t \in Nat, NEW u \in Nat, n <= m, t <= u,
         CommitsInv(K, n, t), OwnPathInv(K), LockInv(K)
  PROVE  CommitsInv(L, m, u) /\ OwnPathInv(L) /\ LockInv(L)
<1>1. \A c \in K \cup L : c.id \in Nat /\ c.over \in Nat /\ c.at \in Nat /\ c.until \in Nat
  BY CommitFields
<1>2. \A c \in L : \E d \in K : Alike(c, d)  BY DEF Renewed
<1>3. CommitsInv(L, m, u)
  <2>1. ASSUME NEW c \in L
        PROVE  /\ c.id <= m /\ c.over < c.id /\ c.at <= u
               /\ c.path \in Agents => c.author = c.path /\ c.op = "put"
               /\ c.op = "remove" => c.path = Lock
    <3>1. PICK d \in K : Alike(c, d)  BY <1>2
    <3>2. /\ d.id <= n /\ d.over < d.id /\ d.at <= t
          /\ d.path \in Agents => d.author = d.path /\ d.op = "put"
          /\ d.op = "remove" => d.path = Lock
      BY DEF CommitsInv
    <3> QED  BY <1>1, <3>1, <3>2 DEF Alike
  <2>2. ASSUME NEW c \in L, NEW d \in L, c.id = d.id PROVE Alike(c, d)
    <3>1. PICK c0 \in K : Alike(c, c0)  BY <1>2
    <3>2. PICK d0 \in K : Alike(d, d0)  BY <1>2
    <3>3. c0.id = d0.id  BY <2>2, <3>1, <3>2 DEF Alike
    <3>4. Alike(c0, d0)  BY <3>3 DEF CommitsInv
    <3> QED  BY <3>1, <3>2, <3>4 DEF Alike
  <2> QED  BY <2>1, <2>2 DEF CommitsInv
<1>4. OwnPathInv(L)
  <2>1. ASSUME NEW c \in L, NEW d \in L, c.path \in Agents, d.path = c.path, d.id < c.id
        PROVE  d.id <= c.over
    <3>1. PICK c0 \in K : Alike(c, c0)  BY <1>2
    <3>2. PICK d0 \in K : Alike(d, d0)  BY <1>2
    <3>3. c0.path \in Agents /\ d0.path = c0.path /\ d0.id < c0.id
      BY <2>1, <3>1, <3>2 DEF Alike
    <3>4. d0.id <= c0.over  BY <3>3 DEF OwnPathInv
    <3> QED  BY <3>1, <3>2, <3>4 DEF Alike
  <2>2. ASSUME NEW c \in L, c.path \in Agents, c.over # 0
        PROVE  \E d \in L : d.path = c.path /\ d.id = c.over
    <3>1. PICK c0 \in K : Alike(c, c0)  BY <1>2
    <3>2. c0.path \in Agents /\ c0.over # 0  BY <2>2, <3>1 DEF Alike
    <3>3. PICK d0 \in K : d0.path = c0.path /\ d0.id = c0.over  BY <3>2 DEF OwnPathInv
    <3>4. d0.op = "put"  BY <3>2, <3>3 DEF CommitsInv
    <3>5. PICK d \in L : Alike(d, d0)  BY <3>4 DEF Renewed
    <3> QED  BY <3>1, <3>3, <3>5 DEF Alike
  <2> QED  BY <2>1, <2>2 DEF OwnPathInv
<1>5. LockInv(L)
  <2>1. ASSUME NEW c \in L, NEW d \in L, c.path = Lock, c.op = "put", d.id = c.over
        PROVE  c.at >= d.until
    <3>1. PICK c0 \in K : Alike(c, c0)  BY <1>2
    <3>2. PICK d0 \in K : Alike(d, d0)  BY <1>2
    <3>3. c0.path = Lock /\ c0.op = "put" /\ d0.id = c0.over  BY <2>1, <3>1, <3>2 DEF Alike
    <3>4. c0.at >= d0.until  BY <3>3 DEF LockInv
    <3> QED  BY <3>1, <3>2, <3>4 DEF Alike
  <2> QED  BY <2>1 DEF LockInv
<1> QED  BY <1>3, <1>4, <1>5

LEMMA AddedInv ==
  ASSUME NEW K, K \subseteq Commits, NEW c \in Commits, NEW n \in Nat, NEW t \in Nat,
         CommitsInv(K, n, t), OwnPathInv(K), LockInv(K),
         c.id = n + 1, c.over <= n, c.at <= t, c.op = "remove" => c.path = Lock,
         c.path \in Agents => /\ c.author = c.path /\ c.op = "put"
                              /\ \A d \in K : d.path = c.path => d.id <= c.over
                              /\ c.over # 0 => \E d \in K : d.path = c.path /\ d.id = c.over,
         c.path = Lock /\ c.op = "put" => \A d \in K : d.id = c.over => c.at >= d.until
  PROVE  CommitsInv(K \cup {c}, n + 1, t) /\ OwnPathInv(K \cup {c}) /\ LockInv(K \cup {c})
<1>1. \A d \in K \cup {c} : d.id \in Nat /\ d.over \in Nat /\ d.at \in Nat /\ d.until \in Nat
  BY CommitFields
<1>2. \A d \in K : d.id <= n /\ d.over < d.id  BY DEF CommitsInv
<1>3. CommitsInv(K \cup {c}, n + 1, t)
  <2>1. \A d \in K : d.id <= n + 1 /\ d.id # c.id  BY <1>1, <1>2
  <2>2. c.id <= n + 1 /\ c.over < c.id  BY <1>1
  <2> QED  BY <1>2, <2>1, <2>2 DEF CommitsInv, Alike
<1>4. OwnPathInv(K \cup {c})
  <2>1. ASSUME NEW e \in K \cup {c}, NEW d \in K \cup {c},
               e.path \in Agents, d.path = e.path, d.id < e.id
        PROVE  d.id <= e.over
    <3>1. CASE e \in K /\ d \in K  BY <2>1, <3>1 DEF OwnPathInv
    <3>2. CASE e = c /\ d \in K  BY <2>1, <3>2
    <3>3. CASE e \in K /\ d = c
      <4>1. e.id <= n  BY <1>2, <3>3
      <4> QED  BY <1>1, <2>1, <3>3, <4>1
    <3>4. CASE e = c /\ d = c  BY <1>1, <2>1, <3>4
    <3> QED  BY <3>1, <3>2, <3>3, <3>4
  <2>2. ASSUME NEW e \in K \cup {c}, e.path \in Agents, e.over # 0
        PROVE  \E d \in K : d.path = e.path /\ d.id = e.over
    <3>1. CASE e \in K  BY <2>2, <3>1 DEF OwnPathInv
    <3>2. CASE e = c  BY <2>2, <3>2
    <3> QED  BY <3>1, <3>2
  <2> QED  BY <2>1, <2>2 DEF OwnPathInv
<1>5. LockInv(K \cup {c})
  <2>1. ASSUME NEW e \in K \cup {c}, NEW d \in K \cup {c},
               e.path = Lock, e.op = "put", d.id = e.over
        PROVE  e.at >= d.until
    <3>1. CASE e \in K /\ d \in K  BY <2>1, <3>1 DEF LockInv
    <3>2. CASE e = c /\ d \in K  BY <2>1, <3>2
    <3>3. CASE d = c
      <4>1. e.over < c.id
        <5>1. CASE e \in K
          <6>1. e.id <= n /\ e.over < e.id  BY <1>2, <5>1
          <6> QED  BY <1>1, <6>1
        <5>2. CASE e = c  BY <1>1, <5>2
        <5> QED  BY <5>1, <5>2
      <4> QED  BY <1>1, <2>1, <3>3, <4>1
    <3> QED  BY <3>1, <3>2, <3>3
  <2> QED  BY <2>1 DEF LockInv
<1> QED  BY <1>3, <1>4, <1>5
-----------------------------------------------------------------------------
(* What the invariant says of one agent's clone.                           *)
LEMMA Facts ==
  ASSUME OrgInv, NEW a \in Agents
  PROVE  /\ remote \in Seq(Commits) /\ Len(remote) \in Nat /\ base[a] \in 0..Len(remote)
         /\ local[a] \in Seq(Commits) /\ todo[a] \in Seq(Commits)
         /\ Outbox(a) \in Seq(Commits) /\ Clone(a) \in Seq(Commits)
         /\ SubSeq(remote, 1, base[a]) \in Seq(Commits)
         /\ Elements(Outbox(a)) = Elements(local[a]) \cup Elements(todo[a])
         /\ Elements(Clone(a)) = Elements(SubSeq(remote, 1, base[a])) \cup Elements(local[a])
         /\ Elements(SubSeq(remote, 1, base[a])) \subseteq Elements(remote)
         /\ Ordered(SubSeq(remote, 1, base[a]))
<1>1. remote \in Seq(Commits) /\ base[a] \in Nat /\ local[a] \in Seq(Commits) /\ todo[a] \in Seq(Commits)
  BY DEF OrgInv, TypeOK
<1>2. Len(remote) \in Nat  BY <1>1, LenProperties
<1>3. base[a] \in 0..Len(remote)  BY <1>1, <1>2 DEF OrgInv, PhaseInv
<1>4. SubSeq(remote, 1, base[a]) \in Seq(Commits)  BY <1>1, <1>3, Prefix
<1>5. /\ Outbox(a) \in Seq(Commits)
      /\ Elements(Outbox(a)) = Elements(local[a]) \cup Elements(todo[a])
  BY <1>1, ConcatProperties, ElementsConcat DEF Outbox
<1>6. /\ Clone(a) \in Seq(Commits)
      /\ Elements(Clone(a)) = Elements(SubSeq(remote, 1, base[a])) \cup Elements(local[a])
  <2> DEFINE p == SubSeq(remote, 1, base[a])
  <2>1. p \in Seq(Commits) /\ Clone(a) = p \o local[a]  BY <1>4 DEF Clone
  <2> HIDE DEF p
  <2>2. p \o local[a] \in Seq(Commits)  BY <1>1, <2>1, ConcatProperties
  <2>3. Elements(p \o local[a]) = Elements(p) \cup Elements(local[a])
    BY <1>1, <2>1, ElementsConcat
  <2>4. /\ Clone(a) \in Seq(Commits) /\ Elements(Clone(a)) = Elements(p) \cup Elements(local[a])
    BY <2>1, <2>2, <2>3
  <2> QED  BY <2>4 DEF p
<1>7. /\ Ordered(SubSeq(remote, 1, base[a]))
      /\ Elements(SubSeq(remote, 1, base[a])) \subseteq Elements(remote)
  BY <1>1, <1>3, OrderedPrefix DEF OrgInv, OrderInv
<1> QED  BY <1>1, <1>2, <1>3, <1>4, <1>5, <1>6, <1>7

LEMMA KnownFacts ==
  ASSUME OrgInv
  PROVE  /\ Known \subseteq Commits /\ Elements(remote) \subseteq Known
         /\ \A a \in Agents : /\ Elements(Outbox(a)) \subseteq Known
                              /\ Elements(local[a]) \subseteq Known
                              /\ Elements(todo[a]) \subseteq Known
                              /\ Elements(Clone(a)) \subseteq Known
         /\ made \in Nat /\ now \in Nat /\ made <= MaxCommits
<1>1. remote \in Seq(Commits) /\ made \in 0..MaxCommits /\ now \in 0..MaxTime  BY DEF OrgInv, TypeOK
<1>2. Elements(remote) \subseteq Commits  BY <1>1, ElementsOf
<1>3. \A a \in Agents : Elements(Outbox(a)) \subseteq Commits  BY Facts, ElementsOf
<1>4. Known \subseteq Commits  BY <1>2, <1>3 DEF Known
<1>5. made \in Nat /\ now \in Nat /\ made <= MaxCommits  BY <1>1, OrgMemoryAssumption
<1>6. Elements(remote) \subseteq Known  BY DEF Known
<1>7. \A a \in Agents : Elements(Outbox(a)) \subseteq Known  BY DEF Known
<1>8. ASSUME NEW a \in Agents
      PROVE  /\ Elements(local[a]) \subseteq Known /\ Elements(todo[a]) \subseteq Known
             /\ Elements(Clone(a)) \subseteq Known
  <2>1. /\ Elements(Outbox(a)) = Elements(local[a]) \cup Elements(todo[a])
        /\ Elements(Clone(a)) = Elements(SubSeq(remote, 1, base[a])) \cup Elements(local[a])
        /\ Elements(SubSeq(remote, 1, base[a])) \subseteq Elements(remote)
    BY Facts
  <2> QED  BY <1>6, <1>7, <2>1
<1> QED  BY <1>4, <1>5, <1>6, <1>7, <1>8

(* All that an agent wrote is in its clone or waits to be replayed on it.  *)
LEMMA Owned ==
  ASSUME OrgInv, NEW a \in Agents, NEW d \in Known, d.author = a
  PROVE  d \in Elements(Clone(a)) \cup Elements(todo[a])
<1>1. /\ Elements(Outbox(a)) = Elements(local[a]) \cup Elements(todo[a])
      /\ Elements(Clone(a)) = Elements(SubSeq(remote, 1, base[a])) \cup Elements(local[a])
      /\ remote \in Seq(Commits) /\ base[a] \in 0..Len(remote) /\ Len(remote) \in Nat
  BY Facts
<1>2. CASE d \in Elements(remote)
  <2>1. PICK i \in 1..Len(remote) : d = remote[i]  BY <1>1, <1>2, ElementsOf
  <2>2. \A k \in (base[a] + 1)..Len(remote) : remote[k].author # a  BY DEF OrgInv, OrderInv
  <2>3. i \in 1..base[a]  BY <1>1, <2>1, <2>2
  <2>4. /\ SubSeq(remote, 1, base[a]) \in Seq(Commits)
        /\ Len(SubSeq(remote, 1, base[a])) = base[a]
        /\ SubSeq(remote, 1, base[a])[i] = remote[i]
    BY <1>1, <2>3, Prefix
  <2>5. d \in Elements(SubSeq(remote, 1, base[a]))
    <3> DEFINE p == SubSeq(remote, 1, base[a])
    <3>1. p \in Seq(Commits) /\ Len(p) = base[a] /\ p[i] = d  BY <2>1, <2>4
    <3> HIDE DEF p
    <3>2. d \in Elements(p)  BY <2>3, <3>1, ElementsOf
    <3> QED  BY <3>2 DEF p
  <2> QED  BY <1>1, <2>5
<1>3. CASE d \notin Elements(remote)
  <2>1. PICK b \in Agents : d \in Elements(Outbox(b))  BY <1>3 DEF Known
  <2>2. b = a  BY <2>1 DEF OrgInv, OrderInv
  <2> QED  BY <1>1, <2>1, <2>2
<1> QED  BY <1>2, <1>3

LEMMA CloneOrder ==
  ASSUME OrgInv, NEW a \in Agents
  PROVE  /\ Ordered(Clone(a)) /\ Ordered(local[a]) /\ Ordered(todo[a])
         /\ \A c \in Elements(local[a]) \cup Elements(todo[a]) : c.author = a
         /\ \A c \in Elements(Clone(a)), d \in Elements(todo[a]) : c.author = a => c.id < d.id
         /\ \A c \in Elements(remote), d \in Elements(local[a]) \cup Elements(todo[a]) :
              c.author = a => c.id < d.id
<1>1. /\ remote \in Seq(Commits) /\ local[a] \in Seq(Commits) /\ todo[a] \in Seq(Commits)
      /\ SubSeq(remote, 1, base[a]) \in Seq(Commits) /\ Ordered(SubSeq(remote, 1, base[a]))
      /\ Elements(SubSeq(remote, 1, base[a])) \subseteq Elements(remote)
      /\ Elements(Outbox(a)) = Elements(local[a]) \cup Elements(todo[a])
      /\ Elements(Clone(a)) = Elements(SubSeq(remote, 1, base[a])) \cup Elements(local[a])
  BY Facts
<1>2. /\ Ordered(local[a] \o todo[a])
      /\ \A d \in Elements(Outbox(a)) : d.author = a
      /\ \A c \in Elements(remote), d \in Elements(Outbox(a)) : c.author = a => c.id < d.id
  BY DEF OrgInv, OrderInv, Outbox
<1>3. /\ Ordered(local[a]) /\ Ordered(todo[a])
      /\ \A c \in Elements(local[a]), d \in Elements(todo[a]) : c.author = d.author => c.id < d.id
  BY <1>1, <1>2, OrderedParts
<1>4. Ordered(Clone(a))
  <2>1. \A c \in Elements(SubSeq(remote, 1, base[a])), d \in Elements(local[a]) :
          c.author = d.author => c.id < d.id
    BY <1>1, <1>2
  <2> QED  BY <1>1, <1>3, <2>1, OrderedConcat DEF Clone
<1>5. \A c \in Elements(Clone(a)), d \in Elements(todo[a]) : c.author = a => c.id < d.id
  BY <1>1, <1>2, <1>3
<1> QED  BY <1>1, <1>2, <1>3, <1>4, <1>5

(* The last of what an agent has not published is its newest commit.       *)
LEMMA NewestOf ==
  ASSUME OrgInv, NEW a \in Agents, NEW c,
         \/ todo[a] = <<>> /\ local[a] # <<>> /\ c = local[a][Len(local[a])]
         \/ todo[a] # <<>> /\ c = todo[a][Len(todo[a])]
  PROVE  /\ c \in Known /\ c \in Commits /\ c.author = a
         /\ \A d \in Known : d.author = a => d.id <= c.id
         /\ \A d \in Known : d.author = a /\ d.op # c.op => d.id < c.id
<1>1. /\ remote \in Seq(Commits) /\ local[a] \in Seq(Commits) /\ todo[a] \in Seq(Commits)
      /\ Elements(Outbox(a)) = Elements(local[a]) \cup Elements(todo[a])
      /\ Elements(Clone(a)) = Elements(SubSeq(remote, 1, base[a])) \cup Elements(local[a])
      /\ Elements(SubSeq(remote, 1, base[a])) \subseteq Elements(remote)
  BY Facts
<1>2. \A s \in Seq(Commits) :
        /\ Len(s) \in Nat /\ DOMAIN s = 1..Len(s) /\ Elements(s) = {s[i] : i \in 1..Len(s)}
        /\ s # <<>> => Len(s) # 0
  BY ElementsOf, EmptySeq
<1>3. \A s \in Seq(Commits) : s # <<>> => Len(s) \in 1..Len(s) /\ s[Len(s)] \in Elements(s)
  BY <1>2
<1>4. c \in Elements(local[a]) \cup Elements(todo[a])  BY <1>1, <1>3
<1>5. c \in Known /\ c \in Commits /\ c.author = a  BY <1>4, KnownFacts, CloneOrder
<1>6. \A d \in Known : d.id \in Nat  BY KnownFacts, CommitFields
<1>7. \A s \in Seq(Commits) :
        s # <<>> /\ Ordered(s) /\ (\A d \in Elements(s) : d.author = a) =>
        \A d \in Elements(s) : d = s[Len(s)] \/ d.id < s[Len(s)].id
  <2> SUFFICES ASSUME NEW s \in Seq(Commits), s # <<>>, Ordered(s),
                      \A d \in Elements(s) : d.author = a, NEW d \in Elements(s), d # s[Len(s)]
               PROVE  d.id < s[Len(s)].id
    OBVIOUS
  <2>1. PICK i \in 1..Len(s) : d = s[i]  BY <1>2
  <2>2. Len(s) \in 1..Len(s) /\ s[Len(s)] \in Elements(s)  BY <1>3
  <2>3. i < Len(s)  BY <1>2, <2>1, <2>2
  <2>4. d.author = a /\ s[Len(s)].author = a  BY <2>2
  <2> QED  BY <1>2, <2>1, <2>2, <2>3, <2>4 DEF Ordered
<1>8. ASSUME NEW d \in Known, d.author = a PROVE d = c \/ d.id < c.id
  <2>1. d \in Elements(Clone(a)) \cup Elements(todo[a])  BY <1>8, Owned
  <2>2. CASE todo[a] = <<>>
    <3>1. local[a] # <<>> /\ c = local[a][Len(local[a])]  BY <2>2
    <3>2. CASE d \in Elements(local[a])
      <4>1. Ordered(local[a]) /\ \A e \in Elements(local[a]) : e.author = a  BY CloneOrder
      <4> QED  BY <1>1, <1>7, <3>1, <3>2, <4>1
    <3>3. CASE d \in Elements(remote)
      <4>1. c \in Elements(local[a])  BY <1>1, <1>3, <3>1
      <4> QED  BY <1>8, <3>3, <4>1, CloneOrder
    <3>4. Elements(todo[a]) = {}  BY <2>2, ElementsEmpty
    <3> QED  BY <1>1, <2>1, <3>2, <3>3, <3>4
  <2>3. CASE todo[a] # <<>>
    <3>1. c = todo[a][Len(todo[a])]  BY <2>3
    <3>2. CASE d \in Elements(todo[a])
      <4>1. Ordered(todo[a]) /\ \A e \in Elements(todo[a]) : e.author = a  BY CloneOrder
      <4> QED  BY <1>1, <1>7, <2>3, <3>1, <3>2, <4>1
    <3>3. CASE d \in Elements(Clone(a))
      <4>1. c \in Elements(todo[a])  BY <1>1, <1>3, <2>3, <3>1
      <4> QED  BY <1>8, <3>3, <4>1, CloneOrder
    <3> QED  BY <2>1, <3>2, <3>3
  <2> QED  BY <2>2, <2>3
<1> QED  BY <1>5, <1>6, <1>8
-----------------------------------------------------------------------------
(* What the steps keep of the invariant.                                   *)
Books == CommitsInv(Known, made, now) /\ OwnPathInv(Known) /\ LockInv(Known)

LEMMA BooksKept ==
  ASSUME OrgInv, Known' \subseteq Commits, Renewed(Known, Known'),
         made' = made, now' \in Nat, now <= now'
  PROVE  Books'
<1>1. CommitsInv(Known, made, now) /\ OwnPathInv(Known) /\ LockInv(Known)  BY DEF OrgInv
<1>2. Known \subseteq Commits /\ made \in Nat /\ now \in Nat  BY KnownFacts
<1>3. CommitsInv(Known', made, now') /\ OwnPathInv(Known') /\ LockInv(Known')
  <2> DEFINE L == Known'
             u == now'
  <2>1. L \subseteq Commits /\ Renewed(Known, L) /\ u \in Nat /\ now <= u  OBVIOUS
  <2> HIDE DEF L, u
  <2>2. CommitsInv(L, made, u) /\ OwnPathInv(L) /\ LockInv(L)
    <3>1. made <= made  BY <1>2
    <3> QED  BY <1>1, <1>2, <2>1, <3>1, RenewedInv
  <2> QED  BY <2>2 DEF L, u
<1> QED  BY <1>3 DEF Books

LEMMA HeldSame ==
  ASSUME OrgInv, Renewed(Known, Known'), \A b \in Agents : held'[b] \in {held[b], 0}
  PROVE  HeldInv'
<1> SUFFICES ASSUME NEW a \in Agents, held'[a] # 0
             PROVE  \E c \in Known' :
                      /\ c.author = a /\ c.path = Lock /\ c.op = "put" /\ c.until = held'[a]
                      /\ \A d \in Known' : d.author = a /\ d.op = "remove" => d.id < c.id
  BY DEF HeldInv
<1>1. held'[a] = held[a] /\ held[a] # 0  OBVIOUS
<1>2. PICK c \in Known :
        /\ c.author = a /\ c.path = Lock /\ c.op = "put" /\ c.until = held[a]
        /\ \A d \in Known : d.author = a /\ d.op = "remove" => d.id < c.id
  BY <1>1 DEF OrgInv, HeldInv
<1>3. PICK e \in Known' : Alike(e, c)  BY <1>2 DEF Renewed
<1>4. ASSUME NEW d \in Known', d.author = a, d.op = "remove" PROVE d.id < e.id
  <2>1. PICK d0 \in Known : Alike(d, d0)  BY DEF Renewed
  <2> QED  BY <1>2, <1>3, <1>4, <2>1 DEF Alike
<1>5. e.author = a /\ e.path = Lock /\ e.op = "put" /\ e.until = held'[a]
  BY <1>1, <1>2, <1>3 DEF Alike
<1> QED  BY <1>4, <1>5

LEMMA HeldTaken ==
  ASSUME OrgInv, Renewed(Known, Known'), NEW a \in Agents, NEW c \in Known,
         c.author = a, \A d \in Known : d.author = a /\ d.op # c.op => d.id < c.id,
         held' = IF c.path = Lock /\ c.op = "put" THEN [held EXCEPT ![a] = c.until] ELSE held
  PROVE  HeldInv' /\ held' \in [Agents -> Nat]
<1>1. held \in [Agents -> Nat] /\ c.until \in Nat
  BY KnownFacts, CommitFields DEF OrgInv, TypeOK
<1>2. CASE ~(c.path = Lock /\ c.op = "put")
  <2>1. held' = held  BY <1>2
  <2>2. \A b \in Agents : held'[b] \in {held[b], 0}  BY <2>1
  <2> QED  BY <1>1, <2>1, <2>2, HeldSame
<1>3. CASE c.path = Lock /\ c.op = "put"
  <2>1. held' = [held EXCEPT ![a] = c.until]  BY <1>3
  <2>2. held' \in [Agents -> Nat]  BY <1>1, <2>1
  <2> SUFFICES ASSUME NEW b \in Agents, held'[b] # 0
               PROVE  \E l \in Known' :
                        /\ l.author = b /\ l.path = Lock /\ l.op = "put" /\ l.until = held'[b]
                        /\ \A d \in Known' : d.author = b /\ d.op = "remove" => d.id < l.id
    BY <2>2 DEF HeldInv
  <2>3. PICK l \in Known :
          /\ l.author = b /\ l.path = Lock /\ l.op = "put" /\ l.until = held'[b]
          /\ \A d \in Known : d.author = b /\ d.op = "remove" => d.id < l.id
    <3>1. CASE b = a
      <4>1. held'[b] = c.until  BY <1>1, <2>1, <3>1
      <4>2. \A d \in Known : d.author = b /\ d.op = "remove" => d.id < c.id  BY <1>3, <3>1
      <4> QED  BY <1>3, <3>1, <4>1, <4>2
    <3>2. CASE b # a
      <4>1. held'[b] = held[b]  BY <1>1, <2>1, <3>2
      <4> QED  BY <4>1 DEF OrgInv, HeldInv
    <3> QED  BY <3>1, <3>2
  <2>4. PICK e \in Known' : Alike(e, l)  BY <2>3 DEF Renewed
  <2>5. ASSUME NEW d \in Known', d.author = b, d.op = "remove" PROVE d.id < e.id
    <3>1. PICK d0 \in Known : Alike(d, d0)  BY DEF Renewed
    <3> QED  BY <2>3, <2>4, <2>5, <3>1 DEF Alike
  <2>6. e.author = b /\ e.path = Lock /\ e.op = "put" /\ e.until = held'[b]
    BY <2>3, <2>4 DEF Alike
  <2> QED  BY <2>5, <2>6
<1> QED  BY <1>2, <1>3

LEMMA RemovalKept ==
  ASSUME OrgInv, Renewed(Known, Known'), \A b : Lost(b) => Lost(b)',
         \A a \in Agents : \A c \in Elements(Outbox(a))' : \E d \in Elements(Outbox(a)) : Alike(c, d)
  PROVE  RemovalInv'
<1> SUFFICES ASSUME NEW a \in Agents, NEW c \in Elements(Outbox(a))', c.op = "remove"
             PROVE  Justified(c)'
  BY DEF RemovalInv
<1>1. PICK d \in Elements(Outbox(a)) : Alike(c, d)  OBVIOUS
<1>2. Justified(d)  BY <1>1 DEF Alike, OrgInv, RemovalInv
<1>3. CASE \A e \in Known : e.id = d.over => e.author = d.author
  <2>1. ASSUME NEW e \in Known', e.id = c.over PROVE e.author = c.author
    <3>1. PICK e0 \in Known : Alike(e, e0)  BY DEF Renewed
    <3> QED  BY <1>1, <1>3, <2>1, <3>1 DEF Alike
  <2> QED  BY <2>1 DEF Justified
<1>4. CASE d.at >= d.until \/ Lost(d.author)  BY <1>1, <1>4 DEF Justified, Alike
<1> QED  BY <1>2, <1>3, <1>4 DEF Justified

(* What is published stays as it is.                                       *)
LEMMA PublishedStays ==
  ASSUME OrgInv, NEW t \in Seq(Commits), remote' = remote \o t
  PROVE  /\ \A i \in 1..Len(remote) : /\ remote'[i] = remote[i] /\ Before(i)' = Before(i)
                                      /\ LockBefore(i)' = LockBefore(i)
         /\ Touching(remote, Lock) \subseteq 1..Len(remote)
         /\ Touching(remote, Lock) \subseteq Touching(remote, Lock)'
         /\ \A b : \A j \in Touching(remote, Lock) : TakesOut(j, b) => TakesOut(j, b)'
         /\ \A b : Lost(b) => Lost(b)'
<1>1. remote \in Seq(Commits) /\ Len(remote) \in Nat /\ DOMAIN remote = 1..Len(remote)
  BY LenProperties DEF OrgInv, TypeOK
<1>2. Len(t) \in Nat  BY LenProperties
<1>3. /\ remote \o t \in Seq(Commits) /\ Len(remote \o t) = Len(remote) + Len(t)
      /\ \A i \in 1..(Len(remote) + Len(t)) :
           (remote \o t)[i] = IF i <= Len(remote) THEN remote[i] ELSE t[i - Len(remote)]
  BY <1>1, ConcatProperties
<1>4. \A i \in 1..Len(remote) : remote'[i] = remote[i]
  <2>1. \A i \in 1..Len(remote) : i \in 1..(Len(remote) + Len(t)) /\ i <= Len(remote)  BY <1>1, <1>2
  <2> QED  BY <1>3, <2>1
<1>5. \A i \in 1..Len(remote) : Before(i)' = Before(i) /\ LockBefore(i)' = LockBefore(i)
  <2>1. TAKE i \in 1..Len(remote)
  <2>2. i - 1 \in 0..Len(remote)  BY <1>1
  <2>3. SubSeq(remote \o t, 1, i - 1) = SubSeq(remote, 1, i - 1)  BY <1>1, <2>2, PrefixOfConcat
  <2>4. Before(i)' = Before(i)  BY <2>3 DEF Before
  <2> QED  BY <2>4 DEF LockBefore
<1>6. Touching(remote, Lock) \subseteq 1..Len(remote)  BY <1>1 DEF Touching
<1>7. DOMAIN remote' = 1..(Len(remote) + Len(t))  BY <1>3, LenProperties
<1>8. Touching(remote, Lock) \subseteq Touching(remote, Lock)'
  <2>1. 1..Len(remote) \subseteq 1..(Len(remote) + Len(t))  BY <1>1, <1>2
  <2>2. \A j \in Touching(remote, Lock) : j \in 1..Len(remote) /\ remote[j].path = Lock
    BY <1>6 DEF Touching
  <2>3. \A j \in Touching(remote, Lock) : j \in DOMAIN remote' /\ remote'[j].path = Lock
    BY <1>4, <1>7, <2>1, <2>2
  <2> QED  BY <2>3 DEF Touching
<1>9. ASSUME NEW j \in Touching(remote, Lock), NEW b, TakesOut(j, b) PROVE TakesOut(j, b)'
  <2>1. remote'[j] = remote[j] /\ Before(j)' = Before(j) /\ LockBefore(j)' = LockBefore(j)
    BY <1>4, <1>5, <1>6
  <2>2. Exists(Before(j), Lock)' = Exists(Before(j), Lock)  BY <2>1 DEF Exists, Touching, Last
  <2> QED  BY <1>9, <2>1, <2>2 DEF TakesOut
<1>10. \A b : Lost(b) => Lost(b)'  BY <1>8, <1>9 DEF Lost
<1> QED  BY <1>4, <1>5, <1>6, <1>8, <1>9, <1>10
-----------------------------------------------------------------------------
(* Steps that move no commit.                                              *)
LEMMA SamePublished ==
  ASSUME OrgInv, UNCHANGED remote
  PROVE  LockHistoryHonest' /\ \A b : Lost(b) => Lost(b)'
<1>1. LockHistoryHonest  BY DEF OrgInv
<1>2. /\ Touching(remote, Lock)' = Touching(remote, Lock)
      /\ \A i : Before(i)' = Before(i) /\ LockBefore(i)' = LockBefore(i)
  BY DEF Touching, Before, LockBefore, Last
<1>3. \A i : Exists(Before(i), Lock)' = Exists(Before(i), Lock)
  BY <1>2 DEF Exists, Touching, Last
<1>4. \A i, b : TakesOut(i, b)' = TakesOut(i, b)  BY <1>2, <1>3 DEF TakesOut
<1> QED  BY <1>1, <1>2, <1>3, <1>4 DEF LockHistoryHonest, Lost

LEMMA SameOutboxes ==
  ASSUME OrgInv, UNCHANGED <<remote, made>>, \A a \in Agents : Outbox(a)' = Outbox(a),
         now' \in Nat, now <= now'
  PROVE  Known' = Known /\ Books' /\ RemovalInv' /\ LockHistoryHonest'
<1>1. Known' = Known  BY DEF Known, Elements
<1>2. Renewed(Known, Known')  BY <1>1, RenewedSelf
<1>3. Known' \subseteq Commits  BY <1>1, KnownFacts
<1>4. Books'  BY <1>2, <1>3, BooksKept
<1>5. \A b : Lost(b) => Lost(b)'  BY SamePublished
<1>6. \A a \in Agents : \A c \in Elements(Outbox(a))' : \E d \in Elements(Outbox(a)) : Alike(c, d)
  BY DEF Alike, Elements
<1>7. RemovalInv'  BY <1>2, <1>5, <1>6, RemovalKept
<1>8. LockHistoryHonest'  BY SamePublished
<1> QED  BY <1>1, <1>4, <1>7, <1>8

LEMMA SameBooks ==
  ASSUME OrgInv, UNCHANGED <<remote, local, todo, made>>, now' \in Nat, now <= now'
  PROVE  Known' = Known /\ Books' /\ RemovalInv' /\ LockHistoryHonest'
<1>1. \A a \in Agents : Outbox(a)' = Outbox(a)  BY DEF Outbox
<1> QED  BY <1>1, SameOutboxes

LEMMA SameClones ==
  ASSUME OrgInv, UNCHANGED <<remote, base, local, todo>>
  PROVE  OrderInv' /\ ChainInv'
<1>1. OrderInv /\ ChainInv  BY DEF OrgInv
<1>2. OrderInv'
  <2>1. \A a \in Agents : Outbox(a)' = Outbox(a)  BY DEF Outbox
  <2>2. /\ Elements(remote)' = Elements(remote) /\ Ordered(remote)' = Ordered(remote)
        /\ \A a \in Agents : /\ Elements(Outbox(a))' = Elements(Outbox(a))
                             /\ Ordered(Outbox(a))' = Ordered(Outbox(a))
    BY <2>1 DEF Elements, Ordered
  <2> QED  BY <1>1, <2>2 DEF OrderInv
<1>3. \A a \in Agents : Clone(a)' = Clone(a)  BY DEF Clone
<1> QED  BY <1>1, <1>2, <1>3 DEF ChainInv

LEMMA Goes ==
  ASSUME OrgInv, NEW a \in Agents, NEW p \in Phases, NEW n \in 0..3, Goto(a, p, n)
  PROVE  /\ phase' \in [Agents -> Phases] /\ attempt' \in [Agents -> 0..3]
         /\ phase'[a] = p /\ \A b \in Agents : b # a => phase'[b] = phase[b]
BY DEF Goto, OrgInv, TypeOK

LEMMA SamePhase ==
  ASSUME OrgInv, UNCHANGED <<remote, base, local, todo>>, NEW a \in Agents,
         phase'[a] \in {"idle", "push", "pull", "aborted"},
         \A b \in Agents : b # a => phase'[b] = phase[b],
         phase'[a] # "aborted" => phase[a] \in {"idle", "push", "pull", "unlock", "settle"},
         phase'[a] \in {"push", "pull"} => phase[a] \in {"push", "pull"}
  PROVE  PhaseInv' /\ ConflictsOnlyOnSharedPaths'
<1>1. PhaseInv /\ ConflictsOnlyOnSharedPaths  BY DEF OrgInv
<1>2. ConflictsOnlyOnSharedPaths'  BY <1>1 DEF ConflictsOnlyOnSharedPaths
<1>3. PhaseInv'
  <2> SUFFICES ASSUME NEW b \in Agents
               PROVE  /\ base'[b] <= Len(remote')
                      /\ phase'[b] \in {"idle", "push", "pull", "unlock", "settle"} => todo'[b] = <<>>
                      /\ phase'[b] \in {"push", "pull"} => LastIsPut(local'[b])
                      /\ phase'[b] = "unlock" => local'[b] # <<>> /\ Newest(b)'.op = "remove"
                      /\ phase'[b] = "replay" => LastIsPut(todo'[b])
                      /\ phase'[b] = "conflict" => todo'[b] # <<>>
                      /\ phase'[b] = "settle" => local'[b] = <<>>
    BY DEF PhaseInv
  <2>1. CASE b = a  BY <1>1, <2>1 DEF PhaseInv
  <2>2. CASE b # a  BY <1>1, <2>2 DEF PhaseInv, Newest
  <2> QED  BY <2>1, <2>2
<1> QED  BY <1>2, <1>3

LEMMA Assembled ==
  ASSUME TypeOK', PhaseInv', Books', OrderInv', ChainInv', RemovalInv', HeldInv',
         LockHistoryHonest', ConflictsOnlyOnSharedPaths'
  PROVE  OrgInv'
BY DEF OrgInv, Books

LEMMA TickKeeps == ASSUME OrgInv, Tick PROVE OrgInv'
<1>1. /\ UNCHANGED <<remote, base, local, todo, phase, attempt, held, made>>
      /\ now' = now + 1 /\ now < MaxTime
  BY DEF Tick
<1>2. TypeOK /\ now \in Nat /\ now \in 0..MaxTime  BY KnownFacts DEF OrgInv, TypeOK
<1>3. now' \in 0..MaxTime /\ now' \in Nat /\ now <= now'  BY <1>1, <1>2, OrgMemoryAssumption
<1>4. TypeOK'  BY <1>1, <1>2, <1>3 DEF TypeOK
<1>5. Known' = Known /\ Books' /\ RemovalInv' /\ LockHistoryHonest'  BY <1>1, <1>3, SameBooks
<1>6. OrderInv' /\ ChainInv'  BY <1>1, SameClones
<1>7. PhaseInv' /\ ConflictsOnlyOnSharedPaths'
  BY <1>1 DEF OrgInv, PhaseInv, ConflictsOnlyOnSharedPaths, Newest
<1>8. HeldInv'  BY <1>1, <1>5, RenewedSelf, HeldSame
<1> QED  BY <1>4, <1>5, <1>6, <1>7, <1>8, Assembled

HeldAsTold(a) ==
  \/ UNCHANGED held
  \/ held' = [held EXCEPT ![a] = 0]
  \/ /\ phase[a] \in {"push", "pull", "unlock"}
     /\ held' = IF Newest(a).path = Lock /\ Newest(a).op = "put"
                  THEN [held EXCEPT ![a] = Newest(a).until] ELSE held

(* An agent goes from one phase to another, all commits stay where they    *)
(* are, and what it believes of the lock changes only as Returns says.     *)
LEMMA QuietKeeps ==
  ASSUME OrgInv, NEW a \in Agents, NEW p \in {"idle", "push", "pull", "aborted"},
         NEW n \in 0..3, Goto(a, p, n), UNCHANGED <<remote, base, local, todo, made, now>>,
         p # "aborted" => phase[a] \in {"idle", "push", "pull", "unlock", "settle"},
         p \in {"push", "pull"} => phase[a] \in {"push", "pull"},
         HeldAsTold(a)
  PROVE  OrgInv'
<1>1. TypeOK /\ now \in Nat  BY KnownFacts DEF OrgInv
<1>2. p \in Phases  BY DEF Phases
<1>3. /\ phase' \in [Agents -> Phases] /\ attempt' \in [Agents -> 0..3]
      /\ phase'[a] = p /\ \A b \in Agents : b # a => phase'[b] = phase[b]
  BY <1>2, Goes
<1>4. Known' = Known /\ Books' /\ RemovalInv' /\ LockHistoryHonest'
  <2>1. now' \in Nat /\ now <= now'  BY <1>1
  <2> QED  BY <2>1, SameBooks
<1>5. OrderInv' /\ ChainInv'  BY SameClones
<1>6. PhaseInv' /\ ConflictsOnlyOnSharedPaths'  BY <1>3, SamePhase
<1>7. HeldInv' /\ held' \in [Agents -> Nat]
  <2>1. held \in [Agents -> Nat] /\ Renewed(Known, Known')
    BY <1>1, <1>4, RenewedSelf DEF TypeOK
  <2>2. CASE held' = held \/ held' = [held EXCEPT ![a] = 0]
    <3>1. \A b \in Agents : held'[b] \in {held[b], 0}  BY <2>1, <2>2
    <3> QED  BY <2>1, <2>2, <3>1, HeldSame
  <2>3. CASE /\ phase[a] \in {"push", "pull", "unlock"}
             /\ held' = IF Newest(a).path = Lock /\ Newest(a).op = "put"
                          THEN [held EXCEPT ![a] = Newest(a).until] ELSE held
    <3>1. todo[a] = <<>> /\ local[a] # <<>>  BY <2>3 DEF OrgInv, PhaseInv, LastIsPut
    <3>2. /\ Newest(a) \in Known /\ Newest(a).author = a
          /\ \A d \in Known : d.author = a /\ d.op # Newest(a).op => d.id < Newest(a).id
      <4>1. Newest(a) = local[a][Len(local[a])]  BY DEF Newest
      <4> QED  BY <3>1, <4>1, NewestOf
    <3> QED  BY <2>1, <2>3, <3>2, HeldTaken
  <2> QED  BY <2>2, <2>3 DEF HeldAsTold
<1>8. TypeOK'  BY <1>1, <1>3, <1>7 DEF TypeOK
<1> QED  BY <1>4, <1>5, <1>6, <1>7, <1>8, Assembled

LEMMA QuietSteps ==
  ASSUME OrgInv, NEW a \in Agents,
         \/ Crash(a) \/ PushRaises(a) \/ PullRaises(a) \/ PushIgnored(a)
         \/ Rebase(a) /\ UpToDate(a)
         \/ ReleaseLock(a) /\ ~Exists(Clone(a), Lock)
  PROVE  OrgInv'
<1>1. attempt[a] \in 0..3 /\ phase[a] \in Phases  BY DEF OrgInv, TypeOK
<1>2. CASE Crash(a)
  <2>1. CASE phase[a] = "replay"
    <3>1. /\ Goto(a, "aborted", 0) /\ HeldAsTold(a)
          /\ UNCHANGED <<remote, base, local, todo, made, now>>
      BY <1>2, <2>1 DEF Crash, HeldAsTold
    <3> QED  BY <3>1, QuietKeeps
  <2>2. CASE phase[a] # "replay"
    <3>1. phase[a] \in {"idle", "push", "pull", "unlock", "settle"}
      BY <1>1, <1>2, <2>2 DEF Crash, Phases
    <3>2. /\ Goto(a, "idle", 0) /\ HeldAsTold(a)
          /\ UNCHANGED <<remote, base, local, todo, made, now>>
      BY <1>2, <2>2 DEF Crash, Idle, HeldAsTold
    <3> QED  BY <3>1, <3>2, QuietKeeps
  <2> QED  BY <2>1, <2>2
<1>3. CASE PushRaises(a)
  <2>1. CASE phase[a] = "push" /\ Goto(a, "pull", attempt[a])
    BY <1>1, <1>3, <2>1, QuietKeeps DEF PushRaises, HeldAsTold
  <2>2. CASE phase[a] = "unlock" /\ Idle(a)  BY <1>3, <2>2, QuietKeeps DEF PushRaises, Idle, HeldAsTold
  <2> QED  BY <1>3, <2>1, <2>2 DEF PushRaises
<1>4. CASE PullRaises(a)  BY <1>4, QuietKeeps DEF PullRaises, Idle, HeldAsTold
<1>5. CASE PushIgnored(a)
  <2>1. /\ phase[a] \in {"push", "unlock"} /\ Goto(a, "idle", 0)
        /\ UNCHANGED <<remote, base, local, todo, made, now>> /\ HeldAsTold(a)
    BY <1>5 DEF PushIgnored, Returns, Idle, HeldAsTold
  <2> QED  BY <2>1, QuietKeeps
<1>6. CASE Rebase(a) /\ UpToDate(a)
  <2>1. /\ phase[a] = "pull" /\ TryAgain(a, Newest(a))
        /\ UNCHANGED <<remote, base, local, todo, made, now>>
    BY <1>6 DEF Rebase
  <2>2. CASE attempt[a] < 3
    <3>1. attempt[a] + 1 \in 0..3  BY <1>1, <2>2
    <3> QED  BY <2>1, <2>2, <3>1, QuietKeeps DEF TryAgain, HeldAsTold
  <2>3. CASE ~(attempt[a] < 3)  BY <2>1, <2>3, QuietKeeps DEF TryAgain, Returns, Idle, HeldAsTold
  <2> QED  BY <2>2, <2>3
<1>7. CASE ReleaseLock(a) /\ ~Exists(Clone(a), Lock)
  <2>1. /\ phase[a] = "idle" /\ held' = [held EXCEPT ![a] = 0]
        /\ UNCHANGED <<remote, base, local, todo, phase, attempt, made, now>>
    BY <1>7 DEF ReleaseLock
  <2>2. phase \in [Agents -> Phases] /\ attempt \in [Agents -> 0..3]  BY DEF OrgInv, TypeOK
  <2>3. Goto(a, "idle", attempt[a])
    BY <2>1, <2>2 DEF Goto
  <2> QED  BY <1>1, <2>1, <2>3, QuietKeeps DEF HeldAsTold
<1> QED  BY <1>2, <1>3, <1>4, <1>5, <1>6, <1>7
-----------------------------------------------------------------------------
(* pull: the clone has all of the remote, what was on top of it waits.     *)
LEMMA Fetched ==
  ASSUME OrgInv, NEW a \in Agents, UNCHANGED <<remote, made, now>>,
         base' = [base EXCEPT ![a] = Len(remote)], local'[a] = <<>>,
         \A b \in Agents : b # a => local'[b] = local[b],
         \A b \in Agents : Outbox(b)' = Outbox(b)
  PROVE  Books' /\ RemovalInv' /\ LockHistoryHonest' /\ OrderInv' /\ ChainInv' /\ Known' = Known
<1>1. /\ remote \in Seq(Commits) /\ Len(remote) \in Nat /\ base \in [Agents -> Nat]
  BY Facts DEF OrgInv, TypeOK
<1>2. Known' = Known /\ Books' /\ RemovalInv' /\ LockHistoryHonest'
  <2>1. now' \in Nat /\ now <= now'  BY KnownFacts
  <2> QED  BY <2>1, SameOutboxes
<1>3. base'[a] = Len(remote) /\ \A b \in Agents : b # a => base'[b] = base[b]  BY <1>1
<1>4. OrderInv'
  <2>1. /\ Elements(remote)' = Elements(remote) /\ Ordered(remote)' = Ordered(remote)
        /\ \A b \in Agents : /\ Elements(Outbox(b))' = Elements(Outbox(b))
                             /\ Ordered(Outbox(b))' = Ordered(Outbox(b))
    BY DEF Elements, Ordered
  <2>2. \A b \in Agents : \A i \in (base'[b] + 1)..Len(remote) : remote[i].author # b
    <3>1. TAKE b \in Agents
    <3>2. CASE b = a  BY <1>1, <1>3, <3>2
    <3>3. CASE b # a  BY <1>3, <3>3 DEF OrgInv, OrderInv
    <3> QED  BY <3>2, <3>3
  <2>3. OrderInv  BY DEF OrgInv
  <2> QED  BY <2>1, <2>2, <2>3 DEF OrderInv
<1>5. Clone(a)' = remote
  <2>1. SubSeq(remote, 1, Len(remote)) = remote  BY <1>1, SubSeqFull
  <2>2. remote \o <<>> = remote  BY <1>1, ConcatEmptySeq
  <2> QED  BY <1>3, <2>1, <2>2 DEF Clone
<1>6. \A b \in Agents : b # a => Clone(b)' = Clone(b)  BY <1>3 DEF Clone
<1>7. ChainInv'
  <2>1. Chained(remote) /\ \A b \in Agents : Chained(Clone(b))  BY DEF OrgInv, ChainInv
  <2>2. \A b \in Agents : Chained(Clone(b)')
    <3>1. TAKE b \in Agents
    <3> QED  BY <1>5, <1>6, <2>1
  <2> QED  BY <2>1, <2>2 DEF ChainInv
<1> QED  BY <1>2, <1>4, <1>7

LEMMA PullKeeps == ASSUME OrgInv, NEW a \in Agents, Pull(a) PROVE OrgInv'
<1>1. /\ phase[a] = "idle" /\ local[a] = <<>> /\ base' = [base EXCEPT ![a] = Len(remote)]
      /\ UNCHANGED <<remote, local, todo, phase, attempt, held, made, now>>
  BY DEF Pull
<1>2. TypeOK /\ PhaseInv /\ ConflictsOnlyOnSharedPaths /\ Len(remote) \in Nat  BY Facts DEF OrgInv
<1>3. \A b \in Agents : Outbox(b)' = Outbox(b)  BY <1>1 DEF Outbox
<1>4. /\ Books' /\ RemovalInv' /\ LockHistoryHonest' /\ OrderInv' /\ ChainInv' /\ Known' = Known
  BY <1>1, <1>3, Fetched
<1>5. base' \in [Agents -> Nat] /\ \A b \in Agents : base'[b] \in {base[b], Len(remote)}
  BY <1>1, <1>2 DEF TypeOK
<1>6. TypeOK'  BY <1>1, <1>2, <1>5 DEF TypeOK
<1>7. PhaseInv'
  <2>1. \A b \in Agents : base'[b] <= Len(remote)  BY <1>2, <1>5 DEF PhaseInv
  <2> QED  BY <1>1, <1>2, <2>1 DEF PhaseInv, Newest
<1>8. ConflictsOnlyOnSharedPaths'  BY <1>1, <1>2 DEF ConflictsOnlyOnSharedPaths
<1>9. HeldInv'
  <2>1. Renewed(Known, Known')  BY <1>4, RenewedSelf
  <2> QED  BY <1>1, <2>1, HeldSame
<1> QED  BY <1>4, <1>6, <1>7, <1>8, <1>9, Assembled

LEMMA RebaseMoves ==
  ASSUME OrgInv, NEW a \in Agents, Rebase(a), ~UpToDate(a)
  PROVE  UNCHANGED remote /\ \A b \in Agents : Outbox(b)' = Outbox(b)
<1>1. /\ phase[a] = "pull" /\ UNCHANGED remote
      /\ todo' = [todo EXCEPT ![a] = local[a]] /\ local' = [local EXCEPT ![a] = <<>>]
  BY DEF Rebase
<1>2. /\ local \in [Agents -> Seq(Commits)] /\ todo \in [Agents -> Seq(Commits)]
      /\ local[a] \in Seq(Commits) /\ todo[a] = <<>>
  BY <1>1 DEF OrgInv, TypeOK, PhaseInv
<1>3. /\ todo'[a] = local[a] /\ local'[a] = <<>>
      /\ \A b \in Agents : b # a => local'[b] = local[b] /\ todo'[b] = todo[b]
  BY <1>1, <1>2
<1>4. ASSUME NEW b \in Agents PROVE Outbox(b)' = Outbox(b)
  <2>1. CASE b = a
    <3>1. <<>> \o local[a] = local[a] /\ local[a] \o <<>> = local[a]  BY <1>2, ConcatEmptySeq
    <3> QED  BY <1>2, <1>3, <2>1, <3>1 DEF Outbox
  <2>2. CASE b # a  BY <1>3, <2>2 DEF Outbox
  <2> QED  BY <2>1, <2>2
<1> QED  BY <1>1, <1>4

LEMMA RebaseKeeps == ASSUME OrgInv, NEW a \in Agents, Rebase(a), ~UpToDate(a) PROVE OrgInv'
<1>1. /\ phase[a] = "pull" /\ Goto(a, "replay", attempt[a])
      /\ base' = [base EXCEPT ![a] = Len(remote)]
      /\ todo' = [todo EXCEPT ![a] = local[a]] /\ local' = [local EXCEPT ![a] = <<>>]
      /\ UNCHANGED <<remote, held, made, now>>
  BY DEF Rebase
<1>2. TypeOK /\ PhaseInv /\ ConflictsOnlyOnSharedPaths /\ Len(remote) \in Nat  BY Facts DEF OrgInv
<1>3. /\ phase' \in [Agents -> Phases] /\ attempt' \in [Agents -> 0..3]
      /\ phase'[a] = "replay" /\ \A b \in Agents : b # a => phase'[b] = phase[b]
  <2>1. "replay" \in Phases /\ attempt[a] \in 0..3  BY <1>2 DEF Phases, TypeOK
  <2> QED  BY <1>1, <2>1, Goes
<1>4. /\ todo'[a] = local[a] /\ local'[a] = <<>> /\ base'[a] = Len(remote)
      /\ \A b \in Agents : b # a => local'[b] = local[b] /\ todo'[b] = todo[b] /\ base'[b] = base[b]
      /\ base' \in [Agents -> Nat] /\ todo' \in [Agents -> Seq(Commits)]
  BY <1>1, <1>2 DEF TypeOK
<1>5. local' \in [Agents -> Seq(Commits)]
  <2>1. <<>> \in Seq(Commits)  BY EmptySeq
  <2> QED  BY <1>1, <1>2, <2>1 DEF TypeOK
<1>6. LastIsPut(local[a])  BY <1>1, <1>2 DEF PhaseInv
<1>7. \A b \in Agents : Outbox(b)' = Outbox(b)  BY RebaseMoves
<1>8. /\ Books' /\ RemovalInv' /\ LockHistoryHonest' /\ OrderInv' /\ ChainInv' /\ Known' = Known
  BY <1>1, <1>4, <1>7, Fetched
<1>9. TypeOK'  BY <1>1, <1>2, <1>3, <1>4, <1>5 DEF TypeOK
<1>10. PhaseInv'
  <2> SUFFICES ASSUME NEW b \in Agents
               PROVE  /\ base'[b] <= Len(remote')
                      /\ phase'[b] \in {"idle", "push", "pull", "unlock", "settle"} => todo'[b] = <<>>
                      /\ phase'[b] \in {"push", "pull"} => LastIsPut(local'[b])
                      /\ phase'[b] = "unlock" => local'[b] # <<>> /\ Newest(b)'.op = "remove"
                      /\ phase'[b] = "replay" => LastIsPut(todo'[b])
                      /\ phase'[b] = "conflict" => todo'[b] # <<>>
                      /\ phase'[b] = "settle" => local'[b] = <<>>
    BY DEF PhaseInv
  <2>1. CASE b = a  BY <1>1, <1>2, <1>3, <1>4, <1>6, <2>1
  <2>2. CASE b # a  BY <1>1, <1>2, <1>3, <1>4, <2>2 DEF PhaseInv, Newest
  <2> QED  BY <2>1, <2>2
<1>11. ConflictsOnlyOnSharedPaths'
  <2>1. \A b \in Agents : phase'[b] = "conflict" => phase[b] = "conflict" /\ todo'[b] = todo[b]
    BY <1>3, <1>4
  <2> QED  BY <1>2, <2>1 DEF ConflictsOnlyOnSharedPaths
<1>12. HeldInv'
  <2>1. Renewed(Known, Known')  BY <1>8, RenewedSelf
  <2> QED  BY <1>1, <2>1, HeldSame
<1> QED  BY <1>8, <1>9, <1>10, <1>11, <1>12, Assembled
-----------------------------------------------------------------------------
(* push: what the clone had on top of the remote is published.             *)
LEMMA PushFacts ==
  ASSUME OrgInv, NEW a \in Agents, Publish(a)
  PROVE  /\ todo[a] = <<>> /\ local[a] # <<>> /\ local[a] \in Seq(Commits)
         /\ remote' = remote \o local[a] /\ remote' \in Seq(Commits) /\ remote' = Clone(a)
         /\ Len(remote) \in Nat /\ Len(remote') = Len(remote) + Len(local[a])
         /\ Len(local[a]) \in Nat
         /\ \A i \in 1..Len(remote') :
              remote'[i] = IF i <= Len(remote) THEN remote[i] ELSE local[a][i - Len(remote)]
         /\ base'[a] = Len(remote') /\ local'[a] = <<>>
         /\ \A b \in Agents : b # a => base'[b] = base[b] /\ local'[b] = local[b]
         /\ base' \in [Agents -> Nat] /\ local' \in [Agents -> Seq(Commits)]
         /\ UNCHANGED <<todo, made, now>>
         /\ Outbox(a)' = <<>> /\ \A b \in Agents : b # a => Outbox(b)' = Outbox(b)
         /\ Known' = Known
<1>1. /\ phase[a] \in {"push", "unlock"} /\ UpToDate(a)
      /\ remote' = remote \o local[a] /\ base' = [base EXCEPT ![a] = Len(remote')]
      /\ local' = [local EXCEPT ![a] = <<>>]
      /\ UNCHANGED <<todo, made, now>>
  BY DEF Publish
<1>2. /\ TypeOK /\ remote \in Seq(Commits) /\ Len(remote) \in Nat /\ local[a] \in Seq(Commits)
      /\ Elements(Outbox(a)) = Elements(local[a]) \cup Elements(todo[a])
  BY Facts DEF OrgInv
<1>3. todo[a] = <<>> /\ local[a] # <<>>  BY <1>1 DEF OrgInv, PhaseInv, LastIsPut
<1>4. /\ remote' \in Seq(Commits) /\ Len(local[a]) \in Nat
      /\ Len(remote') = Len(remote) + Len(local[a])
      /\ \A i \in 1..(Len(remote) + Len(local[a])) :
           remote'[i] = IF i <= Len(remote) THEN remote[i] ELSE local[a][i - Len(remote)]
  BY <1>1, <1>2, ConcatProperties, LenProperties
<1>5. remote' = Clone(a)
  <2>1. SubSeq(remote, 1, base[a]) = remote  BY <1>1, <1>2, SubSeqFull DEF UpToDate
  <2> QED  BY <1>1, <2>1 DEF Clone
<1>6. /\ base'[a] = Len(remote') /\ local'[a] = <<>> /\ base' \in [Agents -> Nat]
      /\ \A b \in Agents : b # a => base'[b] = base[b] /\ local'[b] = local[b]
  <2>1. Len(remote') \in Nat  BY <1>2, <1>4
  <2> QED  BY <1>1, <1>2, <2>1 DEF TypeOK
<1>7. local' \in [Agents -> Seq(Commits)]
  <2>1. <<>> \in Seq(Commits)  BY EmptySeq
  <2> QED  BY <1>1, <1>2, <2>1 DEF TypeOK
<1>8. Outbox(a)' = <<>>
  <2>1. <<>> \o <<>> = <<>>  BY EmptySeq, ConcatEmptySeq
  <2> QED  BY <1>1, <1>3, <1>6, <2>1 DEF Outbox
<1>9. \A b \in Agents : b # a => Outbox(b)' = Outbox(b)  BY <1>1, <1>6 DEF Outbox
<1>10. Known' = Known
  <2>1. Elements(remote') = Elements(remote) \cup Elements(local[a])
    BY <1>1, <1>2, ElementsConcat
  <2>2. Elements(Outbox(a)) = Elements(local[a])  BY <1>2, <1>3, ElementsEmpty
  <2>3. Elements(Outbox(a)') = {}  BY <1>8, ElementsEmpty
  <2>4. Known' = Elements(remote') \cup UNION {Elements(Outbox(b)') : b \in Agents}
    BY DEF Known, Elements
  <2>5. \A b \in Agents : b # a => Elements(Outbox(b)') = Elements(Outbox(b))  BY <1>9
  <2> QED  BY <2>1, <2>2, <2>3, <2>4, <2>5 DEF Known
<1> QED  BY <1>1, <1>2, <1>3, <1>4, <1>5, <1>6, <1>7, <1>8, <1>9, <1>10

LEMMA PushOrder == ASSUME OrgInv, NEW a \in Agents, Publish(a) PROVE OrderInv' /\ ChainInv'
<1>1. /\ local[a] \in Seq(Commits) /\ Len(remote) \in Nat /\ Len(local[a]) \in Nat
      /\ remote' = remote \o local[a] /\ remote' \in Seq(Commits) /\ remote' = Clone(a)
      /\ Len(remote') = Len(remote) + Len(local[a])
      /\ \A i \in 1..Len(remote') :
           remote'[i] = IF i <= Len(remote) THEN remote[i] ELSE local[a][i - Len(remote)]
      /\ base'[a] = Len(remote') /\ local'[a] = <<>>
      /\ \A b \in Agents : b # a => base'[b] = base[b] /\ local'[b] = local[b]
      /\ Outbox(a)' = <<>> /\ \A b \in Agents : b # a => Outbox(b)' = Outbox(b)
  BY PushFacts
<1>2. OrderInv /\ ChainInv /\ remote \in Seq(Commits)  BY DEF OrgInv, TypeOK
<1>3. /\ Ordered(remote') /\ Chained(remote')  BY <1>1, <1>2, CloneOrder DEF ChainInv
<1>4. Elements(remote') = Elements(remote) \cup Elements(local[a])
  <2>1. Elements(remote \o local[a]) = Elements(remote) \cup Elements(local[a])
    <3>1. local[a] \in Seq(Commits) /\ remote \in Seq(Commits)  BY <1>1, <1>2
    <3> QED  BY <3>1, ElementsConcat
  <2> QED  BY <1>1, <2>1
<1>5. \A c \in Elements(local[a]) : c.author = a  BY CloneOrder
<1>6. ASSUME NEW b \in Agents
      PROVE  /\ Ordered(Outbox(b)')
             /\ \A d \in Elements(Outbox(b)') : d.author = b
             /\ \A c \in Elements(remote'), d \in Elements(Outbox(b)') : c.author = b => c.id < d.id
             /\ \A i \in (base'[b] + 1)..Len(remote') : remote'[i].author # b
  <2>1. CASE b = a
    <3>1. Elements(Outbox(b)') = {} /\ Ordered(Outbox(b)')
      BY <1>1, <2>1, ElementsEmpty DEF Ordered
    <3>2. \A i \in (base'[b] + 1)..Len(remote') : FALSE  BY <1>1, <2>1
    <3> QED  BY <3>1, <3>2
  <2>2. CASE b # a
    <3>1. Outbox(b)' = Outbox(b) /\ base'[b] = base[b] /\ base[b] \in 0..Len(remote)
      BY <1>1, <2>2, Facts
    <3>2. Ordered(Outbox(b)') /\ \A d \in Elements(Outbox(b)') : d.author = b
      BY <1>2, <3>1 DEF OrderInv
    <3>3. \A c \in Elements(remote'), d \in Elements(Outbox(b)') : c.author = b => c.id < d.id
      BY <1>2, <1>4, <1>5, <2>2, <3>1 DEF OrderInv
    <3>4. ASSUME NEW i \in (base'[b] + 1)..Len(remote') PROVE remote'[i].author # b
      <4>1. i \in 1..Len(remote')  BY <1>1, <3>1
      <4>2. CASE i <= Len(remote)
        <5>1. i \in (base[b] + 1)..Len(remote) /\ remote'[i] = remote[i]  BY <1>1, <3>1, <4>1, <4>2
        <5> QED  BY <1>2, <5>1 DEF OrderInv
      <4>3. CASE ~(i <= Len(remote))
        <5>1. i - Len(remote) \in 1..Len(local[a]) /\ remote'[i] = local[a][i - Len(remote)]
          BY <1>1, <4>1, <4>3
        <5>2. remote'[i] \in Elements(local[a])  BY <1>1, <5>1, ElementsOf
        <5> QED  BY <1>5, <2>2, <5>2
      <4> QED  BY <4>2, <4>3
    <3> QED  BY <3>2, <3>3, <3>4
  <2> QED  BY <2>1, <2>2
<1>7. OrderInv'
  <2>1. Ordered(remote)' = Ordered(remote') /\ Elements(remote)' = Elements(remote')
    BY DEF Ordered, Elements
  <2>2. \A b \in Agents : /\ Ordered(Outbox(b))' = Ordered(Outbox(b)')
                          /\ Elements(Outbox(b))' = Elements(Outbox(b)')
    BY DEF Ordered, Elements
  <2> QED  BY <1>3, <1>6, <2>1, <2>2 DEF OrderInv
<1>8. \A b \in Agents : Chained(Clone(b)')
  <2>1. TAKE b \in Agents
  <2>2. CASE b = a
    <3>1. SubSeq(remote', 1, Len(remote')) = remote' /\ remote' \o <<>> = remote'
      BY <1>1, SubSeqFull, ConcatEmptySeq
    <3>2. Clone(b)' = remote'  BY <1>1, <2>2, <3>1 DEF Clone
    <3> QED  BY <1>3, <3>2
  <2>3. CASE b # a
    <3>1. base[b] \in 0..Len(remote)  BY Facts
    <3>2. SubSeq(remote \o local[a], 1, base[b]) = SubSeq(remote, 1, base[b])
      BY <1>1, <1>2, <3>1, PrefixOfConcat
    <3>3. Clone(b)' = Clone(b)  BY <1>1, <2>3, <3>2 DEF Clone
    <3> QED  BY <1>2, <3>3 DEF ChainInv
  <2> QED  BY <2>2, <2>3
<1>9. ChainInv'
  <2>1. Chained(remote)' = Chained(remote')  BY DEF Chained, Content, Exists, Last, Touching
  <2>2. \A b \in Agents : Chained(Clone(b))' = Chained(Clone(b)')
    BY DEF Chained, Content, Exists, Last, Touching
  <2> QED  BY <1>3, <1>8, <2>1, <2>2 DEF ChainInv
<1> QED  BY <1>7, <1>9

(* The commits published come after what they replace: a lock was put over *)
(* one that had expired, and removed for one of the reasons kept for it.   *)
LEMMA PushHonest == ASSUME OrgInv, NEW a \in Agents, Publish(a) PROVE LockHistoryHonest'
<1>1. /\ local[a] \in Seq(Commits) /\ Len(remote) \in Nat /\ Len(local[a]) \in Nat
      /\ remote' = remote \o local[a] /\ remote' \in Seq(Commits) /\ remote' = Clone(a)
      /\ Len(remote') = Len(remote) + Len(local[a])
      /\ \A i \in 1..Len(remote') :
           remote'[i] = IF i <= Len(remote) THEN remote[i] ELSE local[a][i - Len(remote)]
      /\ Known' = Known
  BY PushFacts
<1>2. /\ \A i \in 1..Len(remote) : /\ remote'[i] = remote[i] /\ Before(i)' = Before(i)
                                   /\ LockBefore(i)' = LockBefore(i)
      /\ Touching(remote, Lock) \subseteq 1..Len(remote)
      /\ Touching(remote, Lock) \subseteq Touching(remote, Lock)'
      /\ \A b : \A j \in Touching(remote, Lock) : TakesOut(j, b) => TakesOut(j, b)'
  BY <1>1, PublishedStays
<1>3. DOMAIN remote = 1..Len(remote) /\ DOMAIN remote' = 1..Len(remote')
  BY <1>1, LenProperties DEF OrgInv, TypeOK
<1> SUFFICES ASSUME NEW i \in Touching(remote, Lock)', Exists(Before(i), Lock)'
             PROVE  \/ remote'[i].op = "put" /\ remote'[i].at >= LockBefore(i)'.until
                    \/ /\ remote'[i].op = "remove"
                       /\ \/ remote'[i].author = LockBefore(i)'.author
                          \/ remote'[i].at >= remote'[i].until
                          \/ \E j \in Touching(remote, Lock)' :
                               j < i /\ TakesOut(j, remote[i].author)'
  BY DEF LockHistoryHonest
<1>4. i \in 1..Len(remote') /\ remote'[i].path = Lock  BY <1>3 DEF Touching
<1>5. CASE i <= Len(remote)
  <2>1. i \in 1..Len(remote)  BY <1>1, <1>4, <1>5
  <2>2. remote'[i] = remote[i] /\ Before(i)' = Before(i) /\ LockBefore(i)' = LockBefore(i)
    BY <1>2, <2>1
  <2>3. i \in Touching(remote, Lock)  BY <1>3, <1>4, <2>1, <2>2 DEF Touching
  <2>4. Exists(Before(i), Lock)  BY <2>2 DEF Exists, Touching, Last
  <2> PICK b : b = remote[i].author  OBVIOUS
  <2>5. \/ remote[i].op = "put" /\ remote[i].at >= LockBefore(i).until
        \/ /\ remote[i].op = "remove"
           /\ \/ remote[i].author = LockBefore(i).author \/ remote[i].at >= remote[i].until
              \/ \E j \in Touching(remote, Lock) : j < i /\ TakesOut(j, b)
    BY <2>3, <2>4 DEF OrgInv, LockHistoryHonest
  <2>6. \A j : TakesOut(j, remote[i].author)' <=> TakesOut(j, b)'
    BY <2>2 DEF TakesOut
  <2>7. CASE \E j \in Touching(remote, Lock) : j < i /\ TakesOut(j, b)
    <3>1. PICK j \in Touching(remote, Lock) : j < i /\ TakesOut(j, b)  BY <2>7
    <3>2. j \in Touching(remote, Lock)' /\ TakesOut(j, b)'  BY <1>2, <3>1
    <3>3. TakesOut(j, remote[i].author)'  BY <2>6, <3>2
    <3> QED  BY <2>2, <2>5, <3>1, <3>2, <3>3
  <2>8. CASE ~\E j \in Touching(remote, Lock) : j < i /\ TakesOut(j, b)  BY <2>2, <2>5, <2>8
  <2> QED  BY <2>7, <2>8
<1>6. CASE ~(i <= Len(remote))
  <2> PICK c : c = local[a][i - Len(remote)]  OBVIOUS
  <2>1. i - Len(remote) \in 1..Len(local[a]) /\ remote'[i] = c  BY <1>1, <1>4, <1>6
  <2>2. c \in Elements(local[a])  BY <1>1, <2>1, ElementsOf
  <2>3. c \in Elements(Outbox(a)) /\ c \in Known /\ c \in Commits  BY <2>2, Facts, KnownFacts
  <2>4. c.path = Lock /\ c.op \in {"put", "remove"}  BY <1>4, <2>1, <2>3, CommitFields
  <2> DEFINE h == SubSeq(remote', 1, i - 1)
             l == h[Last(h, Lock)]
  <2>5. h \in Seq(Commits) /\ \A k \in 1..Len(h) : h[k] = remote'[k]
    <3>1. i - 1 \in 0..Len(remote')  BY <1>1, <1>4
    <3>2. /\ SubSeq(remote', 1, i - 1) \in Seq(Commits) /\ Len(SubSeq(remote', 1, i - 1)) = i - 1
          /\ \A k \in 1..(i - 1) : SubSeq(remote', 1, i - 1)[k] = remote'[k]
      BY <1>1, <3>1, Prefix
    <3> QED  BY <3>2
  <2>6. c.over = Content(h, Lock)
    <3>1. Chained(remote')  BY <1>1 DEF OrgInv, ChainInv
    <3> QED  BY <1>3, <1>4, <2>1, <2>4, <3>1 DEF Chained
  <2>7. Exists(h, Lock) /\ LockBefore(i)' = l
    <3>1. Before(i)' = h  BY DEF Before
    <3>2. Exists(Before(i)', Lock)  BY DEF Exists, Touching, Last
    <3> QED  BY <3>1, <3>2 DEF LockBefore, Last, Touching
  <2> HIDE DEF h
  <2>8. l \in Elements(h) /\ c.over = l.id  BY <2>5, <2>6, <2>7, ContentOf
  <2>9. l \in Known
    <3>1. PICK k \in 1..Len(h) : l = h[k]  BY <2>5, <2>8, ElementsOf
    <3>2. l = remote'[k]  BY <2>5, <3>1
    <3>3. Len(h) <= Len(remote') /\ Len(h) \in Nat /\ Len(remote') \in Nat
      <4>1. i - 1 \in 0..Len(remote')  BY <1>1, <1>4
      <4>2. Len(h) = i - 1  BY <1>1, <4>1, Prefix DEF h
      <4> QED  BY <1>1, <1>4, <4>2
    <3>4. k \in 1..Len(remote')  BY <3>1, <3>3
    <3>5. l \in Elements(remote')  BY <1>1, <3>2, <3>4, ElementsOf
    <3> QED  BY <1>1, <3>5, KnownFacts
  <2> HIDE DEF l
  <2>10. CASE c.op = "put"
    <3>1. c.at >= l.until  BY <2>3, <2>4, <2>8, <2>9, <2>10 DEF OrgInv, LockInv
    <3> QED  BY <2>1, <2>7, <2>10, <3>1
  <2>11. CASE c.op = "remove"
    <3>1. Justified(c)  BY <2>3, <2>11 DEF OrgInv, RemovalInv
    <3>2. CASE \A d \in Known : d.id = c.over => d.author = c.author
      BY <2>1, <2>7, <2>8, <2>9, <2>11, <3>2
    <3>3. CASE c.at >= c.until  BY <2>1, <2>11, <3>3
    <3>4. CASE Lost(c.author)
      <4>1. PICK j \in Touching(remote, Lock) : TakesOut(j, c.author)  BY <3>4 DEF Lost
      <4>2. j \in 1..Len(remote) /\ j \in Touching(remote, Lock)' /\ TakesOut(j, c.author)'
        BY <1>2, <4>1
      <4>3. j < i  BY <1>1, <1>4, <1>6, <4>2
      <4>4. TakesOut(j, remote[i].author)'  BY <2>1, <4>2 DEF TakesOut
      <4> QED  BY <2>1, <2>11, <4>2, <4>3, <4>4
    <3> QED  BY <3>1, <3>2, <3>3, <3>4 DEF Justified
  <2> QED  BY <2>4, <2>10, <2>11
<1> QED  BY <1>5, <1>6

LEMMA PublishKeeps ==
  ASSUME OrgInv, NEW a \in Agents, Publish(a), HeldAsTold(a),
         NEW p \in {"idle", "settle"}, NEW n \in 0..3, Goto(a, p, n)
  PROVE  OrgInv'
<1>1. /\ todo[a] = <<>> /\ local[a] # <<>> /\ local[a] \in Seq(Commits)
      /\ remote' = remote \o local[a] /\ remote' \in Seq(Commits)
      /\ Len(remote) \in Nat /\ Len(remote') = Len(remote) + Len(local[a]) /\ Len(local[a]) \in Nat
      /\ base'[a] = Len(remote') /\ local'[a] = <<>>
      /\ \A b \in Agents : b # a => base'[b] = base[b] /\ local'[b] = local[b]
      /\ base' \in [Agents -> Nat] /\ local' \in [Agents -> Seq(Commits)]
      /\ UNCHANGED <<todo, made, now>>
      /\ Outbox(a)' = <<>> /\ \A b \in Agents : b # a => Outbox(b)' = Outbox(b)
      /\ Known' = Known
  BY PushFacts
<1>2. TypeOK /\ PhaseInv /\ ConflictsOnlyOnSharedPaths /\ Renewed(Known, Known')
  BY <1>1, RenewedSelf DEF OrgInv
<1>3. /\ phase' \in [Agents -> Phases] /\ attempt' \in [Agents -> 0..3]
      /\ phase'[a] = p /\ \A b \in Agents : b # a => phase'[b] = phase[b]
  <2>1. p \in Phases  BY DEF Phases
  <2> QED  BY <2>1, Goes
<1>4. HeldInv' /\ held' \in [Agents -> Nat]
  <2>1. held \in [Agents -> Nat]  BY <1>2 DEF TypeOK
  <2>2. CASE held' = held \/ held' = [held EXCEPT ![a] = 0]
    <3>1. \A b \in Agents : held'[b] \in {held[b], 0}  BY <2>1, <2>2
    <3> QED  BY <1>2, <2>1, <2>2, <3>1, HeldSame
  <2>3. CASE held' = IF Newest(a).path = Lock /\ Newest(a).op = "put"
                       THEN [held EXCEPT ![a] = Newest(a).until] ELSE held
    <3>1. Newest(a) = local[a][Len(local[a])]  BY DEF Newest
    <3>2. /\ Newest(a) \in Known /\ Newest(a).author = a
          /\ \A d \in Known : d.author = a /\ d.op # Newest(a).op => d.id < Newest(a).id
      BY <1>1, <3>1, NewestOf
    <3> QED  BY <1>2, <2>3, <3>2, HeldTaken
  <2> QED  BY <2>2, <2>3 DEF HeldAsTold
<1>5. TypeOK'  BY <1>1, <1>2, <1>3, <1>4 DEF TypeOK
<1>6. PhaseInv'
  <2> SUFFICES ASSUME NEW b \in Agents
               PROVE  /\ base'[b] <= Len(remote')
                      /\ phase'[b] \in {"idle", "push", "pull", "unlock", "settle"} => todo'[b] = <<>>
                      /\ phase'[b] \in {"push", "pull"} => LastIsPut(local'[b])
                      /\ phase'[b] = "unlock" => local'[b] # <<>> /\ Newest(b)'.op = "remove"
                      /\ phase'[b] = "replay" => LastIsPut(todo'[b])
                      /\ phase'[b] = "conflict" => todo'[b] # <<>>
                      /\ phase'[b] = "settle" => local'[b] = <<>>
    BY DEF PhaseInv
  <2>1. CASE b = a  BY <1>1, <1>3, <2>1
  <2>2. CASE b # a
    <3>1. base[b] \in 0..Len(remote)  BY Facts
    <3>2. base'[b] <= Len(remote')  BY <1>1, <2>2, <3>1
    <3> QED  BY <1>1, <1>2, <1>3, <2>2, <3>2 DEF PhaseInv, Newest
  <2> QED  BY <2>1, <2>2
<1>7. ConflictsOnlyOnSharedPaths'
  <2>1. \A b \in Agents : phase'[b] = "conflict" => phase[b] = "conflict" /\ todo'[b] = todo[b]
    BY <1>1, <1>3
  <2> QED  BY <1>2, <2>1 DEF ConflictsOnlyOnSharedPaths
<1>8. Books'
  <2>1. Known' \subseteq Commits /\ now' \in Nat /\ now <= now' /\ made' = made
    BY <1>1, KnownFacts
  <2> QED  BY <1>2, <2>1, BooksKept
<1>9. RemovalInv'
  <2>1. \A b : Lost(b) => Lost(b)'  BY <1>1, PublishedStays
  <2>2. ASSUME NEW b \in Agents, NEW c \in Elements(Outbox(b))'
        PROVE  \E d \in Elements(Outbox(b)) : Alike(c, d)
    <3>1. c \in Elements(Outbox(b)')  BY DEF Elements
    <3>2. b # a  BY <1>1, <3>1, ElementsEmpty
    <3>3. c \in Elements(Outbox(b))  BY <1>1, <3>1, <3>2
    <3> QED  BY <3>3 DEF Alike
  <2> QED  BY <1>2, <2>1, <2>2, RemovalKept
<1>10. OrderInv' /\ ChainInv' /\ LockHistoryHonest'  BY PushOrder, PushHonest
<1> QED  BY <1>4, <1>5, <1>6, <1>7, <1>8, <1>9, <1>10, Assembled

LEMMA PushKeeps ==
  ASSUME OrgInv, NEW a \in Agents, Push(a) \/ PushLost(a)
  PROVE  OrgInv'
<1>1. Publish(a) /\ phase[a] \in {"push", "unlock"} /\ attempt[a] \in 0..3
  BY DEF Push, PushLost, Publish, OrgInv, TypeOK
<1>2. CASE Push(a)
  <2>1. Goto(a, "idle", 0) /\ HeldAsTold(a)  BY <1>1, <1>2 DEF Push, Returns, Idle, HeldAsTold
  <2> QED  BY <1>1, <2>1, PublishKeeps
<1>3. CASE PushLost(a)
  <2>1. HeldAsTold(a)  BY <1>3 DEF PushLost, HeldAsTold
  <2>2. CASE Goto(a, "settle", attempt[a])  BY <1>1, <2>1, <2>2, PublishKeeps
  <2>3. CASE Goto(a, "idle", 0)  BY <1>1, <2>1, <2>3, PublishKeeps
  <2> QED  BY <1>3, <2>2, <2>3 DEF PushLost, Idle
<1> QED  BY <1>2, <1>3
-----------------------------------------------------------------------------
(* After a push whose answer was lost, all that its agent wrote is         *)
(* published; the last of it is what the call was made for.                *)
IsLast(a, i) ==
  /\ i \in DOMAIN remote /\ remote[i].author = a
  /\ \A j \in DOMAIN remote : j > i => remote[j].author # a

LEMMA LastOfAll ==
  ASSUME OrgInv, NEW a \in Agents, Outbox(a) = <<>>, NEW i, IsLast(a, i)
  PROVE  /\ remote[i] \in Known /\ remote[i].author = a
         /\ \A d \in Known : d.author = a => d = remote[i] \/ d.id < remote[i].id
<1>1. remote \in Seq(Commits) /\ DOMAIN remote = 1..Len(remote) /\ Len(remote) \in Nat
  BY LenProperties DEF OrgInv, TypeOK
<1>2. i \in 1..Len(remote) /\ remote[i].author = a  BY <1>1 DEF IsLast
<1>3. remote[i] \in Known
  <2>1. remote[i] \in Elements(remote)  BY <1>1, <1>2, ElementsOf
  <2> QED  BY <2>1, KnownFacts
<1>4. ASSUME NEW d \in Known, d.author = a PROVE d = remote[i] \/ d.id < remote[i].id
  <2>1. d \in Elements(remote)
    <3>1. \A b \in Agents : d \in Elements(Outbox(b)) => b = a  BY <1>4 DEF OrgInv, OrderInv
    <3>2. Elements(Outbox(a)) = {}  BY ElementsEmpty
    <3> QED  BY <3>1, <3>2 DEF Known
  <2>2. PICK j \in 1..Len(remote) : d = remote[j]  BY <1>1, <2>1, ElementsOf
  <2>3. ~(j > i)  BY <1>1, <1>4, <2>2 DEF IsLast
  <2>4. CASE j = i  BY <2>2, <2>4
  <2>5. CASE j < i
    <3>1. Ordered(remote)  BY DEF OrgInv, OrderInv
    <3> QED  BY <1>1, <1>2, <1>4, <2>2, <2>5, <3>1 DEF Ordered
  <2> QED  BY <1>1, <1>2, <2>2, <2>3, <2>4, <2>5
<1> QED  BY <1>2, <1>3, <1>4

LEMMA SettleCases ==
  ASSUME OrgInv, NEW a \in Agents, Settle(a)
  PROVE  /\ phase[a] = "settle" /\ local[a] = <<>> /\ todo[a] = <<>> /\ Outbox(a) = <<>>
         /\ base' = [base EXCEPT ![a] = Len(remote)]
         /\ UNCHANGED <<remote, local, todo, made, now>>
         /\ \/ attempt[a] + 1 \in 0..3 /\ Goto(a, "settle", attempt[a] + 1) /\ UNCHANGED held
            \/ \E i : IsLast(a, i) /\ Returns(a, remote[i])
<1>1. /\ phase[a] = "settle" /\ base' = [base EXCEPT ![a] = Len(remote)]
      /\ UNCHANGED <<remote, local, todo, made, now>>
  BY DEF Settle
<1>2. attempt[a] \in 0..3  BY DEF OrgInv, TypeOK
<1>3. local[a] = <<>> /\ todo[a] = <<>>  BY <1>1 DEF OrgInv, PhaseInv
<1>4. <<>> \o <<>> = <<>>  BY EmptySeq, ConcatEmptySeq
<1>5. Outbox(a) = <<>>  BY <1>3, <1>4 DEF Outbox
<1>6. CASE attempt[a] < 3 /\ Goto(a, "settle", attempt[a] + 1) /\ UNCHANGED held
  <2>1. attempt[a] + 1 \in 0..3  BY <1>2, <1>6
  <2> QED  BY <1>1, <1>3, <1>5, <1>6, <2>1
<1>7. CASE \E i : IsLast(a, i) /\ Returns(a, remote[i])  BY <1>1, <1>3, <1>5, <1>7
<1> QED  BY <1>6, <1>7 DEF Settle, IsLast

LEMMA SettleKeeps == ASSUME OrgInv, NEW a \in Agents, Settle(a) PROVE OrgInv'
<1>1. /\ phase[a] = "settle" /\ local[a] = <<>> /\ todo[a] = <<>> /\ Outbox(a) = <<>>
      /\ base' = [base EXCEPT ![a] = Len(remote)]
      /\ UNCHANGED <<remote, local, todo, made, now>>
  BY SettleCases
<1>2. TypeOK /\ PhaseInv /\ ConflictsOnlyOnSharedPaths /\ Len(remote) \in Nat  BY Facts DEF OrgInv
<1>3. \A b \in Agents : Outbox(b)' = Outbox(b)  BY <1>1 DEF Outbox
<1>4. /\ Books' /\ RemovalInv' /\ LockHistoryHonest' /\ OrderInv' /\ ChainInv' /\ Known' = Known
  BY <1>1, <1>3, Fetched
<1>5. base' \in [Agents -> Nat] /\ \A b \in Agents : base'[b] \in {base[b], Len(remote)}
  BY <1>1, <1>2 DEF TypeOK
<1>6. /\ phase' \in [Agents -> Phases] /\ attempt' \in [Agents -> 0..3]
      /\ phase'[a] \in {"idle", "settle"} /\ \A b \in Agents : b # a => phase'[b] = phase[b]
  <2>1. "idle" \in Phases /\ "settle" \in Phases /\ 0 \in 0..3  BY DEF Phases
  <2>2. CASE attempt[a] + 1 \in 0..3 /\ Goto(a, "settle", attempt[a] + 1)  BY <2>1, <2>2, Goes
  <2>3. CASE Goto(a, "idle", 0)  BY <2>1, <2>3, Goes
  <2> QED  BY <2>2, <2>3, SettleCases DEF Returns, Idle
<1>7. HeldInv' /\ held' \in [Agents -> Nat]
  <2>1. Renewed(Known, Known') /\ held \in [Agents -> Nat]  BY <1>2, <1>4, RenewedSelf DEF TypeOK
  <2>2. CASE UNCHANGED held  BY <2>1, <2>2, HeldSame
  <2>3. CASE \E i : IsLast(a, i) /\ Returns(a, remote[i])
    <3>1. PICK i : IsLast(a, i) /\ Returns(a, remote[i])  BY <2>3
    <3>2. PICK c : c = remote[i]  OBVIOUS
    <3>3. c \in Known /\ c.author = a /\ \A d \in Known : d.author = a => d = c \/ d.id < c.id
      BY <1>1, <3>1, <3>2, LastOfAll
    <3>4. held' = IF c.path = Lock /\ c.op = "put" THEN [held EXCEPT ![a] = c.until] ELSE held
      BY <3>1, <3>2 DEF Returns
    <3>5. \A d \in Known : d.author = a /\ d.op # c.op => d.id < c.id  BY <3>3
    <3> QED  BY <2>1, <3>3, <3>4, <3>5, HeldTaken
  <2> QED  BY <2>2, <2>3, SettleCases
<1>8. TypeOK'  BY <1>1, <1>2, <1>5, <1>6, <1>7 DEF TypeOK
<1>9. PhaseInv'
  <2>1. \A b \in Agents : base'[b] <= Len(remote)  BY <1>2, <1>5 DEF PhaseInv
  <2>2. phase'[a] \in {"idle", "settle"} /\ todo'[a] = <<>> /\ local'[a] = <<>>  BY <1>1, <1>6
  <2> SUFFICES ASSUME NEW b \in Agents
               PROVE  /\ base'[b] <= Len(remote')
                      /\ phase'[b] \in {"idle", "push", "pull", "unlock", "settle"} => todo'[b] = <<>>
                      /\ phase'[b] \in {"push", "pull"} => LastIsPut(local'[b])
                      /\ phase'[b] = "unlock" => local'[b] # <<>> /\ Newest(b)'.op = "remove"
                      /\ phase'[b] = "replay" => LastIsPut(todo'[b])
                      /\ phase'[b] = "conflict" => todo'[b] # <<>>
                      /\ phase'[b] = "settle" => local'[b] = <<>>
    BY DEF PhaseInv
  <2>3. CASE b = a  BY <1>1, <2>1, <2>2, <2>3
  <2>4. CASE b # a  BY <1>1, <1>2, <1>6, <2>1, <2>4 DEF PhaseInv, Newest
  <2> QED  BY <2>3, <2>4
<1>10. ConflictsOnlyOnSharedPaths'
  <2>1. \A b \in Agents : phase'[b] = "conflict" => phase[b] = "conflict" /\ todo'[b] = todo[b]
    BY <1>1, <1>6
  <2> QED  BY <1>2, <2>1 DEF ConflictsOnlyOnSharedPaths
<1> QED  BY <1>4, <1>7, <1>8, <1>9, <1>10, Assembled
-----------------------------------------------------------------------------
(* Who removes a lock in the belief that he holds it: the lock in his      *)
(* clone is his own; or the first thing that happened to his after he put  *)
(* it was that another lock replaced it, so that it has expired, or that   *)
(* somebody else removed it.                                               *)
LEMMA RemovalJustified ==
  ASSUME OrgInv, NEW a \in Agents, phase[a] = "idle", held[a] # 0, Exists(Clone(a), Lock)
  PROVE  \/ \A d \in Known : d.id = Content(Clone(a), Lock) => d.author = a
         \/ now >= held[a]
         \/ Lost(a)
<1> DEFINE h == Clone(a)
           x == Last(h, Lock)
<1>1. /\ h \in Seq(Commits) /\ remote \in Seq(Commits) /\ local[a] \in Seq(Commits)
      /\ Len(remote) \in Nat /\ base[a] \in 0..Len(remote) /\ Chained(h) /\ Ordered(h)
      /\ SubSeq(remote, 1, base[a]) \in Seq(Commits) /\ h = SubSeq(remote, 1, base[a]) \o local[a]
  BY Facts, CloneOrder DEF OrgInv, ChainInv, Clone
<1>2. PICK L \in Known :
        /\ L.author = a /\ L.path = Lock /\ L.op = "put" /\ L.until = held[a]
        /\ \A d \in Known : d.author = a /\ d.op = "remove" => d.id < L.id
  BY DEF OrgInv, HeldInv
<1>3. L \in Elements(h)
  <2>1. todo[a] = <<>>  BY DEF OrgInv, PhaseInv
  <2> QED  BY <1>2, <2>1, Owned, ElementsEmpty
<1>4. Elements(h) \subseteq Known /\ Known \subseteq Commits /\ now \in Nat  BY KnownFacts
<1>5. h[x].author # a \/ \A d \in Known : d.id = Content(h, Lock) => d.author = a
  <2>1. h[x] \in Elements(h) /\ Content(h, Lock) = h[x].id  BY <1>1, ContentOf
  <2>2. ASSUME NEW d \in Known, d.id = Content(h, Lock), h[x].author = a PROVE d.author = a
    <3>1. Alike(d, h[x])  BY <1>4, <2>1, <2>2 DEF OrgInv, CommitsInv
    <3> QED  BY <2>2, <3>1 DEF Alike
  <2> QED  BY <2>2
<1>6. Len(h) \in Nat /\ DOMAIN h = 1..Len(h) /\ Elements(h) = {h[i] : i \in 1..Len(h)}
  BY <1>1, ElementsOf
<1>7. x \in Touching(h, Lock) /\ \A j \in Touching(h, Lock) : j <= x
  BY <1>1, LastOf DEF Exists
<1> HIDE DEF h
<1>8. PICK l \in 1..Len(h) : h[l] = L  BY <1>3, <1>6
<1>9. l \in Touching(h, Lock)  BY <1>2, <1>6, <1>8 DEF Touching
<1>10. Touching(h, Lock) \subseteq 1..Len(h)  BY <1>6 DEF Touching
<1> SUFFICES ASSUME h[x].author # a PROVE now >= held[a] \/ Lost(a)
  BY <1>5 DEF h
<1>11. l < x  BY <1>2, <1>6, <1>7, <1>8, <1>9, <1>10
<1> DEFINE T == {k \in Touching(h, Lock) : k > l}
<1>12. PICK y \in T : \A k \in T : y <= k
  <2>1. T \subseteq Nat /\ T # {}  BY <1>6, <1>7, <1>10, <1>11
  <2> HIDE DEF T
  <2> QED  BY <2>1, Least
<1>13. /\ y \in 1..Len(h) /\ l < y /\ h[y].path = Lock
       /\ \A k \in Touching(h, Lock) : k > l => y <= k
  <2>1. y \in Touching(h, Lock) /\ l < y  BY <1>12
  <2> QED  BY <1>6, <1>10, <1>12, <2>1 DEF Touching
<1> HIDE DEF T, x
<1> DEFINE p == SubSeq(h, 1, y - 1)
<1>14. /\ p \in Seq(Commits) /\ Len(p) = y - 1 /\ \A k \in 1..(y - 1) : p[k] = h[k]
  <2>1. y - 1 \in 0..Len(h)  BY <1>6, <1>13
  <2> QED  BY <1>1, <2>1, Prefix
<1>15. DOMAIN p = 1..(y - 1)  BY <1>14, LenProperties
<1>16. h[y].over = Content(p, Lock)  BY <1>1, <1>6, <1>13 DEF Chained
<1> HIDE DEF p
<1>17. l \in Touching(p, Lock) /\ p[l] = L
  <2>1. l \in 1..(y - 1)  BY <1>6, <1>8, <1>13
  <2> QED  BY <1>2, <1>8, <1>14, <1>15, <2>1 DEF Touching
<1>18. \A j \in Touching(p, Lock) : j <= l
  <2>1. TAKE j \in Touching(p, Lock)
  <2>2. j \in 1..(y - 1) /\ p[j].path = Lock  BY <1>15 DEF Touching
  <2>3. j \in 1..Len(h) /\ h[j].path = Lock  BY <1>6, <1>13, <1>14, <2>2
  <2>4. j \in Touching(h, Lock)  BY <1>6, <2>3 DEF Touching
  <2> QED  BY <1>6, <1>8, <1>13, <2>2, <2>4
<1>19. Last(p, Lock) = l  BY <1>14, <1>17, <1>18, LastIs
<1>20. Exists(p, Lock) /\ Content(p, Lock) = L.id  BY <1>2, <1>17, <1>19 DEF Exists, Content
<1>21. h[y] \in Elements(h) /\ h[y] \in Known /\ h[y] \in Commits  BY <1>4, <1>6, <1>13
<1>22. CASE h[y].op = "put"
  <2>1. h[y].at >= L.until  BY <1>2, <1>13, <1>16, <1>20, <1>21, <1>22 DEF OrgInv, LockInv
  <2>2. h[y].at <= now /\ h[y].at \in Nat /\ L.until \in Nat
    BY <1>4, <1>21, CommitFields DEF OrgInv, CommitsInv
  <2> QED  BY <1>2, <1>4, <2>1, <2>2
<1>23. CASE h[y].op = "remove"
  <2>1. h[y].author # a
    <3>1. SUFFICES ASSUME h[y].author = a PROVE FALSE  OBVIOUS
    <3>2. L.id < h[y].id
      <4>1. Ordered(h) /\ l \in DOMAIN h /\ y \in DOMAIN h /\ l < y  BY <1>1, <1>6, <1>8, <1>13
      <4>2. h[l].author = h[y].author  BY <1>2, <1>8, <3>1
      <4>3. h[l].id < h[y].id  BY <4>1, <4>2 DEF Ordered
      <4> QED  BY <1>8, <4>3
    <3>3. h[y].id < L.id  BY <1>2, <1>21, <1>23, <3>1
    <3>4. L.id \in Nat /\ h[y].id \in Nat  BY <1>4, <1>21, CommitFields
    <3> QED  BY <3>2, <3>3, <3>4
  <2> DEFINE r == SubSeq(remote, 1, base[a])
  <2>2. r \in Seq(Commits) /\ Len(r) = base[a] /\ \A k \in 1..base[a] : r[k] = remote[k]
    BY <1>1, Prefix
  <2>3. h = r \o local[a] /\ Len(local[a]) \in Nat  BY <1>1, LenProperties
  <2>4. \A k \in 0..base[a] : SubSeq(r, 1, k) = SubSeq(remote, 1, k)  BY <1>1, PrefixOfPrefix
  <2> HIDE DEF r
  <2>5. /\ Len(h) = Len(r) + Len(local[a])
        /\ \A k \in 1..(Len(r) + Len(local[a])) :
             h[k] = IF k <= Len(r) THEN r[k] ELSE local[a][k - Len(r)]
    BY <1>1, <2>2, <2>3, ConcatProperties
  <2>6. y <= base[a]
    <3>1. SUFFICES ASSUME ~(y <= base[a]) PROVE FALSE  OBVIOUS
    <3>2. y - Len(r) \in 1..Len(local[a]) /\ h[y] = local[a][y - Len(r)]
      BY <1>1, <1>13, <2>2, <2>3, <2>5, <3>1
    <3>3. h[y] \in Elements(local[a])
      <4>0. local[a] \in Seq(Commits)  BY <1>1
      <4>1. Elements(local[a]) = {local[a][i] : i \in 1..Len(local[a])}  BY <4>0, ElementsOf
      <4> QED  BY <3>2, <4>1
    <3> QED  BY <2>1, <3>3, CloneOrder
  <2>7. y \in 1..Len(remote) /\ y \in 1..base[a] /\ remote[y] = h[y]
    <3>1. y \in 1..base[a] /\ y \in 1..Len(remote)  BY <1>1, <1>13, <2>6
    <3> QED  BY <1>1, <1>13, <2>2, <2>5, <3>1
  <2>8. p = Before(y)
    <3>1. y - 1 \in 0..base[a] /\ y - 1 \in 0..Len(r)  BY <1>1, <2>2, <2>7
    <3>2. SubSeq(h, 1, y - 1) = SubSeq(r, 1, y - 1)  BY <1>1, <2>2, <2>3, <3>1, PrefixOfConcat
    <3> QED  BY <2>4, <3>1, <3>2 DEF p, Before
  <2>9. LockBefore(y) = L  BY <1>17, <1>19, <2>8 DEF LockBefore
  <2>10. TakesOut(y, a)  BY <1>2, <1>20, <1>23, <2>1, <2>7, <2>8, <2>9 DEF TakesOut
  <2>11. y \in Touching(remote, Lock)
    <3>1. DOMAIN remote = 1..Len(remote)  BY <1>1, LenProperties
    <3> QED  BY <1>13, <2>7, <3>1 DEF Touching
  <2> QED  BY <2>10, <2>11 DEF Lost
<1> QED  BY <1>21, <1>22, <1>23, CommitFields
-----------------------------------------------------------------------------
(* A commit on top of the clone.                                           *)
NewCommit(a, path, op, at, until) ==
  [id |-> made + 1, author |-> a, path |-> path, op |-> op,
   over |-> Content(Clone(a), path), replayed |-> FALSE, at |-> at, until |-> until]

(* The conditions under which the operations commit.                       *)
CommitReasons(a, path, op, at, until) ==
  /\ op = "put" /\ path = Lock => LockExpired(Clone(a)) /\ at = now
  /\ op = "put" => UNCHANGED held
  /\ op = "remove" => /\ path = Lock /\ Exists(Clone(a), Lock)
                      /\ held[a] # 0 /\ until = held[a] /\ at = now
                      /\ held' = [held EXCEPT ![a] = 0]

LEMMA ConcatAppend ==
  ASSUME NEW s \in Seq(Commits), NEW t \in Seq(Commits), NEW e \in Commits
  PROVE  s \o Append(t, e) = Append(s \o t, e)
<1>1. Append(t, e) = t \o <<e>> /\ <<e>> \in Seq(Commits)  BY AppendIsConcat, ElementsSingle
<1>2. s \o t \in Seq(Commits)  BY ConcatProperties
<1>3. Append(s \o t, e) = (s \o t) \o <<e>>  BY <1>2, AppendIsConcat
<1>4. (s \o t) \o <<e>> = s \o (t \o <<e>>)  BY <1>1, ConcatAssociative
<1> QED  BY <1>1, <1>3, <1>4

CommitEffect(a, c, next) ==
  /\ c \in Commits /\ phase[a] = "idle" /\ todo[a] = <<>>
  /\ c.id = made + 1 /\ c.author = a /\ c.over = Content(Clone(a), c.path) /\ c.over <= made
  /\ made' = made + 1 /\ made < MaxCommits
  /\ Goto(a, next, 1) /\ UNCHANGED <<remote, base, todo, now>>
  /\ local'[a] = Append(local[a], c) /\ local' \in [Agents -> Seq(Commits)]
  /\ \A b \in Agents : b # a => /\ local'[b] = local[b]
                                /\ Outbox(b)' = Outbox(b) /\ Clone(b)' = Clone(b)
  /\ Outbox(a)' = Append(local[a], c) /\ Outbox(a) = local[a]
  /\ Clone(a)' = Append(Clone(a), c)
  /\ Elements(Outbox(a)') = Elements(Outbox(a)) \cup {c}
  /\ Known' = Known \cup {c}

LEMMA CommitFacts ==
  ASSUME OrgInv, NEW a \in Agents, NEW path \in {a, Lock, Shared},
         NEW op \in {"put", "remove"}, NEW at \in Nat, NEW until \in Nat, NEW next,
         Commit(a, path, op, at, until, next)
  PROVE  \E c : CommitEffect(a, c, next) /\ c.path = path /\ c.op = op /\ c.at = at /\ c.until = until
<1> PICK c : c = NewCommit(a, path, op, at, until)  OBVIOUS
<1>1. /\ phase[a] = "idle" /\ made < MaxCommits /\ made' = made + 1
      /\ local' = [local EXCEPT ![a] = Append(local[a], c)]
      /\ Goto(a, next, 1) /\ UNCHANGED <<remote, base, todo, now>>
  BY DEF Commit, NewCommit
<1>2. /\ TypeOK /\ Clone(a) \in Seq(Commits) /\ local[a] \in Seq(Commits)
      /\ SubSeq(remote, 1, base[a]) \in Seq(Commits)
      /\ Elements(Outbox(a)) = Elements(local[a]) \cup Elements(todo[a])
  BY Facts DEF OrgInv
<1>3. made \in Nat /\ Known \subseteq Commits /\ Elements(Clone(a)) \subseteq Known  BY KnownFacts
<1>4. /\ c.id = made + 1 /\ c.author = a /\ c.path = path /\ c.op = op /\ c.at = at
      /\ c.until = until /\ c.over = Content(Clone(a), path)
  BY DEF NewCommit
<1>5. c \in Commits
  <2>1. made + 1 \in 1..MaxCommits  BY <1>1, <1>3, OrgMemoryAssumption
  <2>2. Content(Clone(a), path) \in 0..MaxCommits  BY <1>2, ContentTyped
  <2> QED  BY <2>1, <2>2 DEF Commits, NewCommit, Paths
<1>6. c.over <= made
  <2>1. CASE Content(Clone(a), path) = 0  BY <1>3, <1>4, <2>1
  <2>2. CASE Content(Clone(a), path) # 0
    <3>1. PICK d \in Elements(Clone(a)) : d.id = Content(Clone(a), path)
      BY <1>2, <2>2, ContentOf
    <3>2. d.id <= made  BY <1>3, <3>1 DEF OrgInv, CommitsInv
    <3> QED  BY <1>4, <3>1, <3>2
  <2> QED  BY <2>1, <2>2
<1>7. todo[a] = <<>>  BY <1>1 DEF OrgInv, PhaseInv
<1>8. /\ Append(local[a], c) \in Seq(Commits)
      /\ Elements(Append(local[a], c)) = Elements(local[a]) \cup {c}
  <2>1. Append(local[a], c) \in Seq(Commits)  BY <1>2, <1>5, AppendProperties
  <2>2. Elements(Append(local[a], c)) = Elements(local[a]) \cup {c}
    <3>1. local[a] \in Seq(Commits)  BY <1>2
    <3> QED  BY <1>5, <3>1, ElementsAppend
  <2> QED  BY <2>1, <2>2
<1>9. /\ local'[a] = Append(local[a], c) /\ local' \in [Agents -> Seq(Commits)]
      /\ \A b \in Agents : b # a => local'[b] = local[b]
  BY <1>1, <1>2, <1>8 DEF TypeOK
<1>10. \A b \in Agents : b # a => Outbox(b)' = Outbox(b) /\ Clone(b)' = Clone(b)
  BY <1>1, <1>9 DEF Outbox, Clone
<1>11. Outbox(a)' = Append(local[a], c) /\ Outbox(a) = local[a]
  <2>1. Append(local[a], c) \o <<>> = Append(local[a], c) /\ local[a] \o <<>> = local[a]
    BY <1>2, <1>8, ConcatEmptySeq
  <2> QED  BY <1>1, <1>7, <1>9, <2>1 DEF Outbox
<1>12. Clone(a)' = Append(Clone(a), c)
  <2>1. SubSeq(remote, 1, base[a]) \o Append(local[a], c)
        = Append(SubSeq(remote, 1, base[a]) \o local[a], c)
    BY <1>2, <1>5, ConcatAppend
  <2> QED  BY <1>1, <1>9, <2>1 DEF Clone
<1>13. Elements(Outbox(a)') = Elements(Outbox(a)) \cup {c}  BY <1>8, <1>11
<1>14. Known' = Known \cup {c}
  <2>1. Known' = Elements(remote) \cup UNION {Elements(Outbox(b)') : b \in Agents}
    BY <1>1 DEF Known, Elements
  <2>2. \A b \in Agents : b # a => Elements(Outbox(b)') = Elements(Outbox(b))  BY <1>10
  <2> QED  BY <1>13, <2>1, <2>2 DEF Known
<1> QED
  BY <1>1, <1>4, <1>5, <1>6, <1>7, <1>9, <1>10, <1>11, <1>12, <1>13, <1>14 DEF CommitEffect

LEMMA CommitBooks ==
  ASSUME OrgInv, NEW a \in Agents, NEW path \in {a, Lock, Shared},
         NEW op \in {"put", "remove"}, NEW at \in Nat, NEW until \in Nat, NEW next,
         at <= now, CommitReasons(a, path, op, at, until),
         Commit(a, path, op, at, until, next)
  PROVE  Books' /\ OrderInv' /\ ChainInv'
<1>0. PICK c : CommitEffect(a, c, next) /\ c.path = path /\ c.op = op /\ c.at = at /\ c.until = until
  BY CommitFacts
<1>1. /\ c \in Commits /\ phase[a] = "idle" /\ todo[a] = <<>>
      /\ c.id = made + 1 /\ c.author = a /\ c.path = path /\ c.op = op /\ c.at = at
      /\ c.over = Content(Clone(a), path) /\ c.over <= made
      /\ made' = made + 1 /\ UNCHANGED <<remote, base, now>>
      /\ \A b \in Agents : b # a => Outbox(b)' = Outbox(b) /\ Clone(b)' = Clone(b)
      /\ Outbox(a)' = Append(local[a], c) /\ Outbox(a) = local[a]
      /\ Clone(a)' = Append(Clone(a), c)
      /\ Elements(Outbox(a)') = Elements(Outbox(a)) \cup {c}
      /\ Known' = Known \cup {c}
  BY <1>0 DEF CommitEffect
<1>2. /\ Known \subseteq Commits /\ made \in Nat /\ now \in Nat
      /\ Elements(Clone(a)) \subseteq Known /\ Elements(remote) \subseteq Known
      /\ \A b \in Agents : Elements(Outbox(b)) \subseteq Known
  BY KnownFacts
<1>3. /\ CommitsInv(Known, made, now) /\ OwnPathInv(Known) /\ LockInv(Known)
      /\ OrderInv /\ ChainInv
  BY DEF OrgInv
<1>4. Clone(a) \in Seq(Commits) /\ local[a] \in Seq(Commits)  BY Facts
<1>5. path \in Agents => /\ c.author = path /\ c.op = "put"
                         /\ \A d \in Known : d.path = path => d.id <= c.over
                         /\ c.over # 0 => \E d \in Known : d.path = path /\ d.id = c.over
  <2> SUFFICES ASSUME path \in Agents
               PROVE  /\ c.author = path /\ c.op = "put"
                      /\ \A d \in Known : d.path = path => d.id <= c.over
                      /\ c.over # 0 => \E d \in Known : d.path = path /\ d.id = c.over
    OBVIOUS
  <2>1. path = a /\ path # Lock  BY OrgMemoryAssumption
  <2>2. c.op = "put"  BY <1>1, <2>1 DEF CommitReasons
  <2>3. \A d \in Known : d.path = a => d.author = a /\ d.op = "put"  BY <1>3 DEF CommitsInv
  <2>4. /\ Content(Clone(a), a) # 0 =>
             \E d \in Elements(Clone(a)) : d.path = a /\ d.id = Content(Clone(a), a)
        /\ \A d \in Elements(Clone(a)) : d.path = a => d.id <= Content(Clone(a), a)
    <3>1. \A d \in Elements(Clone(a)) : d.path = a => d.author = a /\ d.op = "put"
      BY <1>2, <2>3
    <3>2. Ordered(Clone(a))  BY CloneOrder
    <3> QED  BY <1>4, <3>1, <3>2, NewestOnPath
  <2>5. \A d \in Known : d.path = a => d \in Elements(Clone(a))
    BY <1>1, <2>3, Owned, ElementsEmpty
  <2> QED  BY <1>1, <1>2, <2>1, <2>2, <2>4, <2>5
<1>6. path = Lock /\ op = "put" => \A d \in Known : d.id = c.over => c.at >= d.until
  <2> SUFFICES ASSUME path = Lock, op = "put", NEW d \in Known, d.id = c.over
               PROVE  c.at >= d.until
    OBVIOUS
  <2>1. LockExpired(Clone(a)) /\ at = now  BY DEF CommitReasons
  <2>2. d.id # 0  BY <1>2, CommitFields
  <2> DEFINE l == Clone(a)[Last(Clone(a), Lock)]
  <2>3. Exists(Clone(a), Lock) /\ l \in Elements(Clone(a)) /\ c.over = l.id
    BY <1>1, <1>4, <2>2, ContentOf
  <2>4. now >= l.until  BY <2>1, <2>3 DEF LockExpired
  <2> HIDE DEF l
  <2>5. Alike(d, l)  BY <1>2, <1>3, <2>3 DEF CommitsInv
  <2> QED  BY <1>1, <2>1, <2>4, <2>5 DEF Alike
<1>7. Books'
  <2>1. op = "remove" => path = Lock  BY DEF CommitReasons
  <2> DEFINE K == Known
             n == made
             t == now
  <2>2. /\ K \subseteq Commits /\ n \in Nat /\ t \in Nat
        /\ CommitsInv(K, n, t) /\ OwnPathInv(K) /\ LockInv(K)
        /\ c.id = n + 1 /\ c.over <= n /\ c.at <= t /\ (c.op = "remove" => c.path = Lock)
        /\ c.path \in Agents => /\ c.author = c.path /\ c.op = "put"
                                /\ \A d \in K : d.path = c.path => d.id <= c.over
                                /\ c.over # 0 => \E d \in K : d.path = c.path /\ d.id = c.over
        /\ c.path = Lock /\ c.op = "put" => \A d \in K : d.id = c.over => c.at >= d.until
    BY <1>1, <1>2, <1>3, <1>5, <1>6, <2>1
  <2> HIDE DEF K, n, t
  <2>3. CommitsInv(K \cup {c}, n + 1, t) /\ OwnPathInv(K \cup {c}) /\ LockInv(K \cup {c})
    BY <1>1, <2>2, AddedInv
  <2>4. Known' = K \cup {c} /\ made' = n + 1 /\ now' = t  BY <1>1 DEF K, n, t
  <2>5. CommitsInv(Known', made', now') /\ OwnPathInv(Known') /\ LockInv(Known')
    BY <2>3, <2>4
  <2> QED  BY <2>5 DEF Books
<1>8. OrderInv'
  <2>1. \A d \in Known : d.id \in Nat /\ d.id < c.id
    <3>1. \A d \in Known : d.id <= made /\ d.id \in Nat  BY <1>2, <1>3, CommitFields DEF CommitsInv
    <3> QED  BY <1>1, <1>2, <3>1
  <2>2. Ordered(Outbox(a)')
    <3>1. <<c>> \in Seq(Commits) /\ Elements(<<c>>) = {c} /\ Append(local[a], c) = local[a] \o <<c>>
      BY <1>1, <1>4, ElementsSingle, AppendIsConcat
    <3>2. Ordered(local[a]) /\ Ordered(<<c>>)  BY CloneOrder DEF Ordered
    <3>3. \A d \in Elements(local[a]), e \in Elements(<<c>>) : d.author = e.author => d.id < e.id
      BY <1>1, <1>2, <2>1, <3>1
    <3> QED  BY <1>1, <1>4, <3>1, <3>2, <3>3, OrderedConcat
  <2>3. ASSUME NEW b \in Agents
        PROVE  /\ Ordered(Outbox(b)')
               /\ \A d \in Elements(Outbox(b)') : d.author = b
               /\ \A e \in Elements(remote), d \in Elements(Outbox(b)') : e.author = b => e.id < d.id
    <3>1. CASE b = a  BY <1>1, <1>2, <1>3, <2>1, <2>2, <3>1 DEF OrderInv
    <3>2. CASE b # a  BY <1>1, <1>3, <3>2 DEF OrderInv
    <3> QED  BY <3>1, <3>2
  <2>4. /\ Ordered(remote)' = Ordered(remote) /\ Elements(remote)' = Elements(remote)
        /\ \A b \in Agents : /\ Ordered(Outbox(b))' = Ordered(Outbox(b)')
                             /\ Elements(Outbox(b))' = Elements(Outbox(b)')
    BY <1>1 DEF Ordered, Elements
  <2>5. \A b \in Agents : \A i \in (base'[b] + 1)..Len(remote') : remote'[i].author # b
    BY <1>1, <1>3 DEF OrderInv
  <2> QED  BY <1>3, <2>3, <2>4, <2>5 DEF OrderInv
<1>9. ChainInv'
  <2>1. Chained(Append(Clone(a), c))
    BY <1>1, <1>3, <1>4, ChainedAppend DEF ChainInv
  <2>2. \A b \in Agents : Chained(Clone(b)')  BY <1>1, <1>3, <2>1 DEF ChainInv
  <2>3. /\ Chained(remote)' = Chained(remote')
        /\ \A b \in Agents : Chained(Clone(b))' = Chained(Clone(b)')
    BY DEF Chained, Content, Exists, Last, Touching
  <2> QED  BY <1>1, <1>3, <2>2, <2>3 DEF ChainInv
<1> QED  BY <1>7, <1>8, <1>9

LEMMA CommitKeeps ==
  ASSUME OrgInv, NEW a \in Agents, NEW path \in {a, Lock, Shared},
         NEW op \in {"put", "remove"}, NEW at \in Nat, NEW until \in Nat,
         NEW next \in {"push", "unlock"}, next = "push" <=> op = "put",
         at <= now, CommitReasons(a, path, op, at, until),
         Commit(a, path, op, at, until, next)
  PROVE  OrgInv'
<1>0. PICK c : CommitEffect(a, c, next) /\ c.path = path /\ c.op = op /\ c.at = at /\ c.until = until
  BY CommitFacts
<1>1. /\ c \in Commits /\ phase[a] = "idle" /\ todo[a] = <<>>
      /\ c.id = made + 1 /\ c.author = a /\ c.path = path /\ c.op = op /\ c.at = at
      /\ c.until = until /\ c.over = Content(Clone(a), path) /\ c.over <= made
      /\ made' = made + 1 /\ made < MaxCommits
      /\ Goto(a, next, 1) /\ UNCHANGED <<remote, base, todo, now>>
      /\ local'[a] = Append(local[a], c) /\ local' \in [Agents -> Seq(Commits)]
      /\ \A b \in Agents : b # a => local'[b] = local[b] /\ Outbox(b)' = Outbox(b)
      /\ Elements(Outbox(a)') = Elements(Outbox(a)) \cup {c}
      /\ Known' = Known \cup {c}
  BY <1>0 DEF CommitEffect
<1>2. TypeOK /\ PhaseInv /\ ConflictsOnlyOnSharedPaths /\ local[a] \in Seq(Commits)
  BY Facts DEF OrgInv
<1>3. /\ Known \subseteq Commits /\ made \in Nat /\ now \in Nat
      /\ \A b \in Agents : Elements(Outbox(b)) \subseteq Known
  BY KnownFacts
<1>4. \A d \in Known : d.id \in Nat /\ d.id <= made /\ d.over \in Nat /\ d.over < d.id
  BY <1>3, CommitFields DEF OrgInv, CommitsInv
<1>5. Books' /\ OrderInv' /\ ChainInv'  BY CommitBooks
<1>6. LockHistoryHonest' /\ \A b : Lost(b) => Lost(b)'  BY <1>1, SamePublished
<1>7. /\ phase' \in [Agents -> Phases] /\ attempt' \in [Agents -> 0..3]
      /\ phase'[a] = next /\ \A b \in Agents : b # a => phase'[b] = phase[b]
  <2>1. next \in Phases /\ 1 \in 0..3  BY DEF Phases
  <2> QED  BY <1>1, <2>1, Goes
<1>8. /\ local'[a] # <<>> /\ Len(local'[a]) \in Nat /\ local'[a][Len(local'[a])] = c
  <2>1. /\ Append(local[a], c) # <<>> /\ Len(local[a]) \in Nat
        /\ Len(Append(local[a], c)) = Len(local[a]) + 1
        /\ Append(local[a], c)[Len(local[a]) + 1] = c
    BY <1>1, <1>2, AppendProperties, LenProperties
  <2> QED  BY <1>1, <2>1
<1>9. PhaseInv'
  <2> SUFFICES ASSUME NEW b \in Agents
               PROVE  /\ base'[b] <= Len(remote')
                      /\ phase'[b] \in {"idle", "push", "pull", "unlock", "settle"} => todo'[b] = <<>>
                      /\ phase'[b] \in {"push", "pull"} => LastIsPut(local'[b])
                      /\ phase'[b] = "unlock" => local'[b] # <<>> /\ Newest(b)'.op = "remove"
                      /\ phase'[b] = "replay" => LastIsPut(todo'[b])
                      /\ phase'[b] = "conflict" => todo'[b] # <<>>
                      /\ phase'[b] = "settle" => local'[b] = <<>>
    BY DEF PhaseInv
  <2>1. CASE b = a
    <3>1. Newest(a)' = c  BY <1>8 DEF Newest
    <3> QED  BY <1>1, <1>2, <1>7, <1>8, <2>1, <3>1 DEF PhaseInv, LastIsPut
  <2>2. CASE b # a
    <3>1. Newest(b)' = Newest(b)  BY <1>1, <2>2 DEF Newest
    <3> QED  BY <1>1, <1>2, <1>7, <2>2, <3>1 DEF PhaseInv
  <2> QED  BY <2>1, <2>2
<1>10. ConflictsOnlyOnSharedPaths'
  <2>1. \A b \in Agents : phase'[b] = "conflict" => phase[b] = "conflict" /\ todo'[b] = todo[b]
    BY <1>1, <1>7
  <2> QED  BY <1>2, <2>1 DEF ConflictsOnlyOnSharedPaths
<1>11. held' \in [Agents -> Nat] /\ \A b \in Agents : held'[b] \in {held[b], 0}
                                 /\ (op = "remove" => held'[a] = 0)
  BY <1>2 DEF CommitReasons, TypeOK
<1>12. HeldInv'
  <2> SUFFICES ASSUME NEW b \in Agents, held'[b] # 0
               PROVE  \E l \in Known' :
                        /\ l.author = b /\ l.path = Lock /\ l.op = "put" /\ l.until = held'[b]
                        /\ \A d \in Known' : d.author = b /\ d.op = "remove" => d.id < l.id
    BY DEF HeldInv
  <2>1. held'[b] = held[b]  BY <1>11
  <2>2. PICK l \in Known :
          /\ l.author = b /\ l.path = Lock /\ l.op = "put" /\ l.until = held[b]
          /\ \A d \in Known : d.author = b /\ d.op = "remove" => d.id < l.id
    BY <2>1 DEF OrgInv, HeldInv
  <2>3. ~(c.author = b /\ c.op = "remove")  BY <1>1, <1>11
  <2>4. \A d \in Known' : d.author = b /\ d.op = "remove" => d.id < l.id
    BY <1>1, <2>2, <2>3
  <2> QED  BY <1>1, <2>1, <2>2, <2>4
<1>13. TypeOK'
  <2>1. made' \in 0..MaxCommits  BY <1>1, <1>3, OrgMemoryAssumption
  <2> QED  BY <1>1, <1>2, <1>7, <1>11, <2>1 DEF TypeOK
<1>14. RemovalInv'
  <2> SUFFICES ASSUME NEW b \in Agents, NEW e \in Elements(Outbox(b))', e.op = "remove"
               PROVE  Justified(e)'
    BY DEF RemovalInv
  <2>1. e \in Elements(Outbox(b)')  BY DEF Elements
  <2>2. CASE e \in Elements(Outbox(b))
    <3>1. Justified(e) /\ e \in Known  BY <1>3, <2>2 DEF OrgInv, RemovalInv
    <3>2. e.over < c.id /\ e.over \in Nat /\ c.id \in Nat  BY <1>1, <1>3, <1>4, <3>1
    <3>3. CASE \A d \in Known : d.id = e.over => d.author = e.author
      <4>1. \A d \in Known' : d.id = e.over => d.author = e.author  BY <1>1, <3>2, <3>3
      <4> QED  BY <4>1 DEF Justified
    <3>4. CASE e.at >= e.until  BY <3>4 DEF Justified
    <3>5. CASE Lost(e.author)  BY <1>6, <3>5 DEF Justified
    <3> QED  BY <3>1, <3>3, <3>4, <3>5 DEF Justified
  <2>3. CASE e \notin Elements(Outbox(b))
    <3>1. b = a /\ e = c /\ op = "remove"  BY <1>1, <2>1, <2>3
    <3>2. /\ path = Lock /\ Exists(Clone(a), Lock) /\ held[a] # 0 /\ c.until = held[a] /\ c.at = now
      BY <1>1, <3>1 DEF CommitReasons
    <3>3. \/ \A d \in Known : d.id = c.over => d.author = a
          \/ now >= held[a]
          \/ Lost(a)
      BY <1>1, <3>2, RemovalJustified
    <3>4. CASE \A d \in Known : d.id = c.over => d.author = a
      <4>1. c.over # c.id  BY <1>1, <1>3, CommitFields
      <4>2. \A d \in Known' : d.id = c.over => d.author = a  BY <1>1, <3>4, <4>1
      <4> QED  BY <1>1, <3>1, <4>2 DEF Justified
    <3>5. CASE now >= held[a]  BY <3>1, <3>2, <3>5 DEF Justified
    <3>6. CASE Lost(a)  BY <1>1, <1>6, <3>1, <3>6 DEF Justified
    <3> QED  BY <3>3, <3>4, <3>5, <3>6
  <2> QED  BY <2>2, <2>3
<1> QED  BY <1>5, <1>6, <1>9, <1>10, <1>12, <1>13, <1>14, Assembled

LEMMA Operations ==
  ASSUME OrgInv, NEW a \in Agents,
         \/ AppendLog(a) \/ WriteArtifact(a, Shared) \/ AcquireLock(a)
         \/ ReleaseLock(a) /\ Exists(Clone(a), Lock)
  PROVE  OrgInv'
<1>1. now \in Nat /\ now + LockTime \in Nat /\ 0 \in Nat /\ 0 <= now /\ now <= now
  BY KnownFacts, OrgMemoryAssumption
<1>2. a # Lock /\ Shared # Lock /\ "put" # "remove" /\ "push" # "unlock"  BY OrgMemoryAssumption
<1>3. CASE AppendLog(a)
  <2>1. Commit(a, a, "put", 0, 0, "push") /\ CommitReasons(a, a, "put", 0, 0)
    BY <1>2, <1>3 DEF AppendLog, OwnPath, CommitReasons
  <2> QED  BY <1>1, <2>1, CommitKeeps
<1>4. CASE WriteArtifact(a, Shared)
  <2>1. Commit(a, Shared, "put", 0, 0, "push") /\ CommitReasons(a, Shared, "put", 0, 0)
    BY <1>2, <1>4 DEF WriteArtifact, CommitReasons
  <2> QED  BY <1>1, <2>1, CommitKeeps
<1>5. CASE AcquireLock(a)
  <2>1. /\ Commit(a, Lock, "put", now, now + LockTime, "push")
        /\ CommitReasons(a, Lock, "put", now, now + LockTime)
    BY <1>2, <1>5 DEF AcquireLock, CommitReasons
  <2> QED  BY <1>1, <2>1, CommitKeeps
<1>6. CASE ReleaseLock(a) /\ Exists(Clone(a), Lock)
  <2>1. /\ Commit(a, Lock, "remove", now, held[a], "unlock")
        /\ CommitReasons(a, Lock, "remove", now, held[a])
    BY <1>2, <1>6 DEF ReleaseLock, CommitReasons
  <2>2. held[a] \in Nat  BY DEF OrgInv, TypeOK
  <2> QED  BY <1>1, <2>1, <2>2, CommitKeeps
<1> QED  BY <1>3, <1>4, <1>5, <1>6
-----------------------------------------------------------------------------
(* One step of a rebase: c is the commit to replay, t are those after it.  *)
Replaying(a, c, t) ==
  /\ phase[a] = "replay" /\ UNCHANGED <<remote, base, made, now>>
  /\ c \in Commits /\ t \in Seq(Commits) /\ c \in Known /\ c.author = a
  /\ Head(todo[a]) = c /\ todo[a] # <<>> /\ Outbox(a) = local[a] \o (<<c>> \o t)
  /\ Elements(todo[a]) = {c} \cup Elements(t)
  /\ \A e \in Elements(Clone(a)) : e.author = a => e.id < c.id
  /\ \A e \in Elements(t) : e.author = a /\ c.id < e.id
  /\ Ordered(t)
  /\ t = <<>> => c.op = "put" /\ \A d \in Known : d.author = a /\ d.op # c.op => d.id < c.id
  /\ t # <<>> => LastIsPut(t)

CarriesOn(a, c, t) == IF t = <<>> THEN TryAgain(a, c) ELSE UNCHANGED <<phase, attempt, held>>

Applies(a, c, t) ==
  /\ Content(Clone(a), c.path) = c.over
  /\ local' = [local EXCEPT ![a] = Append(local[a], [c EXCEPT !.replayed = TRUE])]
  /\ todo' = [todo EXCEPT ![a] = t]
  /\ CarriesOn(a, c, t)

Drops(a, c, t) ==
  /\ Content(Clone(a), c.path) = Written(c) /\ Written(c) # c.over
  /\ UNCHANGED local /\ todo' = [todo EXCEPT ![a] = t]
  /\ CarriesOn(a, c, t)

Conflicts(a, c) ==
  /\ Content(Clone(a), c.path) # c.over
  /\ Goto(a, "conflict", attempt[a]) /\ UNCHANGED <<local, todo, held>>

LEMMA ReplayCases ==
  ASSUME OrgInv, NEW a \in Agents, Replay(a)
  PROVE  \E c, t : Replaying(a, c, t) /\ (Applies(a, c, t) \/ Drops(a, c, t) \/ Conflicts(a, c))
<1>1. /\ phase[a] = "replay" /\ todo[a] \in Seq(Commits) /\ LastIsPut(todo[a])
      /\ UNCHANGED <<remote, base, made, now>>
  BY Facts DEF Replay, OrgInv, PhaseInv
<1>2. todo[a] # <<>>  BY <1>1 DEF LastIsPut
<1>3. PICK c, t : c = Head(todo[a]) /\ t = Tail(todo[a])  OBVIOUS
<1>4. /\ c \in Commits /\ t \in Seq(Commits) /\ Len(todo[a]) >= 1 /\ c = todo[a][1]
      /\ Len(t) = Len(todo[a]) - 1 /\ \A i \in 1..Len(t) : t[i] = todo[a][i + 1]
      /\ todo[a] = <<c>> \o t /\ Elements(todo[a]) = {c} \cup Elements(t)
  BY <1>1, <1>2, <1>3, HeadFirst
<1>5. Len(todo[a]) \in Nat /\ Len(t) \in Nat  BY <1>1, <1>4, LenProperties
<1>6. t = <<>> <=> Len(todo[a]) = 1  BY <1>4, <1>5, EmptySeq
<1>7. Outbox(a) = local[a] \o (<<c>> \o t)  BY <1>4 DEF Outbox
<1>8. c \in Known /\ c.author = a /\ \A e \in Elements(t) : e.author = a
  BY <1>4, KnownFacts, CloneOrder
<1>9. \A e \in Elements(Clone(a)) : e.author = a => e.id < c.id  BY <1>4, CloneOrder
<1>10. /\ Ordered(t) /\ \A e \in Elements(t) : c.id < e.id
  <2>1. <<c>> \in Seq(Commits) /\ Elements(<<c>>) = {c}  BY <1>4, ElementsSingle
  <2>2. Ordered(<<c>> \o t)
    <3>1. Ordered(todo[a])  BY CloneOrder
    <3> QED  BY <1>4, <3>1
  <2>3. Ordered(t) /\ \A d \in Elements(<<c>>), e \in Elements(t) : d.author = e.author => d.id < e.id
    BY <1>4, <2>1, <2>2, OrderedParts
  <2> QED  BY <1>8, <2>1, <2>3
<1>11. t = <<>> => c.op = "put" /\ \A d \in Known : d.author = a /\ d.op # c.op => d.id < c.id
  <2> SUFFICES ASSUME t = <<>>
               PROVE  c.op = "put" /\ \A d \in Known : d.author = a /\ d.op # c.op => d.id < c.id
    OBVIOUS
  <2>1. Len(todo[a]) = 1 /\ c = todo[a][Len(todo[a])]  BY <1>4, <1>6
  <2> QED  BY <1>1, <1>2, <2>1, NewestOf DEF LastIsPut
<1>12. t # <<>> => LastIsPut(t)
  <2> SUFFICES ASSUME t # <<>> PROVE LastIsPut(t)
    OBVIOUS
  <2>1. Len(t) # 0  BY <1>4, EmptySeq
  <2>2. Len(t) \in 1..Len(t) /\ Len(t) + 1 = Len(todo[a])  BY <1>4, <1>5, <2>1
  <2>3. t[Len(t)] = todo[a][Len(todo[a])]  BY <1>4, <2>2
  <2> QED  BY <1>1, <2>3 DEF LastIsPut
<1>13. Replaying(a, c, t)
  BY <1>1, <1>2, <1>3, <1>4, <1>7, <1>8, <1>9, <1>10, <1>11, <1>12 DEF Replaying
<1>14. Applies(a, c, t) \/ Drops(a, c, t) \/ Conflicts(a, c)
  <2> DEFINE theirs == Content(Clone(a), c.path)
             applied == [c EXCEPT !.replayed = TRUE]
  <2>1. IF theirs \in {c.over, Written(c)}
          THEN /\ local' = [local EXCEPT ![a] = IF theirs = c.over
                                                 THEN Append(@, applied) ELSE @]
               /\ todo' = [todo EXCEPT ![a] = Tail(@)]
               /\ IF Len(todo[a]) = 1 THEN TryAgain(a, c)
                                      ELSE UNCHANGED <<phase, attempt, held>>
          ELSE /\ Goto(a, "conflict", attempt[a])
               /\ UNCHANGED <<local, todo, held>>
    BY <1>3 DEF Replay
  <2>2. local \in [Agents -> Seq(Commits)]  BY DEF OrgInv, TypeOK
  <2> HIDE DEF theirs
  <2>3. CASE theirs \in {c.over, Written(c)}
    <3>1. CarriesOn(a, c, t)  BY <1>6, <2>1, <2>3 DEF CarriesOn
    <3>2. todo' = [todo EXCEPT ![a] = t]  BY <1>3, <2>1, <2>3
    <3>3. CASE theirs = c.over
      <4>1. local' = [local EXCEPT ![a] = Append(local[a], applied)]  BY <2>1, <2>3, <3>3
      <4> QED  BY <3>1, <3>2, <3>3, <4>1 DEF Applies, theirs
    <3>4. CASE theirs # c.over
      <4>1. local' = [local EXCEPT ![a] = local[a]]  BY <2>1, <2>3, <3>4
      <4>2. UNCHANGED local  BY <2>2, <4>1
      <4> QED  BY <2>3, <3>1, <3>2, <3>4, <4>2 DEF Drops, theirs
    <3> QED  BY <3>3, <3>4
  <2>4. CASE theirs \notin {c.over, Written(c)}  BY <2>1, <2>4 DEF Conflicts, theirs
  <2> QED  BY <2>3, <2>4
<1> QED  BY <1>13, <1>14

(* Whether the rebase goes on or the call returns, and what for.           *)
LEMMA ReplayGoesOn ==
  ASSUME OrgInv, NEW a \in Agents, NEW c, NEW t, Replaying(a, c, t), CarriesOn(a, c, t),
         Renewed(Known, Known')
  PROVE  /\ HeldInv' /\ held' \in [Agents -> Nat]
         /\ phase' \in [Agents -> Phases] /\ attempt' \in [Agents -> 0..3]
         /\ IF t = <<>> THEN phase'[a] \in {"push", "idle"} ELSE phase'[a] = "replay"
         /\ \A b \in Agents : b # a => phase'[b] = phase[b]
<1>1. TypeOK /\ phase[a] = "replay" /\ c \in Known /\ c.author = a  BY DEF OrgInv, Replaying
<1>2. UNCHANGED held => HeldInv' /\ held' \in [Agents -> Nat]
  BY <1>1, HeldSame DEF TypeOK
<1>3. CASE t # <<>>
  <2>1. UNCHANGED <<phase, attempt, held>>  BY <1>3 DEF CarriesOn
  <2> QED  BY <1>1, <1>2, <1>3, <2>1 DEF TypeOK
<1>4. CASE t = <<>>
  <2>1. TryAgain(a, c) /\ \A d \in Known : d.author = a /\ d.op # c.op => d.id < c.id
    BY <1>4 DEF CarriesOn, Replaying
  <2>2. attempt[a] \in 0..3  BY <1>1 DEF TypeOK
  <2>3. CASE attempt[a] < 3
    <3>1. Goto(a, "push", attempt[a] + 1) /\ UNCHANGED held  BY <2>1, <2>3 DEF TryAgain
    <3>2. "push" \in Phases /\ attempt[a] + 1 \in 0..3  BY <2>2, <2>3 DEF Phases
    <3>3. /\ phase' \in [Agents -> Phases] /\ attempt' \in [Agents -> 0..3]
          /\ phase'[a] = "push" /\ \A b \in Agents : b # a => phase'[b] = phase[b]
      BY <3>1, <3>2, Goes
    <3> QED  BY <1>2, <1>4, <3>1, <3>3
  <2>4. CASE ~(attempt[a] < 3)
    <3>1. /\ Goto(a, "idle", 0)
          /\ held' = IF c.path = Lock /\ c.op = "put" THEN [held EXCEPT ![a] = c.until] ELSE held
      BY <2>1, <2>4 DEF TryAgain, Returns, Idle
    <3>2. "idle" \in Phases /\ 0 \in 0..3  BY DEF Phases
    <3>3. /\ phase' \in [Agents -> Phases] /\ attempt' \in [Agents -> 0..3]
          /\ phase'[a] = "idle" /\ \A b \in Agents : b # a => phase'[b] = phase[b]
      BY <3>1, <3>2, Goes
    <3>4. HeldInv' /\ held' \in [Agents -> Nat]  BY <1>1, <2>1, <3>1, HeldTaken
    <3> QED  BY <1>4, <3>3, <3>4
  <2> QED  BY <2>3, <2>4
<1> QED  BY <1>3, <1>4

(* A commit to an agent's own path always applies: the newest commit there *)
(* is the one it was made on top of.                                       *)
LEMMA OwnPathApplies ==
  ASSUME OrgInv, NEW a \in Agents, NEW c, NEW t, Replaying(a, c, t), c.path \in Agents
  PROVE  Content(Clone(a), c.path) = c.over
<1>1. /\ c \in Commits /\ c \in Known /\ c.author = a /\ Elements(todo[a]) = {c} \cup Elements(t)
      /\ \A e \in Elements(Clone(a)) : e.author = a => e.id < c.id
      /\ \A e \in Elements(t) : e.author = a /\ c.id < e.id
  BY DEF Replaying
<1>2. /\ Known \subseteq Commits /\ Elements(Clone(a)) \subseteq Known
      /\ Clone(a) \in Seq(Commits) /\ Ordered(Clone(a))
      /\ CommitsInv(Known, made, now) /\ OwnPathInv(Known)
  BY KnownFacts, Facts, CloneOrder DEF OrgInv
<1>3. c.path = a /\ \A d \in Known : d.path = a => d.author = a /\ d.op = "put"
  BY <1>1, <1>2 DEF CommitsInv
<1>4. /\ Content(Clone(a), a) # 0 =>
           \E d \in Elements(Clone(a)) : d.path = a /\ d.id = Content(Clone(a), a)
      /\ \A d \in Elements(Clone(a)) : d.path = a => d.id <= Content(Clone(a), a)
  BY <1>2, <1>3, NewestOnPath
<1>5. /\ Content(Clone(a), a) \in Nat /\ c.over \in Nat /\ c.id \in Nat /\ c.id # 0 /\ c.over < c.id
  BY <1>1, <1>2, ContentTyped, CommitFields, OrgMemoryAssumption DEF CommitsInv
<1>6. Content(Clone(a), a) <= c.over
  <2>1. CASE Content(Clone(a), a) = 0  BY <1>5, <2>1
  <2>2. CASE Content(Clone(a), a) # 0
    <3>1. PICK d \in Elements(Clone(a)) : d.path = a /\ d.id = Content(Clone(a), a)
      BY <1>4, <2>2
    <3>2. d \in Known /\ d.author = a /\ d.id < c.id  BY <1>1, <1>2, <1>3, <3>1
    <3>3. d.id <= c.over  BY <1>1, <1>2, <1>3, <3>1, <3>2 DEF OwnPathInv
    <3> QED  BY <3>1, <3>3
  <2> QED  BY <2>1, <2>2
<1>7. c.over <= Content(Clone(a), a)
  <2>1. CASE c.over = 0  BY <1>5, <2>1
  <2>2. CASE c.over # 0
    <3>1. PICK d \in Known : d.path = a /\ d.id = c.over
      BY <1>1, <1>2, <1>3, <2>2 DEF OwnPathInv
    <3>2. d.author = a  BY <1>3, <3>1
    <3>3. d \in Elements(Clone(a)) \cup Elements(todo[a])  BY <3>2, Owned
    <3>4. d \notin Elements(todo[a])
      <4>1. d.id \in Nat /\ d.id < c.id  BY <1>5, <3>1
      <4>2. d # c  BY <1>5, <4>1
      <4>3. d \notin Elements(t)  BY <1>1, <1>5, <4>1
      <4> QED  BY <1>1, <4>2, <4>3
    <3> QED  BY <1>4, <3>1, <3>3, <3>4
  <2> QED  BY <2>1, <2>2
<1> QED  BY <1>3, <1>5, <1>6, <1>7

LEMMA AlikeSelf == ASSUME NEW c PROVE Alike(c, c)
BY DEF Alike

LEMMA ConflictKeeps ==
  ASSUME OrgInv, NEW a \in Agents, NEW c, NEW t, Replaying(a, c, t), Conflicts(a, c)
  PROVE  OrgInv'
<1>1. /\ phase[a] = "replay" /\ todo[a] # <<>> /\ Head(todo[a]) = c
      /\ Content(Clone(a), c.path) # c.over /\ Goto(a, "conflict", attempt[a])
      /\ UNCHANGED <<remote, base, local, todo, held, made, now>>
  BY DEF Replaying, Conflicts
<1>2. TypeOK /\ PhaseInv /\ ConflictsOnlyOnSharedPaths /\ now \in Nat /\ now <= now
  BY KnownFacts DEF OrgInv
<1>3. /\ phase' \in [Agents -> Phases] /\ attempt' \in [Agents -> 0..3]
      /\ phase'[a] = "conflict" /\ \A b \in Agents : b # a => phase'[b] = phase[b]
  <2>1. "conflict" \in Phases /\ attempt[a] \in 0..3  BY <1>2 DEF Phases, TypeOK
  <2> QED  BY <1>1, <2>1, Goes
<1>4. Known' = Known /\ Books' /\ RemovalInv' /\ LockHistoryHonest'  BY <1>1, <1>2, SameBooks
<1>5. OrderInv' /\ ChainInv'  BY <1>1, SameClones
<1>6. HeldInv'
  <2>1. Renewed(Known, Known')  BY <1>4, RenewedSelf
  <2> QED  BY <1>1, <2>1, HeldSame
<1>7. TypeOK'  BY <1>1, <1>2, <1>3 DEF TypeOK
<1>8. PhaseInv'
  <2> SUFFICES ASSUME NEW b \in Agents
               PROVE  /\ base'[b] <= Len(remote')
                      /\ phase'[b] \in {"idle", "push", "pull", "unlock", "settle"} => todo'[b] = <<>>
                      /\ phase'[b] \in {"push", "pull"} => LastIsPut(local'[b])
                      /\ phase'[b] = "unlock" => local'[b] # <<>> /\ Newest(b)'.op = "remove"
                      /\ phase'[b] = "replay" => LastIsPut(todo'[b])
                      /\ phase'[b] = "conflict" => todo'[b] # <<>>
                      /\ phase'[b] = "settle" => local'[b] = <<>>
    BY DEF PhaseInv
  <2>1. base'[b] <= Len(remote')  BY <1>1, <1>2 DEF PhaseInv
  <2>2. CASE b = a  BY <1>1, <1>3, <2>1, <2>2
  <2>3. CASE b # a  BY <1>1, <1>2, <1>3, <2>3 DEF PhaseInv, Newest
  <2> QED  BY <2>2, <2>3
<1>9. ConflictsOnlyOnSharedPaths'
  <2>1. c.path \notin Agents  BY <1>1, OwnPathApplies
  <2>2. \A b \in Agents : b # a /\ phase'[b] = "conflict" => Head(todo'[b]).path \notin Agents
    BY <1>1, <1>2, <1>3 DEF ConflictsOnlyOnSharedPaths
  <2> QED  BY <1>1, <2>1, <2>2 DEF ConflictsOnlyOnSharedPaths
<1> QED  BY <1>4, <1>5, <1>6, <1>7, <1>8, <1>9, Assembled

(* What both ways to replay a commit have in common.                       *)
Moved(a, c, t) ==
  /\ local' \in [Agents -> Seq(Commits)] /\ todo' \in [Agents -> Seq(Commits)]
  /\ \A b \in Agents : b # a => local'[b] = local[b] /\ todo'[b] = todo[b]
  /\ todo'[a] = t /\ (t = <<>> => LastIsPut(local'[a]))
  /\ Ordered(local'[a])
  /\ \A e \in Elements(local'[a]) : \E f \in Elements(local[a]) \cup {c} : Alike(e, f)
  /\ \A f \in Elements(local[a]) \cup {c} :
       f.op = "put" => \E e \in Elements(local'[a]) : Alike(e, f)
  /\ Chained(Clone(a)')

LEMMA MovedKnown ==
  ASSUME OrgInv, NEW a \in Agents, NEW c, NEW t, Replaying(a, c, t), Moved(a, c, t)
  PROVE  /\ Outbox(a)' = local'[a] \o t /\ Elements(Outbox(a)') = Elements(local'[a]) \cup Elements(t)
         /\ local'[a] \in Seq(Commits)
         /\ \A b \in Agents : b # a => Outbox(b)' = Outbox(b) /\ Clone(b)' = Clone(b)
         /\ \A e \in Elements(Outbox(a)') : \E f \in Elements(Outbox(a)) : Alike(e, f)
         /\ Known' \subseteq Commits /\ Renewed(Known, Known')
<1>1. /\ UNCHANGED <<remote, base>> /\ c \in Commits /\ t \in Seq(Commits)
      /\ Elements(todo[a]) = {c} \cup Elements(t)
  BY DEF Replaying
<1>2. /\ local' \in [Agents -> Seq(Commits)]
      /\ \A b \in Agents : b # a => local'[b] = local[b] /\ todo'[b] = todo[b]
      /\ todo'[a] = t
      /\ \A e \in Elements(local'[a]) : \E f \in Elements(local[a]) \cup {c} : Alike(e, f)
      /\ \A f \in Elements(local[a]) \cup {c} :
           f.op = "put" => \E e \in Elements(local'[a]) : Alike(e, f)
  BY DEF Moved
<1>3. local'[a] \in Seq(Commits) /\ Outbox(a)' = local'[a] \o t  BY <1>2 DEF Outbox
<1>4. Elements(Outbox(a)') = Elements(local'[a]) \cup Elements(t)
  <2>1. Elements(local'[a] \o t) = Elements(local'[a]) \cup Elements(t)  BY <1>1, <1>3, ElementsConcat
  <2> QED  BY <1>3, <2>1
<1>5. \A b \in Agents : b # a => Outbox(b)' = Outbox(b) /\ Clone(b)' = Clone(b)
  BY <1>1, <1>2 DEF Outbox, Clone
<1>6. Elements(Outbox(a)) = Elements(local[a]) \cup {c} \cup Elements(t)  BY <1>1, Facts
<1>7. \A e \in Elements(Outbox(a)') : \E f \in Elements(Outbox(a)) : Alike(e, f)
  BY <1>2, <1>4, <1>6, AlikeSelf
<1>8. \A f \in Elements(Outbox(a)) : f.op = "put" => \E e \in Elements(Outbox(a)') : Alike(e, f)
  BY <1>2, <1>4, <1>6, AlikeSelf
<1>9. /\ Known' = Elements(remote) \cup UNION {Elements(Outbox(b)') : b \in Agents}
      /\ Known = Elements(remote) \cup UNION {Elements(Outbox(b)) : b \in Agents}
  BY <1>1 DEF Known, Elements
<1>10. \A b \in Agents : b # a => Elements(Outbox(b)') = Elements(Outbox(b))  BY <1>5
<1>11. Known' \subseteq Commits
  <2>1. Elements(Outbox(a)') \subseteq Commits  BY <1>1, <1>3, <1>4, ElementsOf
  <2>2. Known \subseteq Commits  BY KnownFacts
  <2> QED  BY <1>9, <1>10, <2>1, <2>2
<1>12. Renewed(Known, Known')
  <2>1. ASSUME NEW e \in Known' PROVE \E f \in Known : Alike(e, f)
    <3>1. CASE e \in Elements(Outbox(a)')  BY <1>7, <1>9, <3>1
    <3>2. CASE e \notin Elements(Outbox(a)')  BY <1>9, <1>10, <3>2, AlikeSelf
    <3> QED  BY <3>1, <3>2
  <2>2. ASSUME NEW f \in Known, f.op = "put" PROVE \E e \in Known' : Alike(e, f)
    <3>1. CASE f \in Elements(Outbox(a))  BY <1>8, <1>9, <2>2, <3>1
    <3>2. CASE f \notin Elements(Outbox(a))  BY <1>9, <1>10, <3>2, AlikeSelf
    <3> QED  BY <3>1, <3>2
  <2> QED  BY <2>1, <2>2 DEF Renewed
<1> QED  BY <1>3, <1>4, <1>5, <1>7, <1>11, <1>12

LEMMA MovedOrder ==
  ASSUME OrgInv, NEW a \in Agents, NEW c, NEW t, Replaying(a, c, t), Moved(a, c, t)
  PROVE  OrderInv' /\ ChainInv'
<1>1. /\ UNCHANGED <<remote, base>> /\ t \in Seq(Commits) /\ Ordered(t) /\ c.author = a
      /\ \A e \in Elements(Clone(a)) : e.author = a => e.id < c.id
      /\ \A e \in Elements(t) : e.author = a /\ c.id < e.id
      /\ c \in Commits
  BY DEF Replaying
<1>2. /\ Outbox(a)' = local'[a] \o t /\ Elements(Outbox(a)') = Elements(local'[a]) \cup Elements(t)
      /\ local'[a] \in Seq(Commits)
      /\ \A b \in Agents : b # a => Outbox(b)' = Outbox(b) /\ Clone(b)' = Clone(b)
      /\ \A e \in Elements(Outbox(a)') : \E f \in Elements(Outbox(a)) : Alike(e, f)
  BY MovedKnown
<1>3. /\ Ordered(local'[a]) /\ Chained(Clone(a)')
      /\ \A e \in Elements(local'[a]) : \E f \in Elements(local[a]) \cup {c} : Alike(e, f)
  BY DEF Moved
<1>4. OrderInv /\ ChainInv /\ Elements(local[a]) \subseteq Elements(Clone(a))
      /\ Elements(local[a]) \subseteq Known /\ Known \subseteq Commits
      /\ \A e \in Elements(local[a]) : e.author = a
  BY Facts, KnownFacts, CloneOrder DEF OrgInv
<1>5. \A e \in Elements(local'[a]), f \in Elements(t) : e.id < f.id
  <2> SUFFICES ASSUME NEW e \in Elements(local'[a]), NEW f \in Elements(t) PROVE e.id < f.id
    OBVIOUS
  <2>1. PICK g \in Elements(local[a]) \cup {c} : Alike(e, g)  BY <1>3
  <2>2. c.id < f.id /\ c.id \in Nat /\ f.id \in Nat
    <3>1. f \in Commits  BY <1>1, ElementsOf
    <3> QED  BY <1>1, <3>1, CommitFields
  <2>3. g.id <= c.id /\ g.id \in Nat
    <3>1. CASE g = c  BY <2>2, <3>1
    <3>2. CASE g \in Elements(local[a])
      <4>1. g.id < c.id /\ g \in Commits  BY <1>1, <1>4, <3>2
      <4> QED  BY <2>2, <4>1, CommitFields
    <3> QED  BY <3>1, <3>2
  <2> QED  BY <2>1, <2>2, <2>3 DEF Alike
<1>6. Ordered(Outbox(a)')
  <2>1. Ordered(local'[a] \o t)
    <3>1. \A e \in Elements(local'[a]), f \in Elements(t) : e.author = f.author => e.id < f.id
      BY <1>5
    <3> QED  BY <1>1, <1>2, <1>3, <3>1, OrderedConcat
  <2> QED  BY <1>2, <2>1
<1>7. ASSUME NEW b \in Agents
      PROVE  /\ Ordered(Outbox(b)')
             /\ \A d \in Elements(Outbox(b)') : d.author = b
             /\ \A e \in Elements(remote), d \in Elements(Outbox(b)') : e.author = b => e.id < d.id
  <2>1. CASE b = a
    <3>1. ASSUME NEW d \in Elements(Outbox(a)')
          PROVE  d.author = a /\ \A e \in Elements(remote) : e.author = a => e.id < d.id
      <4>1. PICK f \in Elements(Outbox(a)) : Alike(d, f)  BY <1>2
      <4>2. f.author = a /\ \A e \in Elements(remote) : e.author = a => e.id < f.id
        BY <1>4 DEF OrderInv
      <4> QED  BY <4>1, <4>2 DEF Alike
    <3> QED  BY <1>6, <2>1, <3>1
  <2>2. CASE b # a  BY <1>2, <1>4, <2>2 DEF OrderInv
  <2> QED  BY <2>1, <2>2
<1>8. OrderInv'
  <2>1. /\ Ordered(remote)' = Ordered(remote) /\ Elements(remote)' = Elements(remote)
        /\ \A b \in Agents : /\ Ordered(Outbox(b))' = Ordered(Outbox(b)')
                             /\ Elements(Outbox(b))' = Elements(Outbox(b)')
    BY <1>1 DEF Ordered, Elements
  <2>2. \A b \in Agents : \A i \in (base'[b] + 1)..Len(remote') : remote'[i].author # b
    BY <1>1, <1>4 DEF OrderInv
  <2> QED  BY <1>4, <1>7, <2>1, <2>2 DEF OrderInv
<1>9. ChainInv'
  <2>1. \A b \in Agents : Chained(Clone(b)')  BY <1>2, <1>3, <1>4 DEF ChainInv
  <2>2. /\ Chained(remote)' = Chained(remote')
        /\ \A b \in Agents : Chained(Clone(b))' = Chained(Clone(b)')
    BY DEF Chained, Content, Exists, Last, Touching
  <2> QED  BY <1>1, <1>4, <2>1, <2>2 DEF ChainInv
<1> QED  BY <1>8, <1>9

LEMMA MovedKeeps ==
  ASSUME OrgInv, NEW a \in Agents, NEW c, NEW t, Replaying(a, c, t), Moved(a, c, t),
         CarriesOn(a, c, t)
  PROVE  OrgInv'
<1>1. /\ UNCHANGED <<remote, base, made, now>> /\ phase[a] = "replay"
      /\ (t # <<>> => LastIsPut(t))
  BY DEF Replaying
<1>2. /\ local' \in [Agents -> Seq(Commits)] /\ todo' \in [Agents -> Seq(Commits)]
      /\ \A b \in Agents : b # a => local'[b] = local[b] /\ todo'[b] = todo[b]
      /\ todo'[a] = t /\ (t = <<>> => LastIsPut(local'[a]))
  BY DEF Moved
<1>3. /\ \A b \in Agents : b # a => Outbox(b)' = Outbox(b)
      /\ \A e \in Elements(Outbox(a)') : \E f \in Elements(Outbox(a)) : Alike(e, f)
      /\ Known' \subseteq Commits /\ Renewed(Known, Known')
  BY MovedKnown
<1>4. /\ TypeOK /\ PhaseInv /\ ConflictsOnlyOnSharedPaths /\ now \in Nat /\ now <= now
  BY KnownFacts DEF OrgInv
<1>5. /\ HeldInv' /\ held' \in [Agents -> Nat]
      /\ phase' \in [Agents -> Phases] /\ attempt' \in [Agents -> 0..3]
      /\ IF t = <<>> THEN phase'[a] \in {"push", "idle"} ELSE phase'[a] = "replay"
      /\ \A b \in Agents : b # a => phase'[b] = phase[b]
  BY <1>3, ReplayGoesOn
<1>6. Books'  BY <1>1, <1>3, <1>4, BooksKept
<1>7. OrderInv' /\ ChainInv'  BY MovedOrder
<1>8. LockHistoryHonest' /\ \A b : Lost(b) => Lost(b)'  BY <1>1, SamePublished
<1>9. RemovalInv'
  <2>1. \A b \in Agents : \A e \in Elements(Outbox(b))' :
          \E f \in Elements(Outbox(b)) : Alike(e, f)
    <3>1. \A b \in Agents : Elements(Outbox(b))' = Elements(Outbox(b)')  BY DEF Elements
    <3> QED  BY <1>3, <3>1, AlikeSelf
  <2> QED  BY <1>3, <1>8, <2>1, RemovalKept
<1>10. TypeOK'  BY <1>1, <1>2, <1>4, <1>5 DEF TypeOK
<1>11. PhaseInv'
  <2> SUFFICES ASSUME NEW b \in Agents
               PROVE  /\ base'[b] <= Len(remote')
                      /\ phase'[b] \in {"idle", "push", "pull", "unlock", "settle"} => todo'[b] = <<>>
                      /\ phase'[b] \in {"push", "pull"} => LastIsPut(local'[b])
                      /\ phase'[b] = "unlock" => local'[b] # <<>> /\ Newest(b)'.op = "remove"
                      /\ phase'[b] = "replay" => LastIsPut(todo'[b])
                      /\ phase'[b] = "conflict" => todo'[b] # <<>>
                      /\ phase'[b] = "settle" => local'[b] = <<>>
    BY DEF PhaseInv
  <2>1. base'[b] <= Len(remote')  BY <1>1, <1>4 DEF PhaseInv
  <2>2. CASE b = a /\ t = <<>>  BY <1>2, <1>5, <2>1, <2>2
  <2>3. CASE b = a /\ t # <<>>  BY <1>1, <1>2, <1>5, <2>1, <2>3
  <2>4. CASE b # a  BY <1>1, <1>2, <1>4, <1>5, <2>4 DEF PhaseInv, Newest
  <2> QED  BY <2>2, <2>3, <2>4
<1>12. ConflictsOnlyOnSharedPaths'
  <2>1. phase'[a] # "conflict"  BY <1>5
  <2>2. \A b \in Agents : phase'[b] = "conflict" => phase[b] = "conflict" /\ todo'[b] = todo[b]
    BY <1>2, <1>5, <2>1
  <2> QED  BY <1>4, <2>2 DEF ConflictsOnlyOnSharedPaths
<1> QED  BY <1>5, <1>6, <1>7, <1>8, <1>9, <1>10, <1>11, <1>12, Assembled

(* Only a removal can turn out to have been made already: nobody else      *)
(* can have put the very commit that is to be replayed.                    *)
LEMMA OnlyRemovalsDropped ==
  ASSUME OrgInv, NEW a \in Agents, NEW c, NEW t, Replaying(a, c, t), Drops(a, c, t)
  PROVE  c.op = "remove"
<1>1. /\ c \in Commits /\ c \in Known /\ c.author = a
      /\ \A e \in Elements(Clone(a)) : e.author = a => e.id < c.id
  BY DEF Replaying
<1>2. Clone(a) \in Seq(Commits) /\ Elements(Clone(a)) \subseteq Known  BY Facts, KnownFacts
<1> SUFFICES ASSUME c.op = "put" PROVE FALSE
  BY <1>1, CommitFields
<1>3. Content(Clone(a), c.path) = c.id /\ c.id \in Nat /\ c.id # 0
  BY <1>1, CommitFields DEF Written, Drops
<1>4. PICK e \in Elements(Clone(a)) : e.id = c.id  BY <1>2, <1>3, ContentOf
<1>5. e \in Known /\ Alike(e, c)  BY <1>1, <1>2, <1>4 DEF OrgInv, CommitsInv
<1>6. e.id < c.id  BY <1>1, <1>4, <1>5 DEF Alike
<1> QED  BY <1>3, <1>4, <1>6

LEMMA MovedByReplay ==
  ASSUME OrgInv, NEW a \in Agents, NEW c, NEW t, Replaying(a, c, t),
         Applies(a, c, t) \/ Drops(a, c, t)
  PROVE  Moved(a, c, t) /\ CarriesOn(a, c, t)
<1>1. /\ c \in Commits /\ c \in Known /\ c.author = a /\ t \in Seq(Commits)
      /\ \A e \in Elements(Clone(a)) : e.author = a => e.id < c.id
      /\ UNCHANGED <<remote, base>>
  BY DEF Replaying
<1>2. /\ local \in [Agents -> Seq(Commits)] /\ todo \in [Agents -> Seq(Commits)]
      /\ local[a] \in Seq(Commits) /\ Clone(a) \in Seq(Commits)
      /\ SubSeq(remote, 1, base[a]) \in Seq(Commits)
      /\ Elements(local[a]) \subseteq Elements(Clone(a)) /\ Elements(Clone(a)) \subseteq Known
      /\ Known \subseteq Commits /\ Ordered(local[a]) /\ Chained(Clone(a))
      /\ \A e \in Elements(local[a]) : e.author = a
  BY Facts, KnownFacts, CloneOrder DEF OrgInv, TypeOK, ChainInv
<1>3. CASE Applies(a, c, t)
  <2>1. PICK d : d = [c EXCEPT !.replayed = TRUE]  OBVIOUS
  <2>2. d \in Commits /\ Alike(d, c) /\ Alike(c, d) /\ d.over = c.over /\ d.path = c.path
        /\ d.author = a /\ d.id = c.id /\ d.op = c.op
    BY <1>1, <2>1 DEF Commits, Alike
  <2>3. /\ Content(Clone(a), c.path) = c.over /\ CarriesOn(a, c, t)
        /\ local' = [local EXCEPT ![a] = Append(local[a], d)]
        /\ todo' = [todo EXCEPT ![a] = t]
    BY <1>3, <2>1 DEF Applies
  <2>4. /\ Append(local[a], d) \in Seq(Commits)
        /\ Elements(Append(local[a], d)) = Elements(local[a]) \cup {d}
        /\ Len(Append(local[a], d)) = Len(local[a]) + 1 /\ Append(local[a], d) # <<>>
        /\ Append(local[a], d)[Len(local[a]) + 1] = d
        /\ Len(local[a]) \in Nat
    BY <1>2, <2>2, AppendProperties, ElementsAppend, LenProperties
  <2>5. /\ local' \in [Agents -> Seq(Commits)] /\ todo' \in [Agents -> Seq(Commits)]
        /\ local'[a] = Append(local[a], d) /\ todo'[a] = t
        /\ \A b \in Agents : b # a => local'[b] = local[b] /\ todo'[b] = todo[b]
    BY <1>1, <1>2, <2>3, <2>4
  <2>6. Ordered(local'[a])
    <3>1. <<d>> \in Seq(Commits) /\ Elements(<<d>>) = {d} /\ Append(local[a], d) = local[a] \o <<d>>
      BY <1>2, <2>2, ElementsSingle, AppendIsConcat
    <3>2. Ordered(<<d>>)  BY DEF Ordered
    <3>3. \A e \in Elements(local[a]), f \in Elements(<<d>>) : e.author = f.author => e.id < f.id
      BY <1>1, <1>2, <2>2, <3>1
    <3>4. Ordered(local[a] \o <<d>>)  BY <1>2, <3>1, <3>2, <3>3, OrderedConcat
    <3> QED  BY <2>5, <3>1, <3>4
  <2>7. Chained(Clone(a)')
    <3>1. SubSeq(remote, 1, base[a]) \o Append(local[a], d)
          = Append(SubSeq(remote, 1, base[a]) \o local[a], d)
      BY <1>2, <2>2, ConcatAppend
    <3>2. Clone(a)' = Append(Clone(a), d)  BY <1>1, <2>5, <3>1 DEF Clone
    <3>3. Chained(Append(Clone(a), d))  BY <1>2, <2>2, <2>3, ChainedAppend
    <3> QED  BY <3>2, <3>3
  <2>8. t = <<>> => LastIsPut(local'[a])
    <3>1. t = <<>> => c.op = "put"  BY DEF Replaying
    <3> QED  BY <2>2, <2>4, <2>5, <3>1 DEF LastIsPut
  <2>9. /\ \A e \in Elements(local'[a]) : \E f \in Elements(local[a]) \cup {c} : Alike(e, f)
        /\ \A f \in Elements(local[a]) \cup {c} : \E e \in Elements(local'[a]) : Alike(e, f)
    <3>1. Elements(local'[a]) = Elements(local[a]) \cup {d}  BY <2>4, <2>5
    <3>2. Alike(d, c)  BY <2>2
    <3> QED  BY <3>1, <3>2, AlikeSelf
  <2> QED  BY <2>3, <2>5, <2>6, <2>7, <2>8, <2>9 DEF Moved
<1>4. CASE Drops(a, c, t)
  <2>1. /\ Content(Clone(a), c.path) = Written(c) /\ UNCHANGED local
        /\ todo' = [todo EXCEPT ![a] = t] /\ CarriesOn(a, c, t)
    BY <1>4 DEF Drops
  <2>2. c.op # "put"  BY <1>4, OnlyRemovalsDropped
  <2>3. t # <<>>  BY <2>2 DEF Replaying
  <2>4. /\ local' \in [Agents -> Seq(Commits)] /\ todo' \in [Agents -> Seq(Commits)]
        /\ local'[a] = local[a] /\ todo'[a] = t
        /\ \A b \in Agents : b # a => local'[b] = local[b] /\ todo'[b] = todo[b]
    BY <1>1, <1>2, <2>1
  <2>5. Chained(Clone(a)')  BY <1>1, <1>2, <2>4 DEF Clone
  <2>6. /\ \A e \in Elements(local'[a]) : \E f \in Elements(local[a]) \cup {c} : Alike(e, f)
        /\ \A f \in Elements(local[a]) \cup {c} :
             f.op = "put" => \E e \in Elements(local'[a]) : Alike(e, f)
    BY <2>2, <2>4, AlikeSelf
  <2> QED  BY <1>2, <2>1, <2>3, <2>4, <2>5, <2>6 DEF Moved
<1> QED  BY <1>3, <1>4

LEMMA ReplayKeeps == ASSUME OrgInv, NEW a \in Agents, Replay(a) PROVE OrgInv'
<1>1. PICK c, t : Replaying(a, c, t) /\ (Applies(a, c, t) \/ Drops(a, c, t) \/ Conflicts(a, c))
  BY ReplayCases
<1>2. CASE Conflicts(a, c)  BY <1>1, <1>2, ConflictKeeps
<1>3. CASE Applies(a, c, t) \/ Drops(a, c, t)
  <2>1. Moved(a, c, t) /\ CarriesOn(a, c, t)  BY <1>1, <1>3, MovedByReplay
  <2> QED  BY <1>1, <2>1, MovedKeeps
<1> QED  BY <1>1, <1>2, <1>3
-----------------------------------------------------------------------------
LEMMA EmptyFacts ==
  /\ <<>> \in Seq(Commits) /\ Len(<<>>) = 0 /\ DOMAIN <<>> = {} /\ Elements(<<>>) = {}
  /\ Ordered(<<>>) /\ Chained(<<>>) /\ \A p : Touching(<<>>, p) = {}
  /\ <<>> \o <<>> = <<>> /\ SubSeq(<<>>, 1, 0) = <<>>
<1>1. <<>> \in Seq(Commits) /\ Len(<<>>) = 0 /\ DOMAIN <<>> = {}  BY EmptySeq
<1>2. <<>> \o <<>> = <<>>  BY <1>1, ConcatEmptySeq
<1>3. SubSeq(<<>>, 1, 0) = <<>>
  <2>1. SubSeq(<<>>, 1, 0) \in Seq(Commits) /\ Len(SubSeq(<<>>, 1, 0)) = 0
    <3>1. 0 \in 0..Len(<<>>)  BY <1>1
    <3> QED  BY <1>1, <3>1, Prefix
  <2> QED  BY <2>1, EmptySeq
<1> QED  BY <1>1, <1>2, <1>3 DEF Elements, Ordered, Chained, Touching

LEMMA OrgInit == Init => OrgInv
<1> SUFFICES ASSUME Init PROVE OrgInv
  OBVIOUS
<1>1. /\ remote = <<>> /\ made = 0 /\ now = 0
      /\ \A a \in Agents : /\ base[a] = 0 /\ local[a] = <<>> /\ todo[a] = <<>>
                           /\ phase[a] = "idle" /\ held[a] = 0
  BY DEF Init
<1>2. TypeOK
  <2>1. "idle" \in Phases /\ 0 \in 0..3 /\ 0 \in Nat /\ 0 \in 0..MaxCommits /\ 0 \in 0..MaxTime
    BY OrgMemoryAssumption DEF Phases
  <2> QED  BY <2>1, EmptyFacts DEF Init, TypeOK
<1>3. PhaseInv
  <2>1. Len(remote) = 0  BY <1>1, EmptyFacts
  <2>2. \A a \in Agents : base[a] = 0 /\ phase[a] = "idle" /\ todo[a] = <<>>  BY <1>1
  <2>3. \A a \in Agents : base[a] <= Len(remote)
    <3>1. TAKE a \in Agents
    <3>2. base[a] = 0  BY <2>2
    <3> QED  BY <2>1, <3>2
  <2> QED  BY <2>2, <2>3 DEF PhaseInv
<1>4. \A a \in Agents : Outbox(a) = <<>> /\ Clone(a) = <<>>
  BY <1>1, EmptyFacts DEF Outbox, Clone
<1>5. Known = {}  BY <1>1, <1>4, EmptyFacts DEF Known
<1>6. CommitsInv(Known, made, now) /\ OwnPathInv(Known) /\ LockInv(Known)
  BY <1>5 DEF CommitsInv, OwnPathInv, LockInv
<1>7. OrderInv  BY <1>1, <1>4, EmptyFacts DEF OrderInv
<1>8. ChainInv  BY <1>1, <1>4, EmptyFacts DEF ChainInv
<1>9. RemovalInv  BY <1>4, EmptyFacts DEF RemovalInv
<1>10. HeldInv  BY <1>1 DEF HeldInv
<1>11. LockHistoryHonest  BY <1>1, EmptyFacts DEF LockHistoryHonest
<1>12. ConflictsOnlyOnSharedPaths  BY <1>1 DEF ConflictsOnlyOnSharedPaths
<1> QED  BY <1>2, <1>3, <1>6, <1>7, <1>8, <1>9, <1>10, <1>11, <1>12 DEF OrgInv

LEMMA OrgNext == OrgInv /\ [Next]_vars => OrgInv'
<1> SUFFICES ASSUME OrgInv, [Next]_vars PROVE OrgInv'
  OBVIOUS
<1>1. CASE Tick  BY <1>1, TickKeeps
<1>2. CASE \E a \in Agents : Call(a) \/ GitStep(a) \/ Crash(a)
  <2>1. PICK a \in Agents : Call(a) \/ GitStep(a) \/ Crash(a)  BY <1>2
  <2>2. CASE AppendLog(a) \/ WriteArtifact(a, Shared) \/ AcquireLock(a)  BY <2>2, Operations
  <2>3. CASE ReleaseLock(a) /\ Exists(Clone(a), Lock)  BY <2>3, Operations
  <2>4. CASE ReleaseLock(a) /\ ~Exists(Clone(a), Lock)  BY <2>4, QuietSteps
  <2>5. CASE Pull(a)  BY <2>5, PullKeeps
  <2>6. CASE Push(a) \/ PushLost(a)  BY <2>6, PushKeeps
  <2>7. CASE Crash(a) \/ PushRaises(a) \/ PullRaises(a) \/ PushIgnored(a)  BY <2>7, QuietSteps
  <2>8. CASE Rebase(a) /\ UpToDate(a)  BY <2>8, QuietSteps
  <2>9. CASE Rebase(a) /\ ~UpToDate(a)  BY <2>9, RebaseKeeps
  <2>10. CASE Replay(a)  BY <2>10, ReplayKeeps
  <2>11. CASE Settle(a)  BY <2>11, SettleKeeps
  <2> QED
    BY <2>1, <2>2, <2>3, <2>4, <2>5, <2>6, <2>7, <2>8, <2>9, <2>10, <2>11 DEF Call, GitStep
<1>3. CASE UNCHANGED vars
  <2>1. UNCHANGED <<remote, base, local, todo, phase, attempt, held, made, now>>  BY <1>3 DEF vars
  <2>2. now \in Nat /\ now <= now  BY KnownFacts
  <2>3. TypeOK /\ PhaseInv /\ ConflictsOnlyOnSharedPaths  BY DEF OrgInv
  <2>4. TypeOK'  BY <2>1, <2>3 DEF TypeOK
  <2>5. PhaseInv'  BY <2>1, <2>3 DEF PhaseInv, LastIsPut, Newest
  <2>6. ConflictsOnlyOnSharedPaths'  BY <2>1, <2>3 DEF ConflictsOnlyOnSharedPaths
  <2>7. Known' = Known /\ Books' /\ RemovalInv' /\ LockHistoryHonest'  BY <2>1, <2>2, SameBooks
  <2>8. OrderInv' /\ ChainInv'  BY <2>1, SameClones
  <2>9. HeldInv'
    <3>1. Renewed(Known, Known')  BY <2>7, RenewedSelf
    <3> QED  BY <2>1, <3>1, HeldSame
  <2> QED  BY <2>4, <2>5, <2>6, <2>7, <2>8, <2>9, Assembled
<1> QED  BY <1>1, <1>2, <1>3 DEF Next

(* The inductive invariant holds in every behaviour, with or without the   *)
(* fairness of the git commands.                                           *)
THEOREM OrgInvariant == Spec => []OrgInv
BY OrgInit, OrgNext, PTL DEF Spec

(* The clones, the commits waiting in them and the state of every call     *)
(* always have their types: the loop of _commit_and_push never gets past   *)
(* its third attempt.                                                      *)
THEOREM TypeCorrect == Spec => []TypeOK
<1>1. OrgInv => TypeOK  BY DEF OrgInv
<1> QED  BY <1>1, OrgInvariant, PTL

(* Although acquire_lock looks at a clone that may be behind, a published  *)
(* lock replaces none that was in force when it was taken, and one is      *)
(* removed by its owner, late, or by an agent who lost its own that way.   *)
THEOREM LocksHonest == Spec => []LockHistoryHonest
<1>1. OrgInv => LockHistoryHonest  BY DEF OrgInv
<1> QED  BY <1>1, OrgInvariant, PTL

(* The logs of an agent, which only it writes, never stop a rebase: a      *)
(* clone gets stuck only on a file that several agents write.              *)
THEOREM OwnPathsNeverConflict == Spec => []ConflictsOnlyOnSharedPaths
<1>1. OrgInv => ConflictsOnlyOnSharedPaths  BY DEF OrgInv
<1> QED  BY <1>1, OrgInvariant, PTL
-----------------------------------------------------------------------------
(* When does the lock exclude?  Two things can go wrong in the code: a     *)
(* holder releases what it does not hold any more, and the lock is         *)
(* reported as taken though its commit was given up or its rejection went  *)
(* unnoticed.  Where neither happens, one agent holds the lock at a time.  *)
NoLateRelease == \A a \in Agents : ReleaseLock(a) /\ made' # made => now < held[a]
NoLockGivenUp == \A a \in Agents : PushIgnored(a) \/ Rebase(a) \/ Replay(a) => UNCHANGED held

(* Every removal was committed while its author's lock was in force.       *)
TimelyInv == \A c \in Known : c.op = "remove" => c.at < c.until

(* What an agent believes is published, and it has nothing else to say     *)
(* about the lock.                                                         *)
Stands(a, i) ==
  /\ i \in 1..Len(remote)
  /\ remote[i].path = Lock /\ remote[i].op = "put"
  /\ remote[i].author = a /\ remote[i].until = held[a]
  /\ \A j \in Touching(remote, Lock) : j <= i
BeliefInv == \A a \in Agents : held[a] > now =>
  /\ \E i : Stands(a, i)
  /\ \A c \in Elements(Outbox(a)) : c.path # Lock

(* The same of a lock that was published, but whose taker does not know it *)
(* yet, because the answer to the push was lost.                           *)
Standing(a, i) ==
  /\ i \in 1..Len(remote)
  /\ remote[i].path = Lock /\ remote[i].op = "put" /\ remote[i].author = a
  /\ \A j \in Touching(remote, Lock) : j <= i
PromiseInv == \A a \in Agents : phase[a] = "settle" => \A i :
  IsLast(a, i) /\ remote[i].path = Lock /\ remote[i].op = "put" /\ remote[i].until > now =>
    Standing(a, i)

(* Steps after which the same is published and every agent has at most     *)
(* what it had before.                                                     *)
Still ==
  /\ UNCHANGED remote /\ Renewed(Known, Known') /\ now <= now' /\ now' \in Nat
  /\ \A b \in Agents : \A e \in Elements(Outbox(b)') : \E f \in Elements(Outbox(b)) : Alike(e, f)

LEMMA SameStill ==
  ASSUME OrgInv, UNCHANGED remote, \A b \in Agents : Outbox(b)' = Outbox(b),
         now <= now', now' \in Nat
  PROVE  Still
<1>1. Known' = Known  BY DEF Known, Elements
<1>2. Renewed(Known, Known')  BY <1>1, RenewedSelf
<1> QED  BY <1>2, AlikeSelf DEF Still

LEMMA StillSteps ==
  ASSUME OrgInv,
         \/ Tick \/ UNCHANGED vars
         \/ \E a \in Agents :
              \/ Crash(a) \/ PushRaises(a) \/ PullRaises(a) \/ PushIgnored(a) \/ Pull(a)
              \/ Rebase(a) \/ Replay(a) \/ Settle(a)
              \/ ReleaseLock(a) /\ ~Exists(Clone(a), Lock)
  PROVE  Still
<1>1. now \in Nat /\ now <= now /\ now + 1 \in Nat /\ now <= now + 1  BY KnownFacts
<1>2. CASE UNCHANGED <<remote, local, todo>> /\ now' \in {now, now + 1}
  <2>1. \A b \in Agents : Outbox(b)' = Outbox(b)  BY <1>2 DEF Outbox
  <2> QED  BY <1>1, <1>2, <2>1, SameStill
<1>3. CASE Tick \/ UNCHANGED vars
  <2>1. UNCHANGED <<remote, local, todo>> /\ now' \in {now, now + 1}  BY <1>3 DEF Tick, vars
  <2> QED  BY <2>1, <1>2
<1>4. ASSUME NEW a \in Agents,
             \/ Crash(a) \/ PushRaises(a) \/ PullRaises(a) \/ PushIgnored(a) \/ Pull(a)
             \/ Settle(a)
             \/ Rebase(a) /\ UpToDate(a)
             \/ ReleaseLock(a) /\ ~Exists(Clone(a), Lock)
      PROVE  Still
  <2>1. UNCHANGED <<remote, local, todo>> /\ now' \in {now, now + 1}
    BY <1>4 DEF Crash, PushRaises, PullRaises, PushIgnored, Pull, Rebase, Settle, ReleaseLock
  <2> QED  BY <2>1, <1>2
<1>5. ASSUME NEW a \in Agents, Rebase(a), ~UpToDate(a) PROVE Still
  <2>1. UNCHANGED remote /\ \A b \in Agents : Outbox(b)' = Outbox(b)  BY <1>5, RebaseMoves
  <2>2. now' = now  BY <1>5 DEF Rebase
  <2> QED  BY <1>1, <2>1, <2>2, SameStill
<1>6. ASSUME NEW a \in Agents, Replay(a) PROVE Still
  <2>1. PICK c, t : Replaying(a, c, t) /\ (Applies(a, c, t) \/ Drops(a, c, t) \/ Conflicts(a, c))
    BY <1>6, ReplayCases
  <2>2. CASE Conflicts(a, c)
    <3>1. UNCHANGED <<remote, local, todo>> /\ now' \in {now, now + 1}
      BY <2>1, <2>2 DEF Replaying, Conflicts
    <3> QED  BY <3>1, <1>2
  <2>3. CASE Applies(a, c, t) \/ Drops(a, c, t)
    <3>1. Moved(a, c, t)  BY <1>6, <2>1, <2>3, MovedByReplay
    <3>2. /\ \A b \in Agents : b # a => Outbox(b)' = Outbox(b)
          /\ \A e \in Elements(Outbox(a)') : \E f \in Elements(Outbox(a)) : Alike(e, f)
          /\ Renewed(Known, Known')
      BY <2>1, <3>1, MovedKnown
    <3>3. UNCHANGED <<remote, now>>  BY <2>1 DEF Replaying
    <3>4. \A b \in Agents : \A e \in Elements(Outbox(b)') : \E f \in Elements(Outbox(b)) : Alike(e, f)
      <4> SUFFICES ASSUME NEW b \in Agents, NEW e \in Elements(Outbox(b)')
                   PROVE  \E f \in Elements(Outbox(b)) : Alike(e, f)
        OBVIOUS
      <4>1. CASE b = a  BY <3>2, <4>1
      <4>2. CASE b # a  BY <3>2, <4>2, AlikeSelf
      <4> QED  BY <4>1, <4>2
    <3> QED  BY <1>1, <3>2, <3>3, <3>4 DEF Still
  <2> QED  BY <2>1, <2>2, <2>3
<1> QED  BY <1>3, <1>4, <1>5, <1>6
-----------------------------------------------------------------------------
(* A removal is made by who believes that his lock is in force.            *)
LEMMA OperationCommits ==
  ASSUME OrgInv, NEW a \in Agents,
         \/ AppendLog(a) \/ WriteArtifact(a, Shared) \/ AcquireLock(a)
         \/ ReleaseLock(a) /\ Exists(Clone(a), Lock)
  PROVE  \E c, next :
           /\ CommitEffect(a, c, next)
           /\ \/ c.op = "put" /\ UNCHANGED held
                 /\ (c.path = Lock => LockExpired(Clone(a)))
              \/ /\ ReleaseLock(a) /\ c.op = "remove" /\ c.at = now /\ c.until = held[a]
                 /\ held' = [held EXCEPT ![a] = 0]
<1>1. now \in Nat /\ now + LockTime \in Nat /\ 0 \in Nat /\ held[a] \in Nat
  BY KnownFacts, OrgMemoryAssumption DEF OrgInv, TypeOK
<1>2. a # Lock /\ Shared # Lock  BY OrgMemoryAssumption
<1>3. CASE AppendLog(a)
  <2>1. Commit(a, a, "put", 0, 0, "push") /\ UNCHANGED held  BY <1>3 DEF AppendLog, OwnPath
  <2>2. PICK c : CommitEffect(a, c, "push") /\ c.path = a /\ c.op = "put"
    BY <1>1, <2>1, CommitFacts
  <2> QED  BY <1>2, <2>1, <2>2
<1>4. CASE WriteArtifact(a, Shared)
  <2>1. Commit(a, Shared, "put", 0, 0, "push") /\ UNCHANGED held  BY <1>4 DEF WriteArtifact
  <2>2. PICK c : CommitEffect(a, c, "push") /\ c.path = Shared /\ c.op = "put"
    BY <1>1, <2>1, CommitFacts
  <2> QED  BY <1>2, <2>1, <2>2
<1>5. CASE AcquireLock(a)
  <2>1. /\ Commit(a, Lock, "put", now, now + LockTime, "push") /\ UNCHANGED held
        /\ LockExpired(Clone(a))
    BY <1>5 DEF AcquireLock
  <2>2. PICK c : CommitEffect(a, c, "push") /\ c.path = Lock /\ c.op = "put"
    BY <1>1, <2>1, CommitFacts
  <2> QED  BY <2>1, <2>2
<1>6. CASE ReleaseLock(a) /\ Exists(Clone(a), Lock)
  <2>1. /\ Commit(a, Lock, "remove", now, held[a], "unlock") /\ held' = [held EXCEPT ![a] = 0]
    BY <1>6 DEF ReleaseLock
  <2>2. PICK c : /\ CommitEffect(a, c, "unlock") /\ c.op = "remove"
                 /\ c.at = now /\ c.until = held[a]
    BY <1>1, <2>1, CommitFacts
  <2> QED  BY <1>6, <2>1, <2>2
<1> QED  BY <1>3, <1>4, <1>5, <1>6

LEMMA TimelyKept == ASSUME TimelyInv, Renewed(Known, Known') PROVE TimelyInv'
<1> SUFFICES ASSUME NEW c \in Known', c.op = "remove" PROVE c.at < c.until
  BY DEF TimelyInv
<1>1. PICK d \in Known : Alike(c, d)  BY DEF Renewed
<1> QED  BY <1>1 DEF TimelyInv, Alike

(* A step leaves things still, commits, or pushes.                         *)
LEMMA StepCases ==
  ASSUME OrgInv, [Next]_vars
  PROVE  \/ \/ Tick \/ UNCHANGED vars
            \/ \E a \in Agents :
                 \/ Crash(a) \/ PushRaises(a) \/ PullRaises(a) \/ PushIgnored(a) \/ Pull(a)
                 \/ Rebase(a) \/ Replay(a) \/ Settle(a)
                 \/ ReleaseLock(a) /\ ~Exists(Clone(a), Lock)
         \/ \E a \in Agents :
              \/ AppendLog(a) \/ WriteArtifact(a, Shared) \/ AcquireLock(a)
              \/ ReleaseLock(a) /\ Exists(Clone(a), Lock)
         \/ \E a \in Agents : Push(a) \/ PushLost(a)
BY DEF Next, Call, GitStep

LEMMA TimelyNext ==
  ASSUME OrgInv, TimelyInv, [Next]_vars, [NoLateRelease]_vars
  PROVE  TimelyInv'
<1>1. CASE \/ Tick \/ UNCHANGED vars
           \/ \E a \in Agents :
                \/ Crash(a) \/ PushRaises(a) \/ PullRaises(a) \/ PushIgnored(a) \/ Pull(a)
                \/ Rebase(a) \/ Replay(a) \/ Settle(a)
                \/ ReleaseLock(a) /\ ~Exists(Clone(a), Lock)
  <2>1. Still  BY <1>1, StillSteps
  <2> QED  BY <2>1, TimelyKept DEF Still
<1>2. ASSUME NEW a \in Agents,
             \/ AppendLog(a) \/ WriteArtifact(a, Shared) \/ AcquireLock(a)
             \/ ReleaseLock(a) /\ Exists(Clone(a), Lock)
      PROVE  TimelyInv'
  <2>1. PICK c, next :
          /\ CommitEffect(a, c, next)
          /\ \/ c.op = "put"
             \/ ReleaseLock(a) /\ c.op = "remove" /\ c.at = now /\ c.until = held[a]
    BY <1>2, OperationCommits
  <2>2. Known' = Known \cup {c} /\ made' # made
    <3>1. Known' = Known \cup {c} /\ made' = made + 1  BY <2>1 DEF CommitEffect
    <3>2. made \in Nat  BY KnownFacts
    <3> QED  BY <3>1, <3>2
  <2>3. c.op = "remove" => c.at < c.until
    <3>1. vars' # vars  BY <2>2 DEF vars
    <3>2. ReleaseLock(a) => now < held[a]  BY <2>2, <3>1 DEF NoLateRelease
    <3> QED  BY <2>1, <3>2
  <2> QED  BY <2>2, <2>3 DEF TimelyInv
<1>3. ASSUME NEW a \in Agents, Push(a) \/ PushLost(a) PROVE TimelyInv'
  <2>1. Known' = Known  BY <1>3, PushFacts DEF Push, PushLost
  <2> QED  BY <2>1, RenewedSelf, TimelyKept
<1> QED  BY <1>1, <1>2, <1>3, StepCases

(* Nobody loses his lock then: the first to take out another's would be    *)
(* late.                                                                   *)
LEMMA NobodyLost == ASSUME OrgInv, TimelyInv PROVE \A b : ~Lost(b)
<1> DEFINE T == {j \in Touching(remote, Lock) : \E b : TakesOut(j, b)}
<1>1. remote \in Seq(Commits) /\ DOMAIN remote = 1..Len(remote) /\ Len(remote) \in Nat
  BY LenProperties DEF OrgInv, TypeOK
<1>2. T = {}
  <2> SUFFICES ASSUME T # {} PROVE FALSE
    OBVIOUS
  <2>1. T \subseteq Nat  BY <1>1 DEF Touching
  <2>2. PICK j \in T : \A k \in T : j <= k
    <3> HIDE DEF T
    <3> QED  BY <2>1, Least
  <2>3. PICK b : TakesOut(j, b)  BY <2>2
  <2>4. /\ remote[j].op = "remove" /\ Exists(Before(j), Lock)
        /\ LockBefore(j).author = b /\ remote[j].author # b
    BY <2>3 DEF TakesOut
  <2>5. j \in Touching(remote, Lock) /\ j \in 1..Len(remote)  BY <1>1, <2>2 DEF Touching
  <2>6. remote[j] \in Known /\ remote[j] \in Commits  BY <1>1, <2>5, ElementsOf, KnownFacts
  <2>7. \/ remote[j].at >= remote[j].until
        \/ \E k \in Touching(remote, Lock) : k < j /\ TakesOut(k, remote[j].author)
    BY <2>4, <2>5 DEF OrgInv, LockHistoryHonest
  <2>8. ~(remote[j].at >= remote[j].until)
    <3>1. remote[j].at < remote[j].until  BY <2>4, <2>6 DEF TimelyInv
    <3> QED  BY <2>6, <3>1, CommitFields
  <2>9. PICK k \in Touching(remote, Lock) : k < j /\ TakesOut(k, remote[j].author)
    BY <2>7, <2>8
  <2>10. k \in T  BY <2>9
  <2>11. j <= k  BY <2>2, <2>10
  <2> HIDE DEF T
  <2>12. k \in Nat /\ j \in Nat  BY <1>1, <2>5, <2>9 DEF Touching
  <2> QED  BY <2>9, <2>11, <2>12
<1> QED  BY <1>2 DEF Lost

(* Every lock is removed by its owner.                                     *)
RemovedByOwner == \A i \in Touching(remote, Lock) :
  Exists(Before(i), Lock) /\ remote[i].op = "remove" => remote[i].author = LockBefore(i).author

LEMMA TimelyInit == Init => TimelyInv
<1> SUFFICES ASSUME Init PROVE TimelyInv
  OBVIOUS
<1>1. \A a \in Agents : Outbox(a) = <<>>  BY EmptyFacts DEF Init, Outbox
<1>2. Known = {}  BY <1>1, EmptyFacts DEF Init, Known
<1> QED  BY <1>2 DEF TimelyInv

(* If every agent releases only locks still in force, then, whatever is    *)
(* rejected, rebased or given up, a lock is never removed by anybody but   *)
(* its owner.                                                              *)
THEOREM OwnersRemove == Spec /\ [][NoLateRelease]_vars => []RemovedByOwner
<1>1. OrgInv /\ TimelyInv => RemovedByOwner
  <2> SUFFICES ASSUME OrgInv, TimelyInv, NEW i \in Touching(remote, Lock),
                      Exists(Before(i), Lock), remote[i].op = "remove",
                      remote[i].author # LockBefore(i).author
               PROVE  FALSE
    BY DEF RemovedByOwner
  <2>1. TakesOut(i, LockBefore(i).author)  BY DEF TakesOut
  <2> QED  BY <2>1, NobodyLost DEF Lost
<1>2. OrgInv /\ TimelyInv /\ [Next]_vars /\ [NoLateRelease]_vars => TimelyInv'  BY TimelyNext
<1> QED  BY <1>1, <1>2, TimelyInit, OrgInvariant, PTL DEF Spec
-----------------------------------------------------------------------------
(* The clone of who believes to hold the lock says so too.                 *)
LEMMA BelieverSeesLock ==
  ASSUME OrgInv, BeliefInv, NEW a \in Agents, held[a] > now
  PROVE  ~LockExpired(Clone(a))
<1> DEFINE h == Clone(a)
           p == SubSeq(remote, 1, base[a])
<1>1. /\ remote \in Seq(Commits) /\ Len(remote) \in Nat /\ base[a] \in 0..Len(remote)
      /\ local[a] \in Seq(Commits) /\ h \in Seq(Commits)
      /\ p \in Seq(Commits) /\ h = p \o local[a]
      /\ Elements(Outbox(a)) = Elements(local[a]) \cup Elements(todo[a])
  BY Facts DEF Clone
<1>2. PICK i : Stands(a, i)  BY DEF BeliefInv
<1>3. \A c \in Elements(local[a]) : c.path # Lock  BY <1>1 DEF BeliefInv
<1>4. i \in 1..base[a]
  <2>1. \A k \in (base[a] + 1)..Len(remote) : remote[k].author # a  BY DEF OrgInv, OrderInv
  <2> QED  BY <1>1, <1>2, <2>1 DEF Stands
<1>5. Len(p) = base[a] /\ \A k \in 1..base[a] : p[k] = remote[k]  BY <1>1, Prefix
<1>6. Len(local[a]) \in Nat /\ DOMAIN remote = 1..Len(remote)  BY <1>1, LenProperties
<1> HIDE DEF h, p
<1>7. /\ Len(h) = base[a] + Len(local[a])
      /\ \A k \in 1..(base[a] + Len(local[a])) :
           h[k] = IF k <= base[a] THEN p[k] ELSE local[a][k - base[a]]
  <2>1. /\ Len(p \o local[a]) = Len(p) + Len(local[a])
        /\ \A k \in 1..(Len(p) + Len(local[a])) :
             (p \o local[a])[k] = IF k <= Len(p) THEN p[k] ELSE local[a][k - Len(p)]
    BY <1>1, ConcatProperties
  <2>2. h = p \o local[a] /\ Len(p) = base[a]  BY <1>1, <1>5
  <2> QED  BY <2>1, <2>2
<1>8. DOMAIN h = 1..(base[a] + Len(local[a]))  BY <1>1, <1>7, LenProperties
<1>9. h[i] = remote[i] /\ i \in DOMAIN h /\ i \in Nat  BY <1>1, <1>4, <1>5, <1>6, <1>7, <1>8
<1>10. i \in Touching(h, Lock)  BY <1>2, <1>9 DEF Touching, Stands
<1>11. ASSUME NEW j \in Touching(h, Lock) PROVE j <= i
  <2>1. j \in 1..(base[a] + Len(local[a])) /\ h[j].path = Lock  BY <1>8 DEF Touching
  <2>2. CASE j <= base[a]
    <3>1. j \in 1..base[a]  BY <1>1, <2>1, <2>2
    <3>2. h[j] = remote[j] /\ j \in 1..Len(remote)  BY <1>1, <1>5, <1>7, <2>1, <2>2, <3>1
    <3>3. j \in Touching(remote, Lock)  BY <1>6, <2>1, <3>2 DEF Touching
    <3> QED  BY <1>2, <3>3 DEF Stands
  <2>3. CASE ~(j <= base[a])
    <3>1. j - base[a] \in 1..Len(local[a]) /\ h[j] = local[a][j - base[a]]
      BY <1>1, <1>6, <1>7, <2>1, <2>3
    <3>2. h[j] \in Elements(local[a])  BY <1>1, <3>1, ElementsOf
    <3> QED  BY <1>3, <2>1, <3>2
  <2> QED  BY <2>2, <2>3
<1>12. Last(h, Lock) = i  BY <1>1, <1>10, <1>11, LastIs
<1>13. h[Last(h, Lock)].op = "put" /\ h[Last(h, Lock)].until = held[a]
  BY <1>2, <1>9, <1>12 DEF Stands
<1>14. Exists(h, Lock)  BY <1>10, <1>13 DEF Exists
<1>15. held[a] \in Nat /\ now \in Nat  BY KnownFacts DEF OrgInv, TypeOK
<1> QED  BY <1>13, <1>14, <1>15 DEF LockExpired, h

(* Nobody can push a commit about the lock while another one holds it: the *)
(* first such commit would replace the holder's, which has not expired, or *)
(* remove it, which only the holder does.                                  *)
LEMMA NobodyIntrudes ==
  ASSUME OrgInv, TimelyInv, NEW a \in Agents, Publish(a),
         NEW c \in Elements(local[a]), c.path = Lock,
         NEW b \in Agents, \A e \in Elements(Outbox(b)) : e.path # Lock,
         NEW i, Standing(b, i), remote[i].until > now
  PROVE  FALSE
<1>1. /\ local[a] \in Seq(Commits) /\ Len(remote) \in Nat /\ Len(local[a]) \in Nat
      /\ remote' \in Seq(Commits) /\ remote' = Clone(a)
      /\ Len(remote') = Len(remote) + Len(local[a])
      /\ \A n \in 1..Len(remote') :
           remote'[n] = IF n <= Len(remote) THEN remote[n] ELSE local[a][n - Len(remote)]
  BY PushFacts
<1>2. /\ Elements(local[a]) \subseteq Elements(Outbox(a)) /\ Elements(remote) \subseteq Known
      /\ Elements(Outbox(a)) \subseteq Known /\ Known \subseteq Commits /\ now \in Nat
  BY Facts, KnownFacts
<1>3. b # a  BY <1>2
<1>4. Standing(b, i)  OBVIOUS
<1>5. /\ DOMAIN remote = 1..Len(remote) /\ DOMAIN remote' = 1..Len(remote')
      /\ remote \in Seq(Commits)
  BY <1>1, LenProperties DEF OrgInv, TypeOK
<1>6. i \in 1..Len(remote) /\ i \in Nat /\ remote'[i] = remote[i]  BY <1>1, <1>4 DEF Standing
<1> DEFINE T == {k \in Touching(remote', Lock) : k > i}
<1>7. T # {}
  <2>0. c \in {local[a][m] : m \in 1..Len(local[a])}
    <3>1. local[a] \in Seq(Commits)  BY <1>1
    <3>2. Elements(local[a]) = {local[a][m] : m \in 1..Len(local[a])}  BY <3>1, ElementsOf
    <3> QED  BY <3>2
  <2>1. PICK m \in 1..Len(local[a]) : c = local[a][m]  BY <2>0
  <2>2. /\ Len(remote) + m \in 1..Len(remote') /\ ~(Len(remote) + m <= Len(remote))
        /\ Len(remote) + m - Len(remote) = m /\ Len(remote) + m > i
    BY <1>1, <1>6, <2>1
  <2>3. remote'[Len(remote) + m] = c  BY <1>1, <2>1, <2>2
  <2>4. Len(remote) + m \in Touching(remote', Lock)  BY <1>5, <2>2, <2>3 DEF Touching
  <2> QED  BY <2>2, <2>4
<1>8. T \subseteq Nat  BY <1>1, <1>5 DEF Touching
<1>9. PICK k \in T : \A j \in T : k <= j
  <2> HIDE DEF T
  <2> QED  BY <1>7, <1>8, Least
<1>10. k \in 1..Len(remote') /\ remote'[k].path = Lock /\ k > i /\ k \in Touching(remote', Lock)
  BY <1>5, <1>9 DEF Touching
<1>11. ~(k <= Len(remote))
  <2> SUFFICES ASSUME k <= Len(remote) PROVE FALSE
    OBVIOUS
  <2>1. k \in 1..Len(remote) /\ remote'[k] = remote[k]  BY <1>1, <1>10
  <2>2. k \in Touching(remote, Lock)  BY <1>5, <1>10, <2>1 DEF Touching
  <2>3. k <= i  BY <1>4, <2>2 DEF Standing
  <2> QED  BY <1>6, <1>10, <2>1, <2>3
<1> PICK d : d = local[a][k - Len(remote)]  OBVIOUS
<1>12. d = remote'[k] /\ d \in Elements(local[a])
  <2>1. k - Len(remote) \in 1..Len(local[a])  BY <1>1, <1>10, <1>11
  <2> QED  BY <1>1, <1>10, <1>11, <2>1, ElementsOf
<1>13. /\ d \in Elements(Outbox(a)) /\ d \in Known /\ d \in Commits
       /\ d.path = Lock /\ d.author = a /\ d.op \in {"put", "remove"}
  <2>1. d \in Elements(Outbox(a)) /\ d \in Known /\ d \in Commits /\ d.path = Lock
    BY <1>2, <1>10, <1>12
  <2>2. d.author = a  BY <2>1 DEF OrgInv, OrderInv
  <2> QED  BY <2>1, <2>2, CommitFields
<1> DEFINE h == SubSeq(remote', 1, k - 1)
<1>14. /\ h \in Seq(Commits) /\ Len(h) = k - 1 /\ DOMAIN h = 1..(k - 1)
       /\ \A j \in 1..(k - 1) : h[j] = remote'[j]
  <2>1. k - 1 \in 0..Len(remote')  BY <1>1, <1>10
  <2>2. h \in Seq(Commits) /\ Len(h) = k - 1 /\ \A j \in 1..(k - 1) : h[j] = remote'[j]
    BY <1>1, <2>1, Prefix
  <2> HIDE DEF h
  <2> QED  BY <2>2, LenProperties
<1>15. d.over = Content(h, Lock)
  <2>1. Chained(remote')  BY <1>1 DEF OrgInv, ChainInv
  <2> QED  BY <1>5, <1>10, <1>12, <2>1 DEF Chained
<1> HIDE DEF h
<1>16. i \in 1..(k - 1) /\ h[i] = remote[i]  BY <1>1, <1>6, <1>10, <1>14
<1>17. i \in Touching(h, Lock)  BY <1>4, <1>14, <1>16 DEF Touching, Standing
<1>18. ASSUME NEW j \in Touching(h, Lock) PROVE j <= i
  <2>1. j \in 1..(k - 1) /\ remote'[j].path = Lock  BY <1>14 DEF Touching
  <2>2. j \in 1..Len(remote') /\ j \in Nat /\ k \in Nat /\ j < k  BY <1>1, <1>10, <2>1
  <2>3. j \in Touching(remote', Lock)  BY <1>5, <2>1, <2>2 DEF Touching
  <2>4. j \notin T
    <3> SUFFICES ASSUME j \in T PROVE FALSE
      OBVIOUS
    <3>1. k <= j  BY <1>9
    <3> QED  BY <2>2, <3>1
  <2>5. ~(j > i)  BY <2>3, <2>4
  <2> QED  BY <1>6, <2>2, <2>5
<1>19. Last(h, Lock) = i  BY <1>14, <1>17, <1>18, LastIs
<1>20. d.over = remote[i].id
  <2>1. Exists(h, Lock)  BY <1>4, <1>16, <1>17, <1>19 DEF Exists, Standing
  <2> QED  BY <1>15, <1>16, <1>19, <2>1 DEF Content
<1>21. remote[i] \in Known /\ remote[i].author = b /\ remote[i].until \in Nat
  <2>1. remote[i] \in Elements(remote)  BY <1>5, <1>6, ElementsOf
  <2>2. remote[i] \in Known /\ remote[i] \in Commits  BY <1>2, <2>1
  <2> QED  BY <1>4, <2>2, CommitFields DEF Standing
<1>22. CASE d.op = "put"
  <2>1. d.at >= remote[i].until  BY <1>13, <1>20, <1>21, <1>22 DEF OrgInv, LockInv
  <2>2. d.at <= now  BY <1>13 DEF OrgInv, CommitsInv
  <2>3. d.at \in Nat  BY <1>13, CommitFields
  <2> QED  BY <1>2, <1>21, <2>1, <2>2, <2>3
<1>23. CASE d.op = "remove"
  <2>1. Justified(d)  BY <1>13, <1>23 DEF OrgInv, RemovalInv
  <2>2. ~(\A e \in Known : e.id = d.over => e.author = d.author)  BY <1>3, <1>13, <1>20, <1>21
  <2>3. ~(d.at >= d.until)
    <3>1. d.at < d.until  BY <1>13, <1>23 DEF TimelyInv
    <3> QED  BY <1>13, <3>1, CommitFields
  <2>4. ~Lost(d.author)  BY NobodyLost
  <2> QED  BY <2>1, <2>2, <2>3, <2>4 DEF Justified
<1> QED  BY <1>13, <1>22, <1>23

LEMMA BeliefStays ==
  ASSUME OrgInv, BeliefInv, Still, NEW b \in Agents, held'[b] \in {held[b], 0}, held'[b] > now'
  PROVE  (\E i : Stands(b, i)') /\ \A c \in Elements(Outbox(b)') : c.path # Lock
<1>1. /\ UNCHANGED remote /\ now <= now' /\ now' \in Nat /\ now \in Nat /\ held[b] \in Nat
      /\ \A e \in Elements(Outbox(b)') : \E f \in Elements(Outbox(b)) : Alike(e, f)
  BY KnownFacts DEF Still, OrgInv, TypeOK
<1>2. held'[b] = held[b] /\ held[b] > now  BY <1>1
<1>3. PICK i : Stands(b, i)  BY <1>2 DEF BeliefInv
<1>4. Stands(b, i)'
  <2>1. Touching(remote, Lock)' = Touching(remote, Lock)  BY <1>1 DEF Touching
  <2> QED  BY <1>1, <1>2, <1>3, <2>1 DEF Stands
<1>5. \A c \in Elements(Outbox(b)) : c.path # Lock  BY <1>2 DEF BeliefInv
<1>6. \A c \in Elements(Outbox(b)') : c.path # Lock  BY <1>1, <1>5 DEF Alike
<1> QED  BY <1>4, <1>6

LEMMA BeliefStill ==
  ASSUME OrgInv, BeliefInv, Still, \A b \in Agents : held'[b] \in {held[b], 0}
  PROVE  BeliefInv'
<1>1. ASSUME NEW b \in Agents, held'[b] > now'
      PROVE  (\E i : Stands(b, i)') /\ \A c \in Elements(Outbox(b)') : c.path # Lock
  BY <1>1, BeliefStays
<1> QED  BY <1>1 DEF BeliefInv, Elements

(* Whose push was accepted without an answer believes so in the end.       *)
LEMMA BeliefSettle ==
  ASSUME OrgInv, BeliefInv, PromiseInv, NEW a \in Agents, Settle(a)
  PROVE  BeliefInv'
<1>1. Still  BY StillSteps
<1>2. /\ phase[a] = "settle" /\ Outbox(a) = <<>> /\ UNCHANGED <<remote, local, todo, now>>
  BY SettleCases
<1>3. Outbox(a)' = <<>> /\ held \in [Agents -> Nat]  BY <1>2 DEF Outbox, OrgInv, TypeOK
<1>4. CASE UNCHANGED held  BY <1>1, <1>4, BeliefStill
<1>5. CASE \E i : IsLast(a, i) /\ Returns(a, remote[i])
  <2>1. PICK i : IsLast(a, i) /\ Returns(a, remote[i])  BY <1>5
  <2>2. CASE ~(remote[i].path = Lock /\ remote[i].op = "put")
    <3>1. UNCHANGED held  BY <2>1, <2>2 DEF Returns
    <3> QED  BY <1>4, <3>1
  <2>3. CASE remote[i].path = Lock /\ remote[i].op = "put"
    <3>1. held' = [held EXCEPT ![a] = remote[i].until]  BY <2>1, <2>3 DEF Returns
    <3> SUFFICES ASSUME NEW b \in Agents, held'[b] > now'
                 PROVE  (\E n : Stands(b, n)') /\ \A c \in Elements(Outbox(b)') : c.path # Lock
      BY DEF BeliefInv, Elements
    <3>2. CASE b # a
      <4>1. held'[b] = held[b]  BY <1>3, <3>1, <3>2
      <4> QED  BY <1>1, <4>1, BeliefStays
    <3>3. CASE b = a
      <4>1. held'[a] = remote[i].until /\ remote[i].until > now  BY <1>2, <1>3, <3>1, <3>3
      <4>2. Standing(a, i)  BY <1>2, <2>1, <2>3, <4>1 DEF PromiseInv
      <4>3. Touching(remote, Lock)' = Touching(remote, Lock)  BY <1>2 DEF Touching
      <4>4. Stands(a, i)'  BY <1>2, <4>1, <4>2, <4>3 DEF Standing, Stands
      <4> QED  BY <1>3, <3>3, <4>4, ElementsEmpty
    <3> QED  BY <3>2, <3>3
  <2> QED  BY <2>2, <2>3
<1> QED  BY <1>4, <1>5, SettleCases

LEMMA BeliefCommit ==
  ASSUME OrgInv, BeliefInv, NEW a \in Agents, NEW c, NEW next, CommitEffect(a, c, next),
         \/ c.op = "put" /\ UNCHANGED held /\ (c.path = Lock => LockExpired(Clone(a)))
         \/ held' = [held EXCEPT ![a] = 0]
  PROVE  BeliefInv'
<1>1. /\ UNCHANGED <<remote, now>> /\ Elements(Outbox(a)') = Elements(Outbox(a)) \cup {c}
      /\ \A b \in Agents : b # a => Outbox(b)' = Outbox(b)
  BY DEF CommitEffect
<1>2. held \in [Agents -> Nat] /\ now \in Nat  BY KnownFacts DEF OrgInv, TypeOK
<1> SUFFICES ASSUME NEW b \in Agents, held'[b] > now'
             PROVE  /\ \E i : Stands(b, i)'
                    /\ \A e \in Elements(Outbox(b)') : e.path # Lock
  BY DEF BeliefInv, Elements
<1>3. held'[b] = held[b] /\ held[b] > now
  <2>1. CASE UNCHANGED held  BY <1>1, <2>1
  <2>2. CASE held' = [held EXCEPT ![a] = 0]
    <3>1. held'[b] = IF b = a THEN 0 ELSE held[b]  BY <1>2, <2>2
    <3> QED  BY <1>1, <1>2, <3>1
  <2> QED  BY <2>1, <2>2
<1>4. PICK i : Stands(b, i)  BY <1>3 DEF BeliefInv
<1>5. Stands(b, i)'
  <2>1. Touching(remote, Lock)' = Touching(remote, Lock)  BY <1>1 DEF Touching
  <2> QED  BY <1>1, <1>3, <1>4, <2>1 DEF Stands
<1>6. \A e \in Elements(Outbox(b)) : e.path # Lock  BY <1>3 DEF BeliefInv
<1>7. CASE b = a
  <2>1. ~(held' = [held EXCEPT ![a] = 0])
    <3> SUFFICES ASSUME held' = [held EXCEPT ![a] = 0] PROVE FALSE
      OBVIOUS
    <3>1. held'[a] = 0  BY <1>2
    <3> QED  BY <1>1, <1>2, <1>7, <3>1
  <2>2. c.path = Lock => LockExpired(Clone(a))  BY <2>1
  <2>3. ~LockExpired(Clone(a))  BY <1>3, <1>7, BelieverSeesLock
  <2> QED  BY <1>1, <1>5, <1>6, <1>7, <2>2, <2>3
<1>8. CASE b # a  BY <1>1, <1>5, <1>6, <1>8
<1> QED  BY <1>7, <1>8

LEMMA BeliefPush ==
  ASSUME OrgInv, TimelyInv, BeliefInv, NEW a \in Agents, Push(a) \/ PushLost(a)
  PROVE  BeliefInv'
<1>1. /\ local[a] # <<>> /\ local[a] \in Seq(Commits) /\ Len(remote) \in Nat
      /\ Len(local[a]) \in Nat
      /\ remote' \in Seq(Commits) /\ Len(remote') = Len(remote) + Len(local[a])
      /\ \A i \in 1..Len(remote') :
           remote'[i] = IF i <= Len(remote) THEN remote[i] ELSE local[a][i - Len(remote)]
      /\ Publish(a) /\ now' = now
      /\ Outbox(a)' = <<>> /\ \A b \in Agents : b # a => Outbox(b)' = Outbox(b)
  BY PushFacts DEF Push, PushLost
<1>2. /\ DOMAIN remote = 1..Len(remote) /\ DOMAIN remote' = 1..Len(remote')
      /\ held \in [Agents -> Nat]
  BY <1>1, LenProperties DEF OrgInv, TypeOK
<1>3. Newest(a) \in Elements(local[a]) /\ Newest(a) = remote'[Len(remote')] /\ Len(local[a]) # 0
  <2>1. Len(local[a]) # 0  BY <1>1, EmptySeq
  <2>2. Len(local[a]) \in 1..Len(local[a])  BY <1>1, <2>1
  <2>3. /\ Len(remote') \in 1..Len(remote') /\ ~(Len(remote') <= Len(remote))
        /\ Len(remote') - Len(remote) = Len(local[a])
    BY <1>1, <2>1
  <2>4. remote'[Len(remote')] = local[a][Len(local[a])]  BY <1>1, <2>3
  <2> QED  BY <1>1, <2>1, <2>2, <2>4, ElementsOf DEF Newest
<1>4. \/ held' = held
      \/ held' = IF Newest(a).path = Lock /\ Newest(a).op = "put"
                   THEN [held EXCEPT ![a] = Newest(a).until] ELSE held
  BY DEF Push, PushLost, Returns
<1> SUFFICES ASSUME NEW b \in Agents, held'[b] > now'
             PROVE  /\ \E i : Stands(b, i)'
                    /\ \A e \in Elements(Outbox(b)') : e.path # Lock
  BY DEF BeliefInv, Elements
<1>5. CASE \A c \in Elements(local[a]) : c.path # Lock
  <2>1. held' = held  BY <1>3, <1>4, <1>5
  <2>2. held[b] > now  BY <1>1, <2>1
  <2>3. PICK i : Stands(b, i)  BY <2>2 DEF BeliefInv
  <2>4. i \in 1..Len(remote) /\ i \in 1..Len(remote') /\ remote'[i] = remote[i]
    BY <1>1, <2>3 DEF Stands
  <2>5. ASSUME NEW j \in Touching(remote', Lock) PROVE j <= i
    <3>1. j \in 1..Len(remote') /\ remote'[j].path = Lock  BY <1>2 DEF Touching
    <3>2. CASE j <= Len(remote)
      <4>1. j \in 1..Len(remote) /\ remote'[j] = remote[j]  BY <1>1, <3>1, <3>2
      <4>2. j \in Touching(remote, Lock)  BY <1>2, <3>1, <4>1 DEF Touching
      <4> QED  BY <2>3, <4>2 DEF Stands
    <3>3. CASE ~(j <= Len(remote))
      <4>1. j - Len(remote) \in 1..Len(local[a]) /\ remote'[j] = local[a][j - Len(remote)]
        BY <1>1, <3>1, <3>3
      <4>2. remote'[j] \in Elements(local[a])  BY <1>1, <4>1, ElementsOf
      <4> QED  BY <1>5, <3>1, <4>2
    <3> QED  BY <3>2, <3>3
  <2>6. Stands(b, i)'
    <3>1. Touching(remote, Lock)' = Touching(remote', Lock)  BY DEF Touching
    <3> QED  BY <2>1, <2>3, <2>4, <2>5, <3>1 DEF Stands
  <2>7. \A e \in Elements(Outbox(b)) : e.path # Lock  BY <2>2 DEF BeliefInv
  <2>8. \A e \in Elements(Outbox(b)') : e.path # Lock
    <3>1. CASE b = a  BY <1>1, <3>1, ElementsEmpty
    <3>2. CASE b # a  BY <1>1, <2>7, <3>2
    <3> QED  BY <3>1, <3>2
  <2> QED  BY <2>6, <2>8
<1>6. CASE \E c \in Elements(local[a]) : c.path = Lock
  <2>1. ~(held[b] > now)
    <3> SUFFICES ASSUME held[b] > now PROVE FALSE
      OBVIOUS
    <3>1. PICK i : Stands(b, i)  BY DEF BeliefInv
    <3>2. Standing(b, i) /\ remote[i].until > now  BY <3>1 DEF Stands, Standing
    <3>3. \A e \in Elements(Outbox(b)) : e.path # Lock  BY DEF BeliefInv
    <3> QED  BY <1>1, <1>6, <3>2, <3>3, NobodyIntrudes
  <2>2. held'[b] # held[b]  BY <1>1, <2>1
  <2>3. /\ Newest(a).path = Lock /\ Newest(a).op = "put" /\ b = a
        /\ held'[a] = Newest(a).until
    BY <1>2, <1>4, <2>2
  <2>4. Newest(a).author = a
    <3>1. Newest(a) \in Elements(Outbox(a))  BY <1>3, Facts
    <3> QED  BY <3>1 DEF OrgInv, OrderInv
  <2>5. Len(remote') \in 1..Len(remote')  BY <1>1, <1>3
  <2>6. \A j \in Touching(remote', Lock) : j <= Len(remote')  BY <1>1, <1>2 DEF Touching
  <2>7. \E n : Stands(a, n)'
    <3> PICK n : n = Len(remote')  OBVIOUS
    <3>1. Touching(remote, Lock)' = Touching(remote', Lock)  BY DEF Touching
    <3>2. Stands(a, n)'  BY <1>3, <2>3, <2>4, <2>5, <2>6, <3>1 DEF Stands
    <3> QED  BY <3>2
  <2>8. \A e \in Elements(Outbox(b)') : e.path # Lock  BY <1>1, <2>3, ElementsEmpty
  <2> QED  BY <2>3, <2>7, <2>8
<1> QED  BY <1>5, <1>6

LEMMA PromiseStill ==
  ASSUME OrgInv, PromiseInv, UNCHANGED remote, now <= now', now' \in Nat,
         \A b \in Agents : phase'[b] = "settle" => phase[b] = "settle"
  PROVE  PromiseInv'
<1> SUFFICES ASSUME NEW b \in Agents, phase'[b] = "settle", NEW i, IsLast(b, i)',
                    remote[i].path = Lock, remote[i].op = "put", remote[i].until > now'
             PROVE  Standing(b, i)'
  BY DEF PromiseInv
<1>1. IsLast(b, i) /\ now \in Nat  BY KnownFacts DEF IsLast
<1>2. remote[i].until \in Nat
  <2>1. remote \in Seq(Commits) /\ i \in 1..Len(remote)
    BY <1>1, LenProperties DEF OrgInv, TypeOK, IsLast
  <2>2. remote[i] \in Commits  BY <2>1, ElementOfSeq
  <2> QED  BY <2>2, CommitFields
<1>3. remote[i].until > now  BY <1>1, <1>2
<1>4. Standing(b, i)  BY <1>1, <1>3 DEF PromiseInv
<1>5. Touching(remote, Lock)' = Touching(remote, Lock)  BY DEF Touching
<1> QED  BY <1>4, <1>5 DEF Standing

LEMMA PromisePush ==
  ASSUME OrgInv, TimelyInv, PromiseInv, NEW a \in Agents, Push(a) \/ PushLost(a)
  PROVE  PromiseInv'
<1>1. /\ local[a] # <<>> /\ local[a] \in Seq(Commits) /\ Len(remote) \in Nat
      /\ Len(local[a]) \in Nat
      /\ remote' \in Seq(Commits) /\ Len(remote') = Len(remote) + Len(local[a])
      /\ \A i \in 1..Len(remote') :
           remote'[i] = IF i <= Len(remote) THEN remote[i] ELSE local[a][i - Len(remote)]
      /\ Publish(a) /\ now' = now
  BY PushFacts DEF Push, PushLost
<1>2. /\ DOMAIN remote = 1..Len(remote) /\ DOMAIN remote' = 1..Len(remote')
      /\ \A b \in Agents : b # a => phase'[b] = phase[b]
  BY <1>1, LenProperties DEF OrgInv, TypeOK, Push, PushLost, Returns, Idle, Goto
<1>3. ASSUME NEW j \in 1..Len(remote'), ~(j <= Len(remote))
      PROVE  remote'[j] \in Elements(local[a]) /\ remote'[j].author = a
  <2>1. j - Len(remote) \in 1..Len(local[a]) /\ remote'[j] = local[a][j - Len(remote)]
    BY <1>1, <1>3
  <2>2. remote'[j] \in Elements(local[a])  BY <1>1, <2>1, ElementsOf
  <2> QED  BY <2>2, CloneOrder
<1> SUFFICES ASSUME NEW b \in Agents, phase'[b] = "settle", NEW i, IsLast(b, i)',
                    remote'[i].path = Lock, remote'[i].op = "put", remote'[i].until > now'
             PROVE  Standing(b, i)'
  BY DEF PromiseInv
<1>4. /\ i \in 1..Len(remote') /\ remote'[i].author = b
      /\ \A j \in 1..Len(remote') : j > i => remote'[j].author # b
  BY <1>2 DEF IsLast
<1>5. Touching(remote, Lock)' = Touching(remote', Lock)  BY DEF Touching
<1>6. Touching(remote', Lock) \subseteq 1..Len(remote')  BY <1>2 DEF Touching
<1>7. CASE b = a
  <2>1. Len(local[a]) # 0  BY <1>1, EmptySeq
  <2>2. Len(remote') \in 1..Len(remote') /\ ~(Len(remote') <= Len(remote))  BY <1>1, <2>1
  <2>3. remote'[Len(remote')].author = a  BY <1>3, <2>2
  <2>4. ~(Len(remote') > i)  BY <1>4, <1>7, <2>2, <2>3
  <2>5. \A j \in 1..Len(remote') : j <= i  BY <1>1, <1>4, <2>4
  <2> QED  BY <1>4, <1>5, <1>6, <2>5 DEF Standing
<1>8. CASE b # a
  <2>1. i \in 1..Len(remote) /\ remote'[i] = remote[i]
    <3>1. i <= Len(remote)  BY <1>3, <1>4, <1>8
    <3> QED  BY <1>1, <1>4, <3>1
  <2>2. IsLast(b, i)
    <3>1. \A j \in 1..Len(remote) : j \in 1..Len(remote') /\ remote'[j] = remote[j]  BY <1>1
    <3> QED  BY <1>2, <1>4, <2>1, <3>1 DEF IsLast
  <2>3. phase[b] = "settle" /\ remote[i].until > now  BY <1>1, <1>2, <1>8, <2>1
  <2>4. Standing(b, i)  BY <2>1, <2>2, <2>3 DEF PromiseInv
  <2>5. \A e \in Elements(Outbox(b)) : e.path # Lock
    <3>1. local[b] = <<>> /\ todo[b] = <<>>  BY <2>3 DEF OrgInv, PhaseInv
    <3>2. Elements(Outbox(b)) = {}  BY <3>1, Facts, ElementsEmpty
    <3> QED  BY <3>2
  <2>6. \A e \in Elements(local[a]) : e.path # Lock
    BY <1>1, <2>3, <2>4, <2>5, NobodyIntrudes
  <2>7. ASSUME NEW j \in Touching(remote', Lock) PROVE j <= i
    <3>1. j \in 1..Len(remote') /\ remote'[j].path = Lock  BY <1>2 DEF Touching
    <3>2. j <= Len(remote)  BY <1>3, <2>6, <3>1
    <3>3. j \in 1..Len(remote) /\ remote'[j] = remote[j]  BY <1>1, <3>1, <3>2
    <3>4. j \in Touching(remote, Lock)  BY <1>2, <3>1, <3>3 DEF Touching
    <3> QED  BY <2>4, <3>4 DEF Standing
  <2> QED  BY <1>4, <1>5, <2>1, <2>4, <2>7 DEF Standing
<1> QED  BY <1>7, <1>8

LEMMA PromiseNext ==
  ASSUME OrgInv, TimelyInv, PromiseInv, [Next]_vars
  PROVE  PromiseInv'
<1>1. now \in Nat /\ phase \in [Agents -> Phases]  BY KnownFacts DEF OrgInv, TypeOK
<1>2. CASE UNCHANGED <<remote, phase>> /\ now' \in {now, now + 1}  BY <1>1, <1>2, PromiseStill
<1>3. ASSUME NEW a \in Agents, NEW p, NEW n, Goto(a, p, n), UNCHANGED <<remote, now>>,
             p # "settle" \/ phase[a] = "settle"
      PROVE  PromiseInv'
  <2>1. phase' = [phase EXCEPT ![a] = p]  BY <1>3 DEF Goto
  <2>2. \A b \in Agents : phase'[b] = "settle" => phase[b] = "settle"  BY <1>1, <1>3, <2>1
  <2> QED  BY <1>1, <1>3, <2>2, PromiseStill
<1>4. CASE Tick \/ UNCHANGED vars  BY <1>2, <1>4 DEF Tick, vars
<1>5. ASSUME NEW a \in Agents, AppendLog(a) \/ WriteArtifact(a, Shared) \/ AcquireLock(a)
      PROVE  PromiseInv'
  BY <1>3, <1>5 DEF AppendLog, WriteArtifact, AcquireLock, Commit
<1>6. ASSUME NEW a \in Agents, ReleaseLock(a) PROVE PromiseInv'
  BY <1>1, <1>2, <1>3, <1>6 DEF ReleaseLock, Commit
<1>7. ASSUME NEW a \in Agents, Pull(a) PROVE PromiseInv'  BY <1>2, <1>7 DEF Pull
<1>8. ASSUME NEW a \in Agents, Crash(a) PROVE PromiseInv'  BY <1>3, <1>8 DEF Crash, Idle
<1>9. ASSUME NEW a \in Agents, PushRaises(a) \/ PullRaises(a) \/ PushIgnored(a)
      PROVE  PromiseInv'
  BY <1>3, <1>9 DEF PushRaises, PullRaises, PushIgnored, Returns, Idle
<1>10. ASSUME NEW a \in Agents, NEW c, TryAgain(a, c), UNCHANGED <<remote, now>> PROVE PromiseInv'
  <2>1. CASE attempt[a] < 3 /\ Goto(a, "push", attempt[a] + 1)  BY <1>3, <1>10, <2>1
  <2>2. CASE Goto(a, "idle", 0)  BY <1>3, <1>10, <2>2
  <2> QED  BY <1>10, <2>1, <2>2 DEF TryAgain, Returns, Idle
<1>11. ASSUME NEW a \in Agents, Rebase(a) PROVE PromiseInv'
  <2>1. UNCHANGED <<remote, now>>  BY <1>11 DEF Rebase
  <2>2. CASE UpToDate(a)  BY <1>10, <1>11, <2>1, <2>2 DEF Rebase
  <2>3. CASE ~UpToDate(a)
    <3>1. Goto(a, "replay", attempt[a])  BY <1>11, <2>3 DEF Rebase
    <3> QED  BY <1>3, <2>1, <3>1
  <2> QED  BY <2>2, <2>3
<1>12. ASSUME NEW a \in Agents, Replay(a) PROVE PromiseInv'
  <2>1. UNCHANGED <<remote, now>>  BY <1>12 DEF Replay
  <2>2. CASE \E c : TryAgain(a, c)  BY <1>10, <2>1, <2>2
  <2>3. CASE UNCHANGED phase  BY <1>2, <2>1, <2>3
  <2>4. CASE Goto(a, "conflict", attempt[a])  BY <1>3, <2>1, <2>4
  <2> QED  BY <1>12, <2>2, <2>3, <2>4 DEF Replay
<1>13. ASSUME NEW a \in Agents, Settle(a) PROVE PromiseInv'
  <2>1. phase[a] = "settle" /\ UNCHANGED <<remote, now>>  BY <1>13, SettleCases
  <2>2. CASE Goto(a, "settle", attempt[a] + 1)  BY <1>3, <2>1, <2>2
  <2>3. CASE Goto(a, "idle", 0)  BY <1>3, <2>1, <2>3
  <2> QED  BY <1>13, <2>2, <2>3, SettleCases DEF Returns, Idle
<1>14. ASSUME NEW a \in Agents, Push(a) \/ PushLost(a) PROVE PromiseInv'  BY <1>14, PromisePush
<1> QED
  BY <1>4, <1>5, <1>6, <1>7, <1>8, <1>9, <1>11, <1>12, <1>13, <1>14 DEF Next, Call, GitStep

LEMMA BeliefNext ==
  ASSUME OrgInv, TimelyInv, BeliefInv, PromiseInv, [Next]_vars, [NoLockGivenUp]_vars
  PROVE  BeliefInv'
<1>1. held \in [Agents -> Nat]  BY DEF OrgInv, TypeOK
<1>2. CASE \/ Tick \/ UNCHANGED vars
           \/ \E a \in Agents :
                \/ Crash(a) \/ PushRaises(a) \/ PullRaises(a) \/ PushIgnored(a) \/ Pull(a)
                \/ Rebase(a) \/ Replay(a)
                \/ ReleaseLock(a) /\ ~Exists(Clone(a), Lock)
  <2>1. UNCHANGED held \/ \E a \in Agents : held' = [held EXCEPT ![a] = 0]
    <3>1. CASE \/ Tick \/ UNCHANGED vars
               \/ \E a \in Agents :
                    \/ Crash(a) \/ PushRaises(a) \/ PullRaises(a) \/ Pull(a)
                    \/ ReleaseLock(a)
      BY <3>1 DEF Tick, vars, Crash, PushRaises, PullRaises, Pull, ReleaseLock
    <3>2. CASE \E a \in Agents : PushIgnored(a) \/ Rebase(a) \/ Replay(a)
      <4>1. CASE UNCHANGED vars  BY <4>1 DEF vars
      <4>2. CASE NoLockGivenUp  BY <3>2, <4>2 DEF NoLockGivenUp
      <4> QED  BY <4>1, <4>2
    <3> QED  BY <1>2, <3>1, <3>2
  <2>2. \A b \in Agents : held'[b] \in {held[b], 0}  BY <1>1, <2>1
  <2>3. Still  BY <1>2, StillSteps
  <2> QED  BY <2>2, <2>3, BeliefStill
<1>3. ASSUME NEW a \in Agents,
             \/ AppendLog(a) \/ WriteArtifact(a, Shared) \/ AcquireLock(a)
             \/ ReleaseLock(a) /\ Exists(Clone(a), Lock)
      PROVE  BeliefInv'
  <2>1. PICK c, next :
          /\ CommitEffect(a, c, next)
          /\ \/ c.op = "put" /\ UNCHANGED held /\ (c.path = Lock => LockExpired(Clone(a)))
             \/ held' = [held EXCEPT ![a] = 0]
    BY <1>3, OperationCommits
  <2> QED  BY <2>1, BeliefCommit
<1>4. ASSUME NEW a \in Agents, Push(a) \/ PushLost(a) PROVE BeliefInv'  BY <1>4, BeliefPush
<1>5. ASSUME NEW a \in Agents, Settle(a) PROVE BeliefInv'  BY <1>5, BeliefSettle
<1> QED  BY <1>2, <1>3, <1>4, <1>5, StepCases

LEMMA BeliefInit == Init => BeliefInv /\ PromiseInv
<1> SUFFICES ASSUME Init PROVE BeliefInv /\ PromiseInv
  OBVIOUS
<1>1. now = 0 /\ \A a \in Agents : held[a] = 0 /\ phase[a] = "idle"  BY DEF Init
<1> QED  BY <1>1 DEF BeliefInv, PromiseInv

(* Two agents never believe at once that they hold the lock.               *)
LockExclusive == \A a, b \in Agents : held[a] > now /\ held[b] > now => a = b

(* If every agent releases only a lock still in force, and none is told    *)
(* that it has a lock whose commit was given up or silently rejected, then *)
(* acquire_lock is a lock, although it reads a clone that may be behind.   *)
THEOREM OneHolder ==
  Spec /\ [][NoLateRelease]_vars /\ [][NoLockGivenUp]_vars => []LockExclusive
<1>1. OrgInv /\ BeliefInv => LockExclusive
  <2> SUFFICES ASSUME OrgInv, BeliefInv, NEW a \in Agents, NEW b \in Agents,
                      held[a] > now, held[b] > now
               PROVE  a = b
    BY DEF LockExclusive
  <2>1. DOMAIN remote = 1..Len(remote) /\ Len(remote) \in Nat
    BY LenProperties DEF OrgInv, TypeOK
  <2>2. PICK i : Stands(a, i)  BY DEF BeliefInv
  <2>3. PICK j : Stands(b, j)  BY DEF BeliefInv
  <2>4. i \in Touching(remote, Lock) /\ j \in Touching(remote, Lock) /\ i \in Nat /\ j \in Nat
    BY <2>1, <2>2, <2>3 DEF Stands, Touching
  <2>5. i <= j /\ j <= i  BY <2>2, <2>3, <2>4 DEF Stands
  <2>6. i = j  BY <2>4, <2>5
  <2> QED  BY <2>2, <2>3, <2>6 DEF Stands
<1>2. OrgInv /\ TimelyInv /\ [Next]_vars /\ [NoLateRelease]_vars => TimelyInv'  BY TimelyNext
<1>3. /\ OrgInv /\ TimelyInv /\ BeliefInv /\ PromiseInv
      /\ [Next]_vars /\ [NoLockGivenUp]_vars
      => BeliefInv' /\ PromiseInv'
  BY BeliefNext, PromiseNext
<1> QED  BY <1>1, <1>2, <1>3, TimelyInit, BeliefInit, OrgInvariant, PTL DEF Spec
-----------------------------------------------------------------------------
(* What SharedLog sees of a sequence of commits.                           *)
AbstractEntries == [id : 1..MaxCommits, op : {"put", "remove"}]

LEMMA EntriesAre ==
  ASSUME NEW s \in Seq(Commits)
  PROVE  /\ EntriesOf(s) \in Seq(AbstractEntries) /\ Len(EntriesOf(s)) = Len(s)
         /\ \A i \in 1..Len(s) : EntriesOf(s)[i] = Entry(s[i])
<1>1. Len(s) \in Nat /\ DOMAIN s = 1..Len(s)  BY LenProperties
<1>2. EntriesOf(s) = [i \in 1..Len(s) |-> Entry(s[i])]  BY <1>1 DEF EntriesOf
<1>3. \A i \in 1..Len(s) : Entry(s[i]) \in AbstractEntries
  <2> SUFFICES ASSUME NEW i \in 1..Len(s) PROVE Entry(s[i]) \in AbstractEntries
    OBVIOUS
  <2>1. s[i] \in Commits  BY ElementOfSeq
  <2> QED  BY <2>1 DEF Entry, AbstractEntries, Commits
<1>4. EntriesOf(s) \in [1..Len(s) -> AbstractEntries]  BY <1>2, <1>3
<1>5. EntriesOf(s) \in Seq(AbstractEntries)  BY <1>1, <1>4, SeqDef
<1>6. Len(EntriesOf(s)) = Len(s)  BY <1>1, <1>4, <1>5, LenProperties
<1> QED  BY <1>2, <1>5, <1>6

LEMMA EntriesConcat ==
  ASSUME NEW s \in Seq(Commits), NEW t \in Seq(Commits)
  PROVE  EntriesOf(s \o t) = EntriesOf(s) \o EntriesOf(t)
<1>1. Len(s) \in Nat /\ Len(t) \in Nat  BY LenProperties
<1>2. /\ s \o t \in Seq(Commits) /\ Len(s \o t) = Len(s) + Len(t)
      /\ \A i \in 1..(Len(s) + Len(t)) :
           (s \o t)[i] = IF i <= Len(s) THEN s[i] ELSE t[i - Len(s)]
  BY ConcatProperties
<1>3. /\ EntriesOf(s) \in Seq(AbstractEntries) /\ Len(EntriesOf(s)) = Len(s)
      /\ \A i \in 1..Len(s) : EntriesOf(s)[i] = Entry(s[i])
      /\ EntriesOf(t) \in Seq(AbstractEntries) /\ Len(EntriesOf(t)) = Len(t)
      /\ \A i \in 1..Len(t) : EntriesOf(t)[i] = Entry(t[i])
  BY EntriesAre
<1>4. /\ EntriesOf(s \o t) \in Seq(AbstractEntries) /\ Len(EntriesOf(s \o t)) = Len(s) + Len(t)
      /\ \A i \in 1..(Len(s) + Len(t)) : EntriesOf(s \o t)[i] = Entry((s \o t)[i])
  BY <1>2, EntriesAre
<1> DEFINE e == EntriesOf(s)
           f == EntriesOf(t)
           g == EntriesOf(s \o t)
<1>5. /\ e \in Seq(AbstractEntries) /\ Len(e) = Len(s)
      /\ f \in Seq(AbstractEntries) /\ Len(f) = Len(t)
      /\ g \in Seq(AbstractEntries) /\ Len(g) = Len(s) + Len(t)
  BY <1>3, <1>4
<1>6. \A i \in 1..(Len(s) + Len(t)) : g[i] = IF i <= Len(s) THEN e[i] ELSE f[i - Len(s)]
  <2> SUFFICES ASSUME NEW i \in 1..(Len(s) + Len(t))
               PROVE  g[i] = IF i <= Len(s) THEN e[i] ELSE f[i - Len(s)]
    OBVIOUS
  <2>1. CASE i <= Len(s)
    <3>1. i \in 1..Len(s)  BY <1>1, <2>1
    <3> QED  BY <1>2, <1>3, <1>4, <2>1, <3>1
  <2>2. CASE ~(i <= Len(s))
    <3>1. i - Len(s) \in 1..Len(t)  BY <1>1, <2>2
    <3> QED  BY <1>2, <1>3, <1>4, <2>2, <3>1
  <2> QED  BY <2>1, <2>2
<1> HIDE DEF e, f, g
<1>7. /\ e \o f \in Seq(AbstractEntries) /\ Len(e \o f) = Len(s) + Len(t)
      /\ \A i \in 1..(Len(s) + Len(t)) : (e \o f)[i] = IF i <= Len(s) THEN e[i] ELSE f[i - Len(s)]
  <2>1. /\ e \o f \in Seq(AbstractEntries) /\ Len(e \o f) = Len(e) + Len(f)
        /\ \A i \in 1..(Len(e) + Len(f)) : (e \o f)[i] = IF i <= Len(e) THEN e[i] ELSE f[i - Len(e)]
    <3>1. e \in Seq(AbstractEntries) /\ f \in Seq(AbstractEntries)  BY <1>5
    <3> QED  BY <3>1, ConcatProperties
  <2>2. Len(e) = Len(s) /\ Len(f) = Len(t)  BY <1>5
  <2> QED  BY <2>1, <2>2
<1>8. g = e \o f  BY <1>5, <1>6, <1>7, SeqEqual
<1> QED  BY <1>8 DEF e, f, g

LEMMA EntriesSingle ==
  ASSUME NEW c \in Commits
  PROVE  <<c>> \in Seq(Commits) /\ EntriesOf(<<c>>) = <<Entry(c)>>
BY DEF EntriesOf

LEMMA EntriesEmpty == EntriesOf(<<>>) = <<>>
<1>1. EntriesOf(<<>>) \in Seq(AbstractEntries) /\ Len(EntriesOf(<<>>)) = 0
  BY EmptyFacts, EntriesAre
<1> QED  BY <1>1, EmptySeq

(* A sequence without the element between two parts of it.                 *)
LEMMA WithoutMiddle ==
  ASSUME NEW S, NEW s \in Seq(S), NEW e \in S, NEW t \in Seq(S)
  PROVE  AbstractLog!Without(s \o (<<e>> \o t), Len(s) + 1) = s \o t
<1>1. Len(s) \in Nat /\ Len(t) \in Nat  BY LenProperties
<1>2. PICK r : r = <<e>> \o t  OBVIOUS
<1>3. /\ r \in Seq(S) /\ Len(r) = Len(t) + 1 /\ r[1] = e
      /\ \A i \in 1..Len(t) : r[i + 1] = t[i]
  <2>1. <<e>> \in Seq(S) /\ Len(<<e>>) = 1 /\ <<e>>[1] = e  OBVIOUS
  <2>2. /\ <<e>> \o t \in Seq(S) /\ Len(<<e>> \o t) = 1 + Len(t)
        /\ \A i \in 1..(1 + Len(t)) :
             (<<e>> \o t)[i] = IF i <= 1 THEN <<e>>[i] ELSE t[i - 1]
    BY <2>1, ConcatProperties
  <2>3. ASSUME NEW i \in 1..Len(t) PROVE r[i + 1] = t[i]
    <3>1. i + 1 \in 1..(1 + Len(t)) /\ ~(i + 1 <= 1) /\ (i + 1) - 1 = i  BY <1>1
    <3> QED  BY <1>2, <2>2, <3>1
  <2>4. 1 \in 1..(1 + Len(t))  BY <1>1
  <2> QED  BY <1>1, <1>2, <2>1, <2>2, <2>3, <2>4
<1>4. PICK q : q = s \o r  OBVIOUS
<1>5. /\ q \in Seq(S) /\ Len(q) = Len(s) + Len(t) + 1
      /\ \A i \in 1..Len(t) : q[Len(s) + 1 + i] = t[i]
  <2>1. /\ s \o r \in Seq(S) /\ Len(s \o r) = Len(s) + Len(r)
        /\ \A i \in 1..(Len(s) + Len(r)) :
             (s \o r)[i] = IF i <= Len(s) THEN s[i] ELSE r[i - Len(s)]
    BY <1>3, ConcatProperties
  <2>2. ASSUME NEW i \in 1..Len(t) PROVE q[Len(s) + 1 + i] = t[i]
    <3>1. /\ Len(s) + 1 + i \in 1..(Len(s) + Len(r)) /\ ~(Len(s) + 1 + i <= Len(s))
          /\ (Len(s) + 1 + i) - Len(s) = i + 1
      BY <1>1, <1>3
    <3> QED  BY <1>3, <1>4, <2>1, <3>1
  <2> QED  BY <1>1, <1>3, <1>4, <2>1, <2>2
<1>6. SubSeq(q, 1, Len(s)) = s
  <2>1. SubSeq(s \o r, 1, Len(s)) = SubSeq(s, 1, Len(s))
    <3>1. Len(s) \in 0..Len(s)  BY <1>1
    <3> QED  BY <1>3, <3>1, PrefixOfConcat
  <2> QED  BY <1>4, <2>1, SubSeqFull
<1>7. SubSeq(q, Len(s) + 2, Len(q)) = t
  <2>1. /\ Len(s) + 2 \in Int /\ Len(q) \in Int /\ Len(s) + 2 <= Len(q) + 1
    BY <1>1, <1>5
  <2>2. \A i \in (Len(s) + 2)..Len(q) : q[i] \in S
    <3>1. \A i \in (Len(s) + 2)..Len(q) : i \in 1..Len(q)  BY <1>1, <1>5
    <3> QED  BY <1>5, <3>1, ElementOfSeq
  <2>3. /\ SubSeq(q, Len(s) + 2, Len(q)) \in Seq(S)
        /\ Len(SubSeq(q, Len(s) + 2, Len(q)))
           = IF Len(s) + 2 <= Len(q) THEN Len(q) - (Len(s) + 2) + 1 ELSE 0
        /\ \A i \in 1..(Len(q) - (Len(s) + 2) + 1) :
             SubSeq(q, Len(s) + 2, Len(q))[i] = q[Len(s) + 2 + i - 1]
    BY <2>1, <2>2, SubSeqProperties
  <2>4. Len(SubSeq(q, Len(s) + 2, Len(q))) = Len(t) /\ Len(q) - (Len(s) + 2) + 1 = Len(t)
    BY <1>1, <1>5, <2>3
  <2>5. \A i \in 1..Len(t) : SubSeq(q, Len(s) + 2, Len(q))[i] = t[i]
    <3>1. TAKE i \in 1..Len(t)
    <3>2. Len(s) + 2 + i - 1 = Len(s) + 1 + i  BY <1>1
    <3> QED  BY <1>5, <2>3, <2>4, <3>2
  <2> QED  BY <2>3, <2>4, <2>5, SeqEqual
<1>8. AbstractLog!Without(q, Len(s) + 1) = s \o t
  <2>1. (Len(s) + 1) - 1 = Len(s) /\ (Len(s) + 1) + 1 = Len(s) + 2  BY <1>1
  <2> QED  BY <1>6, <1>7, <2>1 DEF AbstractLog!Without
<1> QED  BY <1>2, <1>4, <1>8
-----------------------------------------------------------------------------
(* The state of SharedLog: what is published, and what waits.              *)
Published == EntriesOf(remote)
Waiting == [a \in Agents |-> EntriesOf(local[a] \o todo[a])]

LEMMA WaitingOf ==
  /\ \A a \in Agents : Waiting[a] = EntriesOf(Outbox(a))
  /\ \A a \in Agents : Waiting'[a] = EntriesOf(Outbox(a)')
BY DEF Waiting, Outbox, EntriesOf, Entry

LEMMA SameLog ==
  ASSUME UNCHANGED remote, \A a \in Agents : Outbox(a)' = Outbox(a)
  PROVE  UNCHANGED AbstractLog!vars
<1>1. Published' = Published  BY DEF Published, EntriesOf, Entry
<1>2. Waiting' = Waiting
  <2>1. \A a \in Agents : local'[a] \o todo'[a] = local[a] \o todo[a]  BY DEF Outbox
  <2> QED  BY <2>1 DEF Waiting, EntriesOf, Entry
<1> QED  BY <1>1, <1>2 DEF AbstractLog!vars, Published, Waiting

LEMMA OneOutbox ==
  ASSUME NEW a \in Agents, \A b \in Agents : b # a => Outbox(b)' = Outbox(b),
         NEW w, EntriesOf(Outbox(a)') = w
  PROVE  Waiting' = [Waiting EXCEPT ![a] = w]
<1>1. /\ Waiting = [b \in Agents |-> EntriesOf(Outbox(b))]
      /\ Waiting' = [b \in Agents |-> EntriesOf(Outbox(b)')]
  BY DEF Waiting, Outbox, EntriesOf, Entry
<1> QED  BY <1>1

(* A commit is an entry that was not there before: its id is new.          *)
LEMMA CommitWrites ==
  ASSUME OrgInv, NEW a \in Agents, NEW path \in {a, Lock, Shared},
         NEW op \in {"put", "remove"}, NEW at \in Nat, NEW until \in Nat, NEW next,
         Commit(a, path, op, at, until, next)
  PROVE  AbstractLog!Next
<1>0. PICK c : CommitEffect(a, c, next)  BY CommitFacts
<1>1. /\ c \in Commits /\ c.id = made + 1 /\ UNCHANGED remote
      /\ \A b \in Agents : b # a => Outbox(b)' = Outbox(b)
      /\ Outbox(a)' = Append(local[a], c) /\ Outbox(a) = local[a]
  BY <1>0 DEF CommitEffect
<1>2. PICK e : e = Entry(c)  OBVIOUS
<1>3. e \in AbstractEntries /\ e.id = made + 1
  BY <1>1, <1>2 DEF Entry, AbstractEntries, Commits
<1>4. local[a] \in Seq(Commits) /\ EntriesOf(local[a]) \in Seq(AbstractEntries)
  BY Facts, EntriesAre
<1>5. EntriesOf(Outbox(a)') = Append(Waiting[a], e)
  <2>1. <<c>> \in Seq(Commits) /\ EntriesOf(<<c>>) = <<e>> /\ Append(local[a], c) = local[a] \o <<c>>
    BY <1>1, <1>2, <1>4, EntriesSingle, AppendIsConcat
  <2>2. EntriesOf(local[a] \o <<c>>) = EntriesOf(local[a]) \o EntriesOf(<<c>>)
    BY <1>4, <2>1, EntriesConcat
  <2>3. EntriesOf(local[a]) \o <<e>> = Append(EntriesOf(local[a]), e)
    BY <1>3, <1>4, AppendIsConcat
  <2>4. Waiting[a] = EntriesOf(local[a])  BY <1>1, WaitingOf
  <2> QED  BY <1>1, <2>1, <2>2, <2>3, <2>4
<1>6. Waiting' = [Waiting EXCEPT ![a] = Append(Waiting[a], e)]  BY <1>1, <1>5, OneOutbox
<1>7. \A d \in Known : d.id # made + 1
  <2>1. \A d \in Known : d.id <= made /\ d.id \in Nat
    BY KnownFacts, CommitFields DEF OrgInv, CommitsInv
  <2> QED  BY <2>1, KnownFacts
<1>8. \A s \in Seq(Commits) : Elements(s) \subseteq Known => e \notin Elements(EntriesOf(s))
  <2> SUFFICES ASSUME NEW s \in Seq(Commits), Elements(s) \subseteq Known, e \in Elements(EntriesOf(s))
               PROVE  FALSE
    OBVIOUS
  <2>1. PICK i \in 1..Len(s) : e = Entry(s[i])
    <3>1. /\ EntriesOf(s) \in Seq(AbstractEntries) /\ Len(EntriesOf(s)) = Len(s)
          /\ \A i \in 1..Len(s) : EntriesOf(s)[i] = Entry(s[i])
      BY EntriesAre
    <3>2. PICK i \in 1..Len(EntriesOf(s)) : e = EntriesOf(s)[i]  BY <3>1, ElementsOf
    <3> QED  BY <3>1, <3>2
  <2>2. s[i] \in Known  BY ElementsOf
  <2>3. e.id = s[i].id  BY <2>1 DEF Entry
  <2> QED  BY <1>3, <1>7, <2>2, <2>3
<1>9. e \notin AbstractLog!Known
  <2>1. remote \in Seq(Commits) /\ Elements(remote) \subseteq Known
    BY KnownFacts DEF OrgInv, TypeOK
  <2>2. e \notin Elements(Published)  BY <1>8, <2>1 DEF Published
  <2>3. \A b \in Agents : e \notin Elements(Waiting[b])
    BY <1>8, Facts, KnownFacts, WaitingOf
  <2>4. AbstractLog!Known = Elements(Published) \cup UNION {Elements(Waiting[b]) : b \in Agents}
    BY DEF AbstractLog!Known, AbstractLog!Elements, Elements, Published, Waiting
  <2> QED  BY <2>2, <2>3, <2>4
<1>10. Published' = Published  BY <1>1 DEF Published, EntriesOf, Entry
<1>11. AbstractLog!Write(a, e)
  BY <1>6, <1>9, <1>10 DEF AbstractLog!Write, Published, Waiting
<1> QED  BY <1>3, <1>11 DEF AbstractLog!Next, AbstractEntries

LEMMA PushPublishes == ASSUME OrgInv, NEW a \in Agents, Publish(a) PROVE AbstractLog!Next
<1>1. /\ todo[a] = <<>> /\ local[a] \in Seq(Commits) /\ remote' = remote \o local[a]
      /\ Outbox(a)' = <<>> /\ \A b \in Agents : b # a => Outbox(b)' = Outbox(b)
  BY PushFacts
<1>2. remote \in Seq(Commits)  BY Facts
<1>3. Waiting[a] = EntriesOf(local[a])
  <2>1. local[a] \o <<>> = local[a]  BY <1>1, ConcatEmptySeq
  <2> QED  BY <1>1, <2>1 DEF Waiting
<1>4. Published' = Published \o Waiting[a]
  <2>1. EntriesOf(remote \o local[a]) = EntriesOf(remote) \o EntriesOf(local[a])
    BY <1>1, <1>2, EntriesConcat
  <2>2. Published' = EntriesOf(remote')  BY DEF Published, EntriesOf, Entry
  <2> QED  BY <1>1, <1>3, <2>1, <2>2 DEF Published
<1>5. Waiting' = [Waiting EXCEPT ![a] = <<>>]
  <2>1. EntriesOf(Outbox(a)') = <<>>  BY <1>1, EntriesEmpty
  <2> QED  BY <1>1, <2>1, OneOutbox
<1>6. AbstractLog!Publish(a)  BY <1>4, <1>5 DEF AbstractLog!Publish, Published, Waiting
<1> QED  BY <1>6 DEF AbstractLog!Next

LEMMA ReplayMoves ==
  ASSUME OrgInv, NEW a \in Agents, Replay(a)
  PROVE  AbstractLog!Next \/ UNCHANGED AbstractLog!vars
<1>1. PICK c, t : Replaying(a, c, t) /\ (Applies(a, c, t) \/ Drops(a, c, t) \/ Conflicts(a, c))
  BY ReplayCases
<1>2. /\ c \in Commits /\ t \in Seq(Commits) /\ Outbox(a) = local[a] \o (<<c>> \o t)
      /\ UNCHANGED remote
  BY <1>1 DEF Replaying
<1>3. /\ local \in [Agents -> Seq(Commits)] /\ todo \in [Agents -> Seq(Commits)]
      /\ local[a] \in Seq(Commits)
  BY DEF OrgInv, TypeOK
<1>4. PICK e : e = Entry(c)  OBVIOUS
<1>5. e \in AbstractEntries  BY <1>2, <1>4 DEF Entry, AbstractEntries, Commits
<1>6. PICK u, w : u = EntriesOf(local[a]) /\ w = EntriesOf(t)  OBVIOUS
<1>7. u \in Seq(AbstractEntries) /\ w \in Seq(AbstractEntries) /\ Len(u) \in Nat
  BY <1>2, <1>3, <1>6, EntriesAre, LenProperties
<1>8. <<e>> \in Seq(AbstractEntries) /\ <<e>> \o w \in Seq(AbstractEntries)
  <2>1. <<e>> \in Seq(AbstractEntries)  BY <1>5
  <2> QED  BY <1>7, <2>1, ConcatProperties
<1>9. Waiting[a] = u \o (<<e>> \o w)
  <2>1. <<c>> \in Seq(Commits) /\ EntriesOf(<<c>>) = <<e>>  BY <1>2, <1>4, EntriesSingle
  <2>2. /\ <<c>> \o t \in Seq(Commits)
        /\ EntriesOf(<<c>> \o t) = EntriesOf(<<c>>) \o EntriesOf(t)
    BY <1>2, <2>1, ConcatProperties, EntriesConcat
  <2>3. EntriesOf(local[a] \o (<<c>> \o t)) = EntriesOf(local[a]) \o EntriesOf(<<c>> \o t)
    BY <1>3, <2>2, EntriesConcat
  <2> QED  BY <1>2, <1>6, <2>1, <2>2, <2>3, WaitingOf
<1>10. CASE Conflicts(a, c)
  <2>1. UNCHANGED <<local, todo>>  BY <1>10 DEF Conflicts
  <2>2. \A b \in Agents : Outbox(b)' = Outbox(b)  BY <2>1 DEF Outbox
  <2> QED  BY <1>2, <2>2, SameLog
<1>11. CASE Drops(a, c, t)
  <2>1. /\ UNCHANGED local /\ todo' = [todo EXCEPT ![a] = t] /\ Written(c) # c.over
        /\ Content(Clone(a), c.path) = Written(c)
    BY <1>11 DEF Drops
  <2>2. /\ Outbox(a)' = local[a] \o t /\ \A b \in Agents : b # a => Outbox(b)' = Outbox(b)
    BY <1>3, <2>1 DEF Outbox
  <2>3. c.op = "remove"  BY <1>1, <1>11, OnlyRemovalsDropped
  <2>4. EntriesOf(Outbox(a)') = u \o w  BY <1>2, <1>3, <1>6, <2>2, EntriesConcat
  <2>5. AbstractLog!Without(u \o (<<e>> \o w), Len(u) + 1) = u \o w
    BY <1>5, <1>7, WithoutMiddle
  <2>6. Waiting' = [Waiting EXCEPT ![a] = AbstractLog!Without(Waiting[a], Len(u) + 1)]
    BY <1>9, <2>2, <2>4, <2>5, OneOutbox
  <2>7. Len(u) + 1 \in DOMAIN Waiting[a] /\ Waiting[a][Len(u) + 1] = e
    <3> PICK r : r = <<e>> \o w  OBVIOUS
    <3>1. r \in Seq(AbstractEntries) /\ Len(r) = 1 + Len(w) /\ r[1] = e
      <4>1. <<e>> \in Seq(AbstractEntries) /\ Len(<<e>>) = 1 /\ <<e>>[1] = e  BY <1>8
      <4>2. Len(w) \in Nat  BY <1>7, LenProperties
      <4>3. /\ <<e>> \o w \in Seq(AbstractEntries) /\ Len(<<e>> \o w) = 1 + Len(w)
            /\ \A i \in 1..(1 + Len(w)) :
                 (<<e>> \o w)[i] = IF i <= 1 THEN <<e>>[i] ELSE w[i - 1]
        BY <1>7, <4>1, ConcatProperties
      <4>4. 1 \in 1..(1 + Len(w))  BY <4>2
      <4> QED  BY <4>1, <4>3, <4>4
    <3>2. /\ u \o r \in Seq(AbstractEntries) /\ Len(u \o r) = Len(u) + Len(r)
          /\ \A i \in 1..(Len(u) + Len(r)) :
               (u \o r)[i] = IF i <= Len(u) THEN u[i] ELSE r[i - Len(u)]
      BY <1>7, <3>1, ConcatProperties
    <3>3. /\ Len(u) + 1 \in 1..(Len(u) + Len(r)) /\ ~(Len(u) + 1 <= Len(u))
          /\ (Len(u) + 1) - Len(u) = 1
      <4>1. Len(w) \in Nat  BY <1>7, LenProperties
      <4> QED  BY <1>7, <3>1, <4>1
    <3>4. (u \o r)[Len(u) + 1] = e  BY <3>1, <3>2, <3>3
    <3>5. Len(u) + 1 \in DOMAIN (u \o r)  BY <3>2, <3>3, LenProperties
    <3> QED  BY <1>9, <3>4, <3>5
  <2>8. e \in [id : 1..MaxCommits, op : {"remove"}]
    BY <1>2, <1>4, <2>3 DEF Entry, Commits
  <2>9. Published' = Published  BY <1>2 DEF Published, EntriesOf, Entry
  <2>10. AbstractLog!Drop(a, Len(u) + 1)
    BY <2>6, <2>7, <2>8, <2>9 DEF AbstractLog!Drop, Published, Waiting
  <2> QED  BY <2>7, <2>10 DEF AbstractLog!Next, Waiting
<1>12. CASE Applies(a, c, t)
  <2> PICK d : d = [c EXCEPT !.replayed = TRUE]  OBVIOUS
  <2>1. d \in Commits /\ Entry(d) = e  BY <1>2, <1>4 DEF Commits, Entry
  <2>2. local' = [local EXCEPT ![a] = Append(local[a], d)] /\ todo' = [todo EXCEPT ![a] = t]
    BY <1>12 DEF Applies
  <2>3. /\ Outbox(a)' = Append(local[a], d) \o t
        /\ \A b \in Agents : b # a => Outbox(b)' = Outbox(b)
    BY <1>3, <2>2 DEF Outbox
  <2>4. EntriesOf(Append(local[a], d)) = u \o <<e>> /\ Append(local[a], d) \in Seq(Commits)
    <3>1. /\ <<d>> \in Seq(Commits) /\ EntriesOf(<<d>>) = <<e>>
          /\ Append(local[a], d) = local[a] \o <<d>>
      BY <1>3, <2>1, EntriesSingle, AppendIsConcat
    <3>2. EntriesOf(local[a] \o <<d>>) = EntriesOf(local[a]) \o EntriesOf(<<d>>)
      BY <1>3, <3>1, EntriesConcat
    <3>3. Append(local[a], d) \in Seq(Commits)  BY <1>3, <2>1, AppendProperties
    <3> QED  BY <1>6, <3>1, <3>2, <3>3
  <2>5. EntriesOf(Outbox(a)') = (u \o <<e>>) \o w
    BY <1>2, <1>6, <2>3, <2>4, EntriesConcat
  <2>6. (u \o <<e>>) \o w = u \o (<<e>> \o w)  BY <1>7, <1>8, ConcatAssociative
  <2>7. Waiting' = [Waiting EXCEPT ![a] = Waiting[a]]  BY <1>9, <2>3, <2>5, <2>6, OneOutbox
  <2>8. Waiting' = Waiting  BY <2>7 DEF Waiting
  <2>9. Published' = Published  BY <1>2 DEF Published, EntriesOf, Entry
  <2> QED  BY <2>8, <2>9 DEF AbstractLog!vars, Published, Waiting
<1> QED  BY <1>1, <1>10, <1>11, <1>12

LEMMA AbstractStep ==
  OrgInv /\ [Next]_vars => AbstractLog!Next \/ UNCHANGED AbstractLog!vars
<1> SUFFICES ASSUME OrgInv, [Next]_vars PROVE AbstractLog!Next \/ UNCHANGED AbstractLog!vars
  OBVIOUS
<1>1. ASSUME UNCHANGED <<remote, local, todo>> PROVE UNCHANGED AbstractLog!vars
  <2>1. \A a \in Agents : Outbox(a)' = Outbox(a)  BY <1>1 DEF Outbox
  <2> QED  BY <1>1, <2>1, SameLog
<1>2. CASE Tick  BY <1>1, <1>2 DEF Tick
<1>3. CASE \E a \in Agents : Call(a) \/ GitStep(a) \/ Crash(a)
  <2>1. PICK a \in Agents : Call(a) \/ GitStep(a) \/ Crash(a)  BY <1>3
  <2>2. now \in Nat /\ 0 \in Nat /\ now + LockTime \in Nat /\ held[a] \in Nat
    BY KnownFacts, OrgMemoryAssumption DEF OrgInv, TypeOK
  <2>3. CASE AppendLog(a)
    <3>1. Commit(a, a, "put", 0, 0, "push")  BY <2>3 DEF AppendLog, OwnPath
    <3> QED  BY <2>2, <3>1, CommitWrites
  <2>4. CASE WriteArtifact(a, Shared)
    <3>1. Commit(a, Shared, "put", 0, 0, "push")  BY <2>4 DEF WriteArtifact
    <3> QED  BY <2>2, <3>1, CommitWrites
  <2>5. CASE AcquireLock(a)
    <3>1. Commit(a, Lock, "put", now, now + LockTime, "push")  BY <2>5 DEF AcquireLock
    <3> QED  BY <2>2, <3>1, CommitWrites
  <2>6. CASE ReleaseLock(a) /\ Exists(Clone(a), Lock)
    <3>1. Commit(a, Lock, "remove", now, held[a], "unlock")  BY <2>6 DEF ReleaseLock
    <3> QED  BY <2>2, <3>1, CommitWrites
  <2>7. CASE ReleaseLock(a) /\ ~Exists(Clone(a), Lock)  BY <1>1, <2>7 DEF ReleaseLock
  <2>8. CASE Pull(a)  BY <1>1, <2>8 DEF Pull
  <2>9. CASE Push(a) \/ PushLost(a)  BY <2>9, PushPublishes DEF Push, PushLost
  <2>10. CASE Crash(a)  BY <1>1, <2>10 DEF Crash
  <2>11. CASE PushRaises(a)  BY <1>1, <2>11 DEF PushRaises
  <2>12. CASE PullRaises(a)  BY <1>1, <2>12 DEF PullRaises
  <2>13. CASE PushIgnored(a)  BY <1>1, <2>13 DEF PushIgnored
  <2>14. CASE Rebase(a) /\ UpToDate(a)  BY <1>1, <2>14 DEF Rebase
  <2>15. CASE Rebase(a) /\ ~UpToDate(a)
    <3>1. UNCHANGED remote /\ \A b \in Agents : Outbox(b)' = Outbox(b)  BY <2>15, RebaseMoves
    <3> QED  BY <3>1, SameLog
  <2>16. CASE Replay(a)  BY <2>16, ReplayMoves
  <2>17. CASE Settle(a)  BY <1>1, <2>17 DEF Settle
  <2> QED
    BY <2>1, <2>3, <2>4, <2>5, <2>6, <2>7, <2>8, <2>9, <2>10, <2>11, <2>12, <2>13, <2>14,
       <2>15, <2>16, <2>17 DEF Call, GitStep
<1>4. CASE UNCHANGED vars  BY <1>1, <1>4 DEF vars
<1> QED  BY <1>2, <1>3, <1>4 DEF Next

LEMMA AbstractInit == Init => AbstractLog!Init
<1> SUFFICES ASSUME Init PROVE AbstractLog!Init
  OBVIOUS
<1>1. remote = <<>> /\ \A a \in Agents : local[a] = <<>> /\ todo[a] = <<>>  BY DEF Init
<1>2. EntriesOf(remote) = <<>>  BY <1>1, EntriesEmpty
<1>3. \A a \in Agents : EntriesOf(local[a] \o todo[a]) = <<>>
  BY <1>1, EmptyFacts, EntriesEmpty
<1> QED  BY <1>2, <1>3 DEF AbstractLog!Init

(* However often a commit is rejected, rebased, left behind by a crash and *)
(* published by a later call: what is published stays, and what an agent   *)
(* has written is published once and in the order it was written.          *)
THEOREM PublishedOnce == Spec => ImplementsSharedLog
<1>1. OrgInv /\ [Next]_vars => [AbstractLog!Next]_(AbstractLog!vars)  BY AbstractStep
<1> QED  BY <1>1, AbstractInit, OrgInvariant, PTL DEF Spec, ImplementsSharedLog, AbstractLog!Spec
=============================================================================
