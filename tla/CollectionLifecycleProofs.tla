--------------------- MODULE CollectionLifecycleProofs ---------------------
(***************************************************************************)
(* Proofs about CollectionLifecycle, for any names, partitions, indexes,   *)
(* number of requests and faults.                                          *)
(***************************************************************************)
EXTENDS CollectionLifecycle, SequenceTheorems, TLAPS

Add(d, n, S) == [do |-> "add", doc |-> d, name |-> n, val |-> S]
Del(d, n, S) == [do |-> "del", doc |-> d, name |-> n, val |-> S]
Unalias(S)   == [do |-> "unalias", val |-> S]
Remove(D)    == [do |-> "rmdir", val |-> D]

\* The steps handlers consist of.
Docs(d)   == IF d = "part" THEN Parts ELSE Indexes
Documents ==
    {PutDb(v) : v \in BOOLEAN}
    \cup {PutColl(n, v)  : n \in Names, v \in Ids \cup {None}}
    \cup {PutLoad(n, v)  : n \in Names, v \in BOOLEAN \cup {None}}
    \cup {PutAlias(n, v) : n \in Names, v \in Names}
    \cup {Add("part", n, S)  : n \in Names, S \in SUBSET Parts}
    \cup {Add("index", n, S) : n \in Names, S \in SUBSET Indexes}
    \cup {Del("part", n, S)  : n \in Names, S \in SUBSET Parts}
    \cup {Del("index", n, S) : n \in Names, S \in SUBSET Indexes}
    \cup {Unalias(S) : S \in SUBSET Names}
Directories ==
    {MakeDir(n, p, c) : n \in Names, p \in Parts, c \in Ids}
    \cup {Remove(D) : D \in SUBSET (Names \X Parts)}
    \cup {MoveDir(o, n) : o \in Names, n \in Names}
Messages == {Tell(k, n, S) : k \in {"open", "close"}, n \in Names, S \in SUBSET Parts}
AStep == Documents \cup Directories \cup Messages

TypeOK ==
    /\ cat \in [db : BOOLEAN, coll : [Names -> Ids \cup {None}],
                part : [Names -> SUBSET Parts], alias : [Names -> Names \cup {None}],
                index : [Names -> SUBSET Indexes],
                load : [Names -> BOOLEAN \cup {None}]]
    /\ dir \in [Names -> [Parts -> Ids \cup {None}]]
    /\ home \in [Ids -> Ids \cup {None}]
    /\ todo \in Seq(AStep)
    /\ clock \in 0 .. MaxRequests /\ (todo # <<>> => clock # 0)
    /\ torn \in BOOLEAN
    /\ defined \in SUBSET (Ids \X Indexes)
    /\ faults \in Nat

\* Step s may stand before step r in a handler.
Before(s, r) ==
    /\ r.do \in {"move", "rmdir"} => s.do = "db"
    /\ s.do = "mkdir" => r.do = "put" /\ r.doc = "load"
    /\ s.do \in {"move", "rmdir"} => r.do # "mkdir"
    /\ s.do = "put" /\ s.doc = "coll" /\ r.do = "put" /\ r.doc = "coll" => s.name # r.name

Ordered(t) == \A i, j \in DOMAIN t : i < j => Before(t[i], t[j])

Puts(s, d, n)     == s.do = "put" /\ s.doc = d /\ s.name = n
Removing(P, n, p) == \E s \in P : s.do = "rmdir" /\ <<n, p>> \in s.val
Moving(P, n)      == \E s \in P : s.do = "move" /\ s.name = n
Putting(P, n, c)  == \E s \in P : Puts(s, "coll", n) /\ s.val = c
Deleting(P, d, n, x) ==
    \E s \in P : s.do = "del" /\ s.doc = d /\ s.name = n /\ x \in s.val
Adding(P, d, n, x) ==
    \E s \in P : s.do = "add" /\ s.doc = d /\ s.name = n /\ x \in s.val
Unaliasing(P, a)  == \E s \in P : s.do = "unalias" /\ a \in s.val

\* What the steps that are left assume of one another and of what is stored.
Coherent(P) ==
    /\ \A s, r \in P : \A d \in {"coll", "load", "alias"}, n \in Names :
          Puts(s, d, n) /\ Puts(r, d, n) => s.val = r.val
    /\ \A s, r \in P : s.do = "add" /\ r.do = "del" => s.doc # r.doc \/ s.name # r.name
    /\ \A s, r \in P : s.do = "unalias" => ~ (r.do = "put" /\ r.doc = "alias")

\* A collection's document goes after its directories, which the steps that are
\* left remove or rename, and comes where there is none.
CollPuts(P) ==
    \A n \in Names : \A s \in P : Puts(s, "coll", n) =>
        IF s.val = None
        THEN \A p \in Parts : dir[n][p] # None => Moving(P, n) \/ Removing(P, n, p)
        ELSE cat.coll[n] = None /\ s.val <= clock

\* The directory to be made belongs to the collection that has, or gets, its name.
Making(P) ==
    \A s \in P : s.do = "mkdir" =>
        /\ cat.coll[s.name] = s.for \/ Putting(P, s.name, s.for)
        /\ \A r \in P : \A n \in Names :
              Puts(r, "coll", n) => n = s.name /\ r.val = s.for /\ r.val = clock
        /\ \A n \in Names, p \in Parts : dir[n][p] # clock

\* What renames the directory of a collection also gives the collection its name.
Renaming(P) ==
    \A s \in P : s.do = "move" =>
        /\ s.name # s.val /\ cat.coll[s.name] \notin {None, clock}
        /\ Putting(P, s.val, cat.coll[s.name])

\* Numbers of requests that have not come yet are in use nowhere.
Dated ==
    /\ \A n \in Names : cat.coll[n] # None => cat.coll[n] <= clock
    /\ \A n \in Names, p \in Parts : dir[n][p] # None => dir[n][p] <= clock
    /\ \A d \in defined : d[1] <= clock

\* But for a rename that was stopped halfway, a directory belongs to the
\* collection of its name, or to the one the handler is about to give that name.
Owned(P) ==
    ~torn => \A n \in Names, p \in Parts : dir[n][p] # None =>
        LET h == home[dir[n][p]]
        IN  /\ h # None
            /\ \/ cat.coll[n] = h
               \/ /\ cat.coll[n] = None /\ Putting(P, n, h) /\ h # clock
                  /\ \A s \in P : s.do # "move"

\* The steps of P leave nothing of collection n, and make nothing.
Empties(P, n) ==
    /\ \A p \in Parts : dir[n][p] # None => Removing(P, n, p)
    /\ \A s \in P : s.do \notin {"mkdir", "move", "add"}
    /\ \A s \in P : s.do = "put" => s.doc \in {"coll", "load"} /\ s.name = n /\ s.val = None
    /\ \A p \in cat.part[n] : Deleting(P, "part", n, p)
    /\ \A i \in cat.index[n] : Deleting(P, "index", n, i)
    /\ \A a \in Names : cat.alias[a] = n => Unaliasing(P, a)
    /\ cat.load[n] # None => \E s \in P : Puts(s, "load", n)

\* The reader is told to close a collection that stays, or that goes entirely.
Dropping(P) ==
    \A n \in Names : \A r \in P :
        (r.do = "tell" /\ r.kind = "close" /\ r.name = n /\ r.val = {}) =>
        \/ cat.coll[n] # None /\ \A s \in P : ~ (s.do = "put" /\ s.doc = "coll")
        \/ Empties(P, n)

\* What will be stored when the steps of P have been taken.
Will(c, P, d, n) ==
    IF \E s \in P : Puts(s, d, n) THEN (CHOOSE s \in P : Puts(s, d, n)).val
    ELSE c[d][n]
WillAll(c, P, d, n) ==
    {x \in Docs(d) : Adding(P, d, n, x) \/ (x \in c[d][n] /\ ~Deleting(P, d, n, x))}
WillAlias(c, P, a) ==
    IF Unaliasing(P, a) THEN None ELSE Will(c, P, "alias", a)
WillHave(f, P, n, p) ==
    \/ \E s \in P : s.do = "mkdir" /\ s.name = n /\ s.val = p
    \/ \E s \in P : s.do = "move" /\ s.val = n /\ f[s.name][p] # None
    \/ f[n][p] # None /\ ~Removing(P, n, p) /\ ~Moving(P, n)

\* No step of P will raise.
Possible(P) ==
    /\ \A s \in P : s.do = "mkdir" => dir[s.name][s.val] = None
    /\ \A s \in P : s.do = "move" => dir[s.val] = NoDirs /\ dir[s.name] # NoDirs

\* With the steps of P taken, the documents and directories of n will agree, and
\* its indexes be those of D.
Sound(D, P, n) ==
    LET c == Will(cat, P, "coll", n)
    IN  /\ \A p \in Parts : WillHave(dir, P, n, p) <=> c # None /\ p \in WillAll(cat, P, "part", n)
        /\ c # None <=> Will(cat, P, "load", n) # None
        /\ c = None => /\ WillAll(cat, P, "part", n) = {} /\ WillAll(cat, P, "index", n) = {}
                       /\ \A a \in Names : WillAlias(cat, P, a) # n
        /\ c # None =>
              /\ Default \in WillAll(cat, P, "part", n)
              /\ WillAll(cat, P, "index", n) = {i \in Indexes : <<c, i>> \in D}
              /\ \A m \in Names : Will(cat, P, "coll", m) = c => m = n

\* As long as nothing was interrupted, handlers run through and end well.
Outlook(P) == faults = 0 => Possible(P) /\ (~torn /\ \A n \in Names : Sound(defined, P, n))

\* The inductive invariant.  What holds between requests fails within them, so
\* it is stated of what the steps that are left will make of what is stored.
IInv ==
    /\ Ordered(todo)
    /\ LET P == Range(todo)
       IN  /\ Coherent(P) /\ CollPuts(P) /\ Making(P) /\ Renaming(P)
           /\ Owned(P) /\ Dropping(P) /\ Outlook(P)
    /\ Dated

-----------------------------------------------------------------------------
(* Sequences of steps                                                      *)

LEMMA Empty == <<>> \in Seq(AStep) /\ Range(<<>>) = {} /\ Ordered(<<>>)
BY DEF Range, Ordered

LEMMA Single ==
    ASSUME NEW s \in AStep
    PROVE  <<s>> \in Seq(AStep) /\ Range(<<s>>) = {s} /\ Ordered(<<s>>)
<1>1. <<s>> \in Seq(AStep) /\ DOMAIN <<s>> = 1 .. 1 /\ <<s>>[1] = s
  OBVIOUS
<1>2. \A i, j \in 1 .. 1 : ~(i < j)
  OBVIOUS
<1>3. Range(<<s>>) = {s}
  BY <1>1 DEF Range
<1> QED
  BY <1>1, <1>2, <1>3 DEF Ordered

LEMMA Joined ==
    ASSUME NEW s \in Seq(AStep), NEW t \in Seq(AStep), Ordered(s), Ordered(t),
           \A x \in Range(s), y \in Range(t) : Before(x, y)
    PROVE  s \o t \in Seq(AStep) /\ Range(s \o t) = Range(s) \cup Range(t) /\ Ordered(s \o t)
<1> DEFINE u == s \o t
<1>1. u \in Seq(AStep) /\ Range(u) = Range(s) \cup Range(t)
  BY RangeConcatenation, ConcatProperties
<1>2. /\ Len(s) \in Nat /\ Len(t) \in Nat /\ DOMAIN s = 1 .. Len(s) /\ DOMAIN t = 1 .. Len(t)
      /\ DOMAIN u = 1 .. Len(s) + Len(t)
      /\ \A i \in 1 .. Len(s) + Len(t) : u[i] = IF i <= Len(s) THEN s[i] ELSE t[i - Len(s)]
  BY <1>1, ConcatProperties, LenProperties
<1> HIDE DEF u
<1>3. ASSUME NEW i \in DOMAIN u, NEW j \in DOMAIN u, i < j
      PROVE  Before(u[i], u[j])
  <2>1. CASE j <= Len(s)
    <3>1. i \in DOMAIN s /\ j \in DOMAIN s /\ u[i] = s[i] /\ u[j] = s[j]
      BY <1>2, <1>3, <2>1
    <3> QED
      BY <3>1, <1>3 DEF Ordered
  <2>2. CASE Len(s) < i
    <3>1. /\ i - Len(s) \in DOMAIN t /\ j - Len(s) \in DOMAIN t /\ i - Len(s) < j - Len(s)
          /\ u[i] = t[i - Len(s)] /\ u[j] = t[j - Len(s)]
      BY <1>2, <1>3, <2>2
    <3> QED
      BY <3>1 DEF Ordered
  <2>3. CASE i <= Len(s) /\ Len(s) < j
    <3>1. i \in DOMAIN s /\ j - Len(s) \in DOMAIN t /\ u[i] = s[i] /\ u[j] = t[j - Len(s)]
      BY <1>2, <1>3, <2>3
    <3> QED
      BY <3>1 DEF Range
  <2> QED
    BY <2>1, <2>2, <2>3, <1>2
<1> QED
  BY <1>1, <1>3 DEF Ordered, u

LEMMA Loop ==
    ASSUME NEW s \in AStep
    PROVE  /\ ForEach(s) \in Seq(AStep) /\ Ordered(ForEach(s))
           /\ Range(ForEach(s)) = IF s.val = {} THEN {} ELSE {s}
BY Empty, Single DEF ForEach

LEMMA Taken ==
    ASSUME NEW t \in Seq(AStep), t # <<>>, Ordered(t)
    PROVE  /\ Head(t) \in AStep /\ Tail(t) \in Seq(AStep)
           /\ Range(t) = {Head(t)} \cup Range(Tail(t))
           /\ Range(Tail(t)) \subseteq AStep
           /\ Ordered(Tail(t)) /\ \A r \in Range(Tail(t)) : Before(Head(t), r)
<1>1. /\ Head(t) \in AStep /\ Tail(t) \in Seq(AStep) /\ Len(Tail(t)) = Len(t) - 1
      /\ \A i \in 1 .. Len(Tail(t)) : Tail(t)[i] = t[i + 1]
      /\ Len(t) \in Nat \ {0} /\ Head(t) = t[1]
      /\ DOMAIN t = 1 .. Len(t) /\ DOMAIN Tail(t) = 1 .. Len(Tail(t))
  BY HeadTailProperties, LenProperties, EmptySeq
<1>2. \A i \in DOMAIN Tail(t) : i + 1 \in DOMAIN t /\ 1 < i + 1 /\ Tail(t)[i] = t[i + 1]
  BY <1>1
<1>3. \A i \in DOMAIN t : i = 1 \/ (i - 1 \in DOMAIN Tail(t) /\ t[i] = Tail(t)[i - 1])
  BY <1>1
<1>4. 1 \in DOMAIN t
  BY <1>1
<1>5. Range(t) = {Head(t)} \cup Range(Tail(t))
  <2>1. \A x : x \in Range(t) <=> \E i \in DOMAIN t : x = t[i]
    BY DEF Range
  <2>2. \A x : x \in Range(Tail(t)) <=> \E i \in DOMAIN Tail(t) : x = Tail(t)[i]
    BY DEF Range
  <2>3. \A x \in Range(t) : x = Head(t) \/ x \in Range(Tail(t))
    <3> TAKE x \in Range(t)
    <3>1. PICK i \in DOMAIN t : x = t[i]
      BY <2>1
    <3>2. CASE i = 1
      BY <3>1, <3>2, <1>1
    <3>3. CASE i # 1
      <4>1. i - 1 \in DOMAIN Tail(t) /\ x = Tail(t)[i - 1]
        BY <3>1, <3>3, <1>3
      <4> QED
        BY <4>1, <2>2
    <3> QED
      BY <3>2, <3>3
  <2>4. Head(t) \in Range(t) /\ \A x \in Range(Tail(t)) : x \in Range(t)
    BY <1>1, <1>2, <1>4, <2>1, <2>2
  <2>5. \A x : x \in Range(t) <=> x \in {Head(t)} \cup Range(Tail(t))
    BY <2>3, <2>4, Zenon
  <2> QED
    BY <2>5, Zenon
<1>6. Range(Tail(t)) \subseteq AStep
  BY <1>1, RangeOfSeq
<1>7. Ordered(Tail(t))
  <2> SUFFICES ASSUME NEW i \in DOMAIN Tail(t), NEW j \in DOMAIN Tail(t), i < j
               PROVE  Before(Tail(t)[i], Tail(t)[j])
    BY DEF Ordered
  <2>1. i + 1 < j + 1
    BY <1>1
  <2> QED
    BY <2>1, <1>2 DEF Ordered
<1>8. \A r \in Range(Tail(t)) : Before(Head(t), r)
  BY <1>1, <1>2, <1>4 DEF Range, Ordered
<1> QED
  BY <1>1, <1>5, <1>6, <1>7, <1>8

-----------------------------------------------------------------------------
(* Steps                                                                   *)

\* What is left of step s when its set has shrunk to S.
Shrunk(s, S) == [s EXCEPT !.val = S]

\* The fields of a step have the values its kind calls for.
LEMMA Fields ==
    ASSUME NEW s \in AStep
    PROVE  /\ s.do \in {"db", "put", "add", "del", "unalias", "mkdir", "rmdir", "move", "tell"}
           /\ s.do = "db" => s.val \in BOOLEAN
           /\ s.do = "put" => s.doc \in {"coll", "load", "alias"} /\ s.name \in Names
           /\ s.do = "put" /\ s.doc = "coll" => s.val \in Ids \cup {None}
           /\ s.do = "put" /\ s.doc = "load" => s.val \in BOOLEAN \cup {None}
           /\ s.do = "put" /\ s.doc = "alias" => s.val \in Names
           /\ s.do \in {"add", "del"} =>
                 s.doc \in {"part", "index"} /\ s.name \in Names /\ s.val \subseteq Docs(s.doc)
           /\ s.do = "unalias" => s.val \subseteq Names
           /\ s.do = "mkdir" => s.name \in Names /\ s.val \in Parts /\ s.for \in Ids
           /\ s.do = "rmdir" => s.val \subseteq Names \X Parts
           /\ s.do = "move" => s.name \in Names /\ s.val \in Names
           /\ s.do = "tell" => s.name \in Names /\ s.val \subseteq Parts
<1>1. CASE s \in Documents
  BY <1>1 DEF Documents, Docs, PutDb, PutColl, PutLoad, PutAlias, Add, Del, Unalias
<1>2. CASE s \in Directories
  BY <1>2 DEF Directories, MakeDir, Remove, MoveDir
<1>3. CASE s \in Messages
  BY <1>3 DEF Messages, Tell
<1> QED
  BY <1>1, <1>2, <1>3 DEF AStep

\* A loop that has done a part of its set is a loop over the rest.
LEMMA Shrinks ==
    ASSUME NEW s \in AStep, s.do \in {"add", "del", "unalias", "rmdir"},
           NEW S \in SUBSET s.val
    PROVE  /\ Shrunk(s, S) \in AStep
           /\ Shrunk(s, S).do = s.do /\ Shrunk(s, S).val = S
           /\ s.do \in {"add", "del"} =>
                 Shrunk(s, S).doc = s.doc /\ Shrunk(s, S).name = s.name
<1>1. CASE \E d \in {"part", "index"}, n \in Names, T \in SUBSET (Parts \cup Indexes) :
              T \in SUBSET Docs(d) /\ (s = Add(d, n, T) \/ s = Del(d, n, T))
  <2> PICK d \in {"part", "index"}, n \in Names, T \in SUBSET (Parts \cup Indexes) :
              T \in SUBSET Docs(d) /\ (s = Add(d, n, T) \/ s = Del(d, n, T))
    BY <1>1
  <2>1. s.val = T
    BY DEF Add, Del
  <2>2. S \in SUBSET Docs(d)
    BY <2>1
  <2>3. CASE s = Add(d, n, T)
    <3>1. Shrunk(s, S) = Add(d, n, S) /\ Add(d, n, S).do = "add" /\ Add(d, n, S).val = S
          /\ Add(d, n, S).doc = d /\ Add(d, n, S).name = n /\ s.do = "add"
          /\ s.doc = d /\ s.name = n
      BY <2>3 DEF Add, Shrunk
    <3> QED
      BY <3>1, <2>2 DEF AStep, Documents, Docs
  <2>4. CASE s = Del(d, n, T)
    <3>1. Shrunk(s, S) = Del(d, n, S) /\ Del(d, n, S).do = "del" /\ Del(d, n, S).val = S
          /\ Del(d, n, S).doc = d /\ Del(d, n, S).name = n /\ s.do = "del"
          /\ s.doc = d /\ s.name = n
      BY <2>4 DEF Del, Shrunk
    <3> QED
      BY <3>1, <2>2 DEF AStep, Documents, Docs
  <2> QED
    BY <2>3, <2>4
<1>2. CASE \E T \in SUBSET Names : s = Unalias(T)
  <2>1. s.do = "unalias" /\ S \in SUBSET Names /\ Shrunk(s, S) = Unalias(S)
        /\ Unalias(S).do = "unalias" /\ Unalias(S).val = S
    BY <1>2 DEF Unalias, Shrunk
  <2> QED
    BY <2>1 DEF AStep, Documents
<1>3. CASE \E D \in SUBSET (Names \X Parts) : s = Remove(D)
  <2>1. s.do = "rmdir" /\ S \in SUBSET (Names \X Parts) /\ Shrunk(s, S) = Remove(S)
        /\ Remove(S).do = "rmdir" /\ Remove(S).val = S
    BY <1>3 DEF Remove, Shrunk
  <2> QED
    BY <2>1 DEF AStep, Directories
<1>4. s \notin Messages
  BY DEF Messages, Tell
<1>5. CASE s \in Documents
  <2>1. \A v, n : s # PutDb(v) /\ s # PutColl(n, v) /\ s # PutLoad(n, v) /\ s # PutAlias(n, v)
    BY DEF PutDb, PutColl, PutLoad, PutAlias
  <2>2. Docs("part") = Parts /\ Docs("index") = Indexes
    BY DEF Docs
  <2> QED
    BY <1>5, <2>1, <2>2, <1>1, <1>2 DEF Documents
<1>6. CASE s \in Directories
  <2>1. \A n, p, c : s # MakeDir(n, p, c) /\ s # MoveDir(n, p)
    BY DEF MakeDir, MoveDir
  <2> QED
    BY <1>6, <2>1, <1>3 DEF Directories
<1> QED
  BY <1>4, <1>5, <1>6 DEF AStep

-----------------------------------------------------------------------------
(* What a step of a handler does: h is the step and R the ones after it    *)

Kept == UNCHANGED <<clock, torn, defined, faults>>

Quiet == /\ cat'.coll = cat.coll /\ cat'.part = cat.part /\ cat'.alias = cat.alias
         /\ cat'.index = cat.index /\ cat'.load = cat.load
         /\ dir' = dir /\ home' = home

\* A loop has done x.
Looped(h, R, x) ==
    /\ x \in h.val
    /\ \E G : /\ Range(todo') = R \cup G
              /\ \A g \in G : /\ g.do = h.do /\ g.val = h.val \ {x}
                              /\ h.do \in {"add", "del"} => g.doc = h.doc /\ g.name = h.name
              /\ \A y \in h.val : y = x \/ \E g \in G : TRUE

TookColl(h, R) ==
    /\ h.do = "put" /\ h.doc = "coll" /\ Range(todo') = R
    /\ \A n \in Names : cat'.coll[n] = IF n = h.name THEN h.val ELSE cat.coll[n]
    /\ cat'.part = cat.part /\ cat'.alias = cat.alias /\ cat'.index = cat.index
    /\ cat'.load = cat.load /\ dir' = dir /\ home' = home

TookLoad(h, R) ==
    /\ h.do = "put" /\ h.doc = "load" /\ Range(todo') = R
    /\ \A n \in Names : cat'.load[n] = IF n = h.name THEN h.val ELSE cat.load[n]
    /\ cat'.part = cat.part /\ cat'.alias = cat.alias /\ cat'.index = cat.index
    /\ cat'.coll = cat.coll /\ dir' = dir /\ home' = home

TookAlias(h, R) ==
    /\ h.do = "put" /\ h.doc = "alias" /\ Range(todo') = R
    /\ \A n \in Names : cat'.alias[n] = IF n = h.name THEN h.val ELSE cat.alias[n]
    /\ cat'.part = cat.part /\ cat'.coll = cat.coll /\ cat'.index = cat.index
    /\ cat'.load = cat.load /\ dir' = dir /\ home' = home

TookSet(h, R, x) ==
    /\ h.do \in {"add", "del"} /\ Looped(h, R, x)
    /\ \A n \in Names : cat'.part[n] =
          IF h.doc # "part" \/ n # h.name THEN cat.part[n]
          ELSE IF h.do = "add" THEN cat.part[n] \cup {x} ELSE cat.part[n] \ {x}
    /\ \A n \in Names : cat'.index[n] =
          IF h.doc # "index" \/ n # h.name THEN cat.index[n]
          ELSE IF h.do = "add" THEN cat.index[n] \cup {x} ELSE cat.index[n] \ {x}
    /\ cat'.coll = cat.coll /\ cat'.alias = cat.alias
    /\ cat'.load = cat.load /\ dir' = dir /\ home' = home

TookUnalias(h, R, x) ==
    /\ h.do = "unalias" /\ Looped(h, R, x)
    /\ \A a \in Names : cat'.alias[a] = IF a = x THEN None ELSE cat.alias[a]
    /\ cat'.part = cat.part /\ cat'.coll = cat.coll /\ cat'.index = cat.index
    /\ cat'.load = cat.load /\ dir' = dir /\ home' = home

TookQuiet(h, R) ==
    /\ Range(todo') = R /\ Quiet
    /\ \/ h.do \in {"db", "tell"}
       \/ h.do = "rmdir" /\ \A n \in Names, p \in Parts : <<n, p>> \in h.val => dir[n][p] = None

Raised(h) ==
    /\ Range(todo') = {} /\ Quiet
    /\ \/ h.do = "mkdir" /\ dir[h.name][h.val] # None
       \/ h.do = "move" /\ (dir[h.val] # NoDirs \/ dir[h.name] = NoDirs)

TookMake(h, R) ==
    /\ h.do = "mkdir" /\ Range(todo') = R /\ cat' = cat /\ clock \in Ids
    /\ dir[h.name][h.val] = None
    /\ \A n \in Names, p \in Parts :
          dir'[n][p] = IF n = h.name /\ p = h.val THEN clock ELSE dir[n][p]
    /\ \A i \in Ids : home'[i] = IF i = clock THEN h.for ELSE home[i]

TookRemove(h, R, m, q) ==
    /\ h.do = "rmdir" /\ Looped(h, R, <<m, q>>) /\ cat' = cat /\ home' = home
    /\ \A n \in Names, p \in Parts :
          dir'[n][p] = IF n = m /\ p = q THEN None ELSE dir[n][p]

TookMove(h, R) ==
    /\ h.do = "move" /\ Range(todo') = R /\ cat' = cat /\ home' = home
    /\ dir[h.val] = NoDirs
    /\ \A n \in Names, p \in Parts :
          dir'[n][p] = IF n = h.name THEN None
                       ELSE IF n = h.val THEN dir[h.name][p] ELSE dir[n][p]

Took(h, R) ==
    \/ TookColl(h, R) \/ TookLoad(h, R) \/ TookAlias(h, R) \/ TookQuiet(h, R)
    \/ Raised(h) \/ TookMake(h, R) \/ TookMove(h, R)
    \/ \E x : TookSet(h, R, x) \/ TookUnalias(h, R, x)
    \/ \E m \in Names, q \in Parts : TookRemove(h, R, m, q)

\* What is left of a handler when a loop has done x.
LEMMA LeftIs ==
    ASSUME TypeOK, Ordered(todo), todo # <<>>,
           Head(todo).do \in {"add", "del", "unalias", "rmdir"},
           NEW x \in Head(todo).val, todo' = Left(Head(todo).val \ {x})
    PROVE  /\ todo' \in Seq(AStep) /\ Ordered(todo')
           /\ Looped(Head(todo), Range(Tail(todo)), x)
<1> DEFINE h == Head(todo)  S == h.val \ {x}
<1>1. /\ h \in AStep /\ Tail(todo) \in Seq(AStep) /\ Ordered(Tail(todo))
      /\ \A r \in Range(Tail(todo)) : Before(h, r)
  BY Taken DEF TypeOK
<1>2. CASE S = {}
  <2>1. todo' = Tail(todo) /\ \A y \in h.val : y = x
    BY <1>2 DEF Left
  <2>2. /\ Range(todo') = Range(Tail(todo)) \cup {}
        /\ \A y \in h.val : y = x \/ \E g \in {} : TRUE
    BY <2>1
  <2>3. Looped(h, Range(Tail(todo)), x)
    <3>1. x \in h.val
      OBVIOUS
    <3>2. \A g \in {} : /\ g.do = h.do /\ g.val = S
                       /\ h.do \in {"add", "del"} => g.doc = h.doc /\ g.name = h.name
      OBVIOUS
    <3> HIDE DEF h
    <3> QED
      BY <2>2, <3>1, <3>2 DEF Looped
  <2> QED
    BY <2>1, <2>3, <1>1 DEF h
<1>3. CASE S # {}
  <2> DEFINE g == Shrunk(h, S)
  <2>1. todo' = <<g>> \o Tail(todo)
    BY <1>3 DEF Left, Shrunk
  <2>2. /\ g \in AStep /\ g.do = h.do /\ g.val = S
        /\ h.do \in {"add", "del"} => g.doc = h.doc /\ g.name = h.name
    BY <1>1, Shrinks
  <2>3. \A r \in Range(Tail(todo)) : Before(g, r)
    BY <1>1, <2>2 DEF Before
  <2>4. <<g>> \in Seq(AStep) /\ Range(<<g>>) = {g} /\ Ordered(<<g>>)
    BY <2>2, Single
  <2> HIDE DEF g
  <2>5. /\ todo' \in Seq(AStep) /\ Ordered(todo')
        /\ Range(todo') = {g} \cup Range(Tail(todo))
    BY <1>1, <2>1, <2>3, <2>4, Joined
  <2>6. Range(todo') = Range(Tail(todo)) \cup {g}
    BY <2>5
  <2> HIDE DEF h
  <2>7. Looped(h, Range(Tail(todo)), x)
    BY <2>2, <2>6 DEF Looped, h
  <2> QED
    BY <2>5, <2>7 DEF h
<1> QED
  BY <1>2, <1>3

LEMMA Effects ==
    ASSUME TypeOK, Ordered(todo), Step
    PROVE  /\ TypeOK' /\ Ordered(todo') /\ Kept
           /\ \E h \in AStep, R \in SUBSET AStep :
                 /\ Range(todo) = {h} \cup R /\ \A r \in R : Before(h, r)
                 /\ Took(h, R)
<1> DEFINE h == Head(todo)  T == Tail(todo)  R == Range(T)
<1>1. todo # <<>> /\ Kept /\ (StepDocument(h) \/ StepDirectory(h) \/ StepTell(h))
  BY DEF Step, Kept
<1>2. /\ h \in AStep /\ T \in Seq(AStep) /\ Range(todo) = {h} \cup R /\ R \in SUBSET AStep
      /\ Ordered(T) /\ \A r \in R : Before(h, r)
  BY <1>1, Taken DEF TypeOK
<1>3. clock \in Ids
  BY <1>1, LifecycleAssumption DEF TypeOK, Ids
<1>4. \A S : /\ todo' = Left(S) <=> todo' = IF S = {} THEN T ELSE <<[h EXCEPT !.val = S]>> \o T
  BY DEF Left
<1>5. \A x \in h.val : (h.do \in {"add", "del", "unalias", "rmdir"} /\ todo' = Left(h.val \ {x})) =>
          todo' \in Seq(AStep) /\ Ordered(todo') /\ Looped(h, R, x)
  BY <1>1, LeftIs
<1>6. <<>> \in Seq(AStep) /\ Range(<<>>) = {} /\ Ordered(<<>>)
  BY Empty
<1> HIDE DEF T, R, h
<1> USE DEF TypeOK
<1>7. SUFFICES /\ cat' \in [db : BOOLEAN, coll : [Names -> Ids \cup {None}],
                            part : [Names -> SUBSET Parts],
                            alias : [Names -> Names \cup {None}],
                            index : [Names -> SUBSET Indexes],
                            load : [Names -> BOOLEAN \cup {None}]]
               /\ dir' \in [Names -> [Parts -> Ids \cup {None}]]
               /\ home' \in [Ids -> Ids \cup {None}]
               /\ todo' \in Seq(AStep) /\ Ordered(todo') /\ Took(h, R)
  BY <1>1, <1>2, <1>3 DEF Kept, Ids
<1>8. CASE h.do = "db" /\ StepDocument(h)
  <2>1. cat' = [cat EXCEPT !.db = h.val] /\ todo' = T /\ UNCHANGED <<dir, home>>
    BY <1>8 DEF StepDocument, T
  <2>2. h.val \in BOOLEAN
    BY <1>2, <1>8, Fields
  <2>3. TookQuiet(h, R)
    BY <2>1, <1>8 DEF TookQuiet, Quiet, R
  <2> QED
    BY <1>2, <2>1, <2>2, <2>3 DEF Took
<1>9. CASE h.do = "put" /\ StepDocument(h)
  <2>1. cat' = [cat EXCEPT ![h.doc][h.name] = h.val] /\ todo' = T /\ UNCHANGED <<dir, home>>
    BY <1>9 DEF StepDocument, T
  <2>2. CASE h.doc = "coll"
    <3>1. h.val \in Ids \cup {None} /\ h.name \in Names
      BY <1>2, <1>9, <2>2, Fields
    <3>2. TookColl(h, R)
      BY <2>1, <2>2, <3>1, <1>9 DEF TookColl, R
    <3> QED
      BY <1>2, <2>1, <2>2, <3>1, <3>2 DEF Took
  <2>3. CASE h.doc = "load"
    <3>1. h.val \in BOOLEAN \cup {None} /\ h.name \in Names
      BY <1>2, <1>9, <2>3, Fields
    <3>2. TookLoad(h, R)
      BY <2>1, <2>3, <3>1, <1>9 DEF TookLoad, R
    <3> QED
      BY <1>2, <2>1, <2>3, <3>1, <3>2 DEF Took
  <2>4. CASE h.doc = "alias"
    <3>1. h.val \in Names /\ h.name \in Names
      BY <1>2, <1>9, <2>4, Fields
    <3>2. TookAlias(h, R)
      BY <2>1, <2>4, <3>1, <1>9 DEF TookAlias, R
    <3> QED
      BY <1>2, <2>1, <2>4, <3>1, <3>2 DEF Took
  <2> QED
    BY <1>2, <1>9, Fields, <2>2, <2>3, <2>4
<1>10. CASE h.do \in {"add", "del"} /\ StepDocument(h)
  <2>1. PICK x \in h.val :
          /\ cat' = IF h.do = "add" THEN [cat EXCEPT ![h.doc][h.name] = @ \cup {x}]
                                    ELSE [cat EXCEPT ![h.doc][h.name] = @ \ {x}]
          /\ todo' = Left(h.val \ {x}) /\ UNCHANGED <<dir, home>>
    BY <1>10 DEF StepDocument
  <2>2. h.doc \in {"part", "index"} /\ h.name \in Names /\ x \in Docs(h.doc)
    BY <1>2, <1>10, Fields
  <2>3. todo' \in Seq(AStep) /\ Ordered(todo') /\ Looped(h, R, x)
    BY <1>5, <1>10, <2>1
  <2>4. CASE h.doc = "part"
    <3>1. TookSet(h, R, x)
      BY <2>1, <2>2, <2>3, <2>4, <1>10 DEF TookSet
    <3>2. x \in Parts
      BY <2>2, <2>4 DEF Docs
    <3>3. cat' \in [db : BOOLEAN, coll : [Names -> Ids \cup {None}],
                    part : [Names -> SUBSET Parts], alias : [Names -> Names \cup {None}],
                    index : [Names -> SUBSET Indexes],
                    load : [Names -> BOOLEAN \cup {None}]]
      BY <2>1, <2>2, <2>4, <3>2
    <3> QED
      BY <2>1, <2>3, <3>1, <3>3 DEF Took
  <2>5. CASE h.doc = "index"
    <3>1. TookSet(h, R, x)
      BY <2>1, <2>2, <2>3, <2>5, <1>10 DEF TookSet
    <3>2. x \in Indexes
      BY <2>2, <2>5 DEF Docs
    <3>3. cat' \in [db : BOOLEAN, coll : [Names -> Ids \cup {None}],
                    part : [Names -> SUBSET Parts], alias : [Names -> Names \cup {None}],
                    index : [Names -> SUBSET Indexes],
                    load : [Names -> BOOLEAN \cup {None}]]
      BY <2>1, <2>2, <2>5, <3>2
    <3> QED
      BY <2>1, <2>3, <3>1, <3>3 DEF Took
  <2> QED
    BY <2>2, <2>4, <2>5
<1>11. CASE h.do = "unalias" /\ StepDocument(h)
  <2>1. PICK x \in h.val :
          /\ cat' = [cat EXCEPT !.alias[x] = None]
          /\ todo' = Left(h.val \ {x}) /\ UNCHANGED <<dir, home>>
    BY <1>11 DEF StepDocument
  <2>2. x \in Names
    BY <1>2, <1>11, Fields
  <2>3. todo' \in Seq(AStep) /\ Ordered(todo') /\ Looped(h, R, x)
    BY <1>5, <1>11, <2>1
  <2>4. TookUnalias(h, R, x)
    BY <2>1, <2>2, <2>3, <1>11 DEF TookUnalias
  <2> QED
    BY <2>1, <2>2, <2>3, <2>4 DEF Took
<1>12. CASE h.do = "mkdir" /\ StepDirectory(h)
  <2>1. h.name \in Names /\ h.val \in Parts /\ h.for \in Ids
    BY <1>2, <1>12, Fields
  <2>2. CASE dir[h.name][h.val] # None
    <3>1. todo' = <<>> /\ UNCHANGED <<cat, dir, home>>
      BY <1>12, <2>2 DEF StepDirectory
    <3>2. Raised(h)
      BY <3>1, <1>6, <1>12, <2>2 DEF Raised, Quiet
    <3> QED
      BY <3>1, <3>2, <1>6 DEF Took
  <2>3. CASE dir[h.name][h.val] = None
    <3>1. /\ dir' = [dir EXCEPT ![h.name][h.val] = clock]
          /\ home' = [home EXCEPT ![clock] = h.for] /\ todo' = T /\ cat' = cat
      BY <1>12, <2>3 DEF StepDirectory, T
    <3>2. TookMake(h, R)
      BY <3>1, <1>3, <1>12, <2>1, <2>3 DEF TookMake, R
    <3> QED
      BY <3>1, <3>2, <1>2, <1>3, <2>1 DEF Took
  <2> QED
    BY <2>2, <2>3
<1>13. CASE h.do = "rmdir" /\ StepDirectory(h)
  <2>1. h.val \subseteq Names \X Parts
    BY <1>2, <1>13, Fields
  <2>2. CASE Present(h.val) = {}
    <3>1. todo' = T /\ UNCHANGED <<cat, dir, home>>
      BY <1>13, <2>2 DEF StepDirectory, T
    <3>2. \A n \in Names, p \in Parts : <<n, p>> \in h.val => dir[n][p] = None
      BY <2>2 DEF Present
    <3>3. TookQuiet(h, R)
      BY <3>1, <3>2, <1>13 DEF TookQuiet, Quiet, R
    <3> QED
      BY <3>1, <3>3, <1>2 DEF Took
  <2>3. CASE Present(h.val) # {}
    <3>1. PICK d \in Present(h.val) :
            /\ dir' = [dir EXCEPT ![d[1]][d[2]] = None]
            /\ todo' = Left(h.val \ {d}) /\ UNCHANGED <<cat, home>>
      BY <1>13, <2>3 DEF StepDirectory
    <3>2. PICK m \in Names, q \in Parts : d = <<m, q>>
      BY <2>1 DEF Present
    <3>3. d \in h.val
      BY DEF Present
    <3>4. todo' \in Seq(AStep) /\ Ordered(todo') /\ Looped(h, R, <<m, q>>)
      BY <1>5, <1>13, <3>1, <3>2, <3>3
    <3>5. dir' = [dir EXCEPT ![m][q] = None]
      BY <3>1, <3>2
    <3>6. TookRemove(h, R, m, q)
      BY <3>1, <3>4, <3>5, <1>13 DEF TookRemove
    <3>7. dir' \in [Names -> [Parts -> Ids \cup {None}]]
      BY <3>5
    <3>8. Took(h, R)
      BY <3>6 DEF Took
    <3> QED
      BY <3>1, <3>4, <3>7, <3>8
  <2> QED
    BY <2>2, <2>3
<1>14. CASE h.do = "move" /\ StepDirectory(h)
  <2>1. h.name \in Names /\ h.val \in Names
    BY <1>2, <1>14, Fields
  <2>2. NoDirs \in [Parts -> Ids \cup {None}] /\ \A p \in Parts : NoDirs[p] = None
    BY DEF NoDirs
  <2>3. \/ /\ dir[h.val] = NoDirs /\ todo' = T
           /\ dir' = [dir EXCEPT ![h.val] = dir[h.name], ![h.name] = NoDirs]
        \/ /\ dir[h.val] # NoDirs \/ dir[h.name] = NoDirs
           /\ todo' = <<>> /\ dir' = dir
    BY <1>14 DEF StepDirectory, T
  <2>4. cat' = cat /\ home' = home
    BY <1>14 DEF StepDirectory
  <2>5. CASE dir[h.val] = NoDirs /\ todo' = T
                /\ dir' = [dir EXCEPT ![h.val] = dir[h.name], ![h.name] = NoDirs]
    <3>1. TookMove(h, R)
      BY <2>1, <2>2, <2>4, <2>5, <1>14 DEF TookMove, R
    <3> QED
      BY <2>1, <2>2, <2>4, <2>5, <3>1, <1>2 DEF Took
  <2>6. CASE /\ dir[h.val] # NoDirs \/ dir[h.name] = NoDirs
             /\ todo' = <<>> /\ dir' = dir
    <3>1. Raised(h)
      BY <2>4, <2>6, <1>6, <1>14 DEF Raised, Quiet
    <3> QED
      BY <2>4, <2>6, <3>1, <1>6 DEF Took
  <2> QED
    BY <2>3, <2>5, <2>6
<1>15. CASE StepTell(h)
  <2>1. h.do = "tell" /\ todo' = T /\ UNCHANGED <<cat, dir, home>>
    BY <1>15 DEF StepTell, disk, T, h
  <2>2. TookQuiet(h, R)
    BY <2>1 DEF TookQuiet, Quiet, R
  <2> QED
    BY <2>1, <2>2, <1>2 DEF Took
<1>16. StepDocument(h) => h.do \in {"db", "put", "add", "del", "unalias"}
  BY DEF StepDocument
<1>17. StepDirectory(h) => h.do \in {"mkdir", "rmdir", "move"}
  BY DEF StepDirectory
<1> QED
  BY <1>1, <1>8, <1>9, <1>10, <1>11, <1>12, <1>13, <1>14, <1>15, <1>16, <1>17

-----------------------------------------------------------------------------
(* A step of a handler keeps the invariant                                 *)

\* Steps h and R are the ones there are.
Facing(h, R) ==
    /\ TypeOK /\ IInv /\ h \in AStep /\ R \in SUBSET AStep
    /\ Range(todo) = {h} \cup R /\ (\A r \in R : Before(h, r))
    /\ Kept /\ Took(h, R)

\* A step that is left was there before, but for what a loop has done of it.
LEMMA NothingNew ==
    ASSUME NEW h, NEW R, Facing(h, R), NEW s \in Range(todo')
    PROVE  \/ s \in R
           \/ /\ h.do \in {"add", "del", "unalias", "rmdir"} /\ s.do = h.do /\ s.val \subseteq h.val
              /\ h.do \in {"add", "del"} => s.doc = h.doc /\ s.name = h.name
<1> DEFINE Q == Range(todo')
<1>1. ASSUME NEW x, Looped(h, R, x), h.do \in {"add", "del", "unalias", "rmdir"}
      PROVE  \/ s \in R
             \/ /\ h.do \in {"add", "del", "unalias", "rmdir"} /\ s.do = h.do
                /\ s.val \subseteq h.val
                /\ h.do \in {"add", "del"} => s.doc = h.doc /\ s.name = h.name
  BY <1>1 DEF Looped
<1>2. CASE Q = {} \/ Q = R
  BY <1>2
<1>3. CASE \E x : TookSet(h, R, x) \/ TookUnalias(h, R, x)
  BY <1>1, <1>3 DEF TookSet, TookUnalias
<1>4. CASE \E m \in Names, q \in Parts : TookRemove(h, R, m, q)
  BY <1>1, <1>4 DEF TookRemove
<1>5. Took(h, R)
  BY DEF Facing
<1> QED
  BY <1>2, <1>3, <1>4, <1>5
     DEF Took, TookColl, TookLoad, TookAlias, TookQuiet, Raised, TookMake, TookMove

\* A step that has not been taken stays, unless the handler raises.
LEMMA NothingLost ==
    ASSUME NEW h, NEW R, Facing(h, R), ~Raised(h)
    PROVE  R \subseteq Range(todo')
<1>1. Took(h, R)
  BY DEF Facing
<1> QED
  BY <1>1 DEF Took, TookColl, TookLoad, TookAlias, TookQuiet, TookMake, TookMove,
              TookSet, TookUnalias, TookRemove, Looped

LEMMA CoherentStays ==
    ASSUME NEW h, NEW R, Facing(h, R)
    PROVE  Coherent(Range(todo'))
<1> DEFINE P == Range(todo)  Q == Range(todo')
<1>1. \A s \in Q : \E r \in P : /\ r.do = s.do
                                /\ s.do \in {"add", "del"} => r.doc = s.doc /\ r.name = s.name
                                /\ s.do = "put" => r = s
  BY NothingNew DEF Facing
<1>2. Coherent(P)
  BY DEF Facing, IInv
<1> HIDE DEF P, Q
<1>3. \A s, r \in Q : \A d \in {"coll", "load", "alias"}, n \in Names :
          Puts(s, d, n) /\ Puts(r, d, n) => s.val = r.val
  BY <1>1, <1>2 DEF Coherent, Puts
<1>4. \A s, r \in Q : s.do = "add" /\ r.do = "del" => s.doc # r.doc \/ s.name # r.name
  BY <1>1, <1>2 DEF Coherent
<1>5. \A s, r \in Q : s.do = "unalias" => ~ (r.do = "put" /\ r.doc = "alias")
  BY <1>1, <1>2 DEF Coherent
<1>6. Coherent(Q)
  BY <1>3, <1>4, <1>5 DEF Coherent
<1> QED
  BY <1>6 DEF Q

\* The kinds of step, by what they change.
LEMMA Changes ==
    ASSUME NEW h, NEW R, Facing(h, R)
    PROVE  /\ h.do = "put" /\ h.doc = "coll" => TookColl(h, R)
           /\ ~ (h.do = "put" /\ h.doc = "coll") => cat'.coll = cat.coll
           /\ h.do \notin {"mkdir", "rmdir", "move"} => dir' = dir
           /\ h.do # "mkdir" => home' = home
           /\ h.do = "mkdir" => Raised(h) \/ TookMake(h, R)
           /\ h.do = "move" => Raised(h) \/ TookMove(h, R)
           /\ h.do = "rmdir" => \/ TookQuiet(h, R)
                                \/ \E m \in Names, q \in Parts : TookRemove(h, R, m, q)
           /\ Raised(h) => h.do \in {"mkdir", "move"} /\ Range(todo') = {} /\ Quiet
<1>1. Took(h, R)
  BY DEF Facing
<1>2. CASE \E x : TookSet(h, R, x) \/ TookUnalias(h, R, x)
  BY <1>2 DEF TookSet, TookUnalias, Raised
<1>3. CASE \E m \in Names, q \in Parts : TookRemove(h, R, m, q)
  BY <1>3 DEF TookRemove, Raised
<1> QED
  BY <1>1, <1>2, <1>3
     DEF Took, TookColl, TookLoad, TookAlias, TookQuiet, Raised, TookMake, TookMove, Quiet

\* A directory that has not been removed is still to be.
LEMMA StillRemoved ==
    ASSUME NEW h, NEW R, Facing(h, R), ~Raised(h), NEW n \in Names, NEW p \in Parts,
           dir'[n][p] # None, h.do \notin {"mkdir", "move"}
    PROVE  /\ dir'[n][p] = dir[n][p]
           /\ Removing(Range(todo), n, p) <=> Removing(Range(todo'), n, p)
           /\ Moving(Range(todo), n) <=> Moving(Range(todo'), n)
<1>0. Range(todo) = {h} \cup R
  BY DEF Facing
<1>1. \A s \in Range(todo') :
          s \in R \/ (s.do = h.do /\ h.do \in {"add", "del", "unalias", "rmdir"} /\ s.val \subseteq h.val)
  BY NothingNew
<1>2. R \subseteq Range(todo')
  BY NothingLost
<1>3. Moving(Range(todo), n) <=> Moving(Range(todo'), n)
  BY <1>0, <1>1, <1>2 DEF Moving
<1>4. Removing(Range(todo'), n, p) => Removing(Range(todo), n, p)
  BY <1>0, <1>1 DEF Removing
<1>5. CASE h.do # "rmdir"
  BY <1>0, <1>2, <1>3, <1>4, <1>5, Changes DEF Removing
<1>6. CASE h.do = "rmdir"
  <2>1. CASE TookQuiet(h, R)
    <3>1. dir' = dir /\ (<<n, p>> \notin h.val)
      BY <2>1, <1>6 DEF TookQuiet, Quiet
    <3> QED
      BY <3>1, <1>0, <1>2, <1>3, <1>4 DEF Removing
  <2>2. ASSUME NEW m \in Names, NEW q \in Parts, TookRemove(h, R, m, q)
        PROVE  /\ dir'[n][p] = dir[n][p]
               /\ Removing(Range(todo), n, p) => Removing(Range(todo'), n, p)
    <3>1. dir'[n][p] = dir[n][p] /\ ~ (n = m /\ p = q)
      BY <2>2 DEF TookRemove
    <3>2. PICK G : /\ Range(todo') = R \cup G
                   /\ \A g \in G : g.do = h.do /\ g.val = h.val \ {<<m, q>>}
                   /\ \A y \in h.val : y = <<m, q>> \/ \E g \in G : TRUE
      BY <2>2 DEF TookRemove, Looped
    <3>3. ASSUME <<n, p>> \in h.val PROVE Removing(Range(todo'), n, p)
      <4>1. <<n, p>> # <<m, q>>
        BY <3>1
      <4>2. PICK g \in G : TRUE
        BY <4>1, <3>2, <3>3
      <4>3. g.do = "rmdir" /\ <<n, p>> \in g.val /\ g \in Range(todo')
        BY <4>1, <3>2, <3>3, <1>6
      <4> QED
        BY <4>3 DEF Removing
    <3> QED
      BY <3>1, <3>3, <1>0, <1>2 DEF Removing
  <2> QED
    BY <2>1, <2>2, <1>3, <1>4, <1>6, Changes
<1> QED
  BY <1>5, <1>6

LEMMA CollPutsStays ==
    ASSUME NEW h, NEW R, Facing(h, R)
    PROVE  CollPuts(Range(todo))'
<1> DEFINE P == Range(todo)  Q == Range(todo')
<1>0. P = {h} \cup R /\ \A r \in R : Before(h, r)
  BY DEF Facing
<1>1. /\ Coherent(P) /\ CollPuts(P) /\ Making(P) /\ Renaming(P) /\ h \in AStep
      /\ TypeOK /\ clock' = clock
  BY DEF Facing, IInv, Kept
<1> HIDE DEF P
<1> SUFFICES ASSUME NEW n \in Names, NEW s \in Q, Puts(s, "coll", n)
             PROVE  IF s.val = None
                    THEN \A p \in Parts : dir'[n][p] # None =>
                            Moving(Range(todo), n)' \/ Removing(Range(todo), n, p)'
                    ELSE cat'.coll[n] = None /\ s.val <= clock'
  BY DEF CollPuts
<1>2. s \in R /\ s \in P
  BY <1>0, NothingNew DEF Puts
<1>3. ~Raised(h)
  BY Changes
<1>4. ASSUME s.val = None, NEW p \in Parts, dir'[n][p] # None
      PROVE  Moving(Q, n) \/ Removing(Q, n, p)
  <2>1. dir[n][p] # None => Moving(P, n) \/ Removing(P, n, p)
    BY <1>1, <1>2, <1>4 DEF CollPuts
  <2>2. CASE h.do \notin {"mkdir", "move"}
    BY <2>1, <2>2, <1>3, <1>4, StillRemoved DEF P
  <2>3. CASE h.do = "mkdir"
    <3>1. s.val = h.for /\ h.for \in Ids
      BY <2>3, <1>0, <1>1, <1>2, Fields DEF Making
    <3> QED
      BY <3>1, <1>4, LifecycleAssumption DEF Ids
  <2>4. CASE h.do = "move"
    <3>1. TookMove(h, R)
      BY <2>4, <1>3, Changes
    <3>2. h.name \in Names /\ h.val \in Names
      BY <2>4, <1>1, Fields
    <3>3. cat.coll[h.name] # None /\ Putting(P, h.val, cat.coll[h.name])
      BY <2>4, <1>0, <1>1 DEF Renaming
    <3>4. n # h.val
      BY <3>2, <3>3, <1>1, <1>2, <1>4 DEF Coherent, Putting
    <3>5. n # h.name /\ dir[n][p] # None
      BY <3>1, <3>4, <1>4 DEF TookMove
    <3>6. ~Moving(P, n) /\ ~Removing(P, n, p)
      BY <1>0, <2>4, <3>5 DEF Before, Moving, Removing
    <3> QED
      BY <3>5, <3>6, <2>1
  <2> QED
    BY <2>2, <2>3, <2>4
<1>5. ASSUME s.val # None PROVE cat'.coll[n] = None /\ s.val <= clock
  <2>1. cat.coll[n] = None /\ s.val <= clock
    BY <1>1, <1>2, <1>5 DEF CollPuts
  <2>2. CASE h.do = "put" /\ h.doc = "coll"
    <3>1. TookColl(h, R) /\ n # h.name
      BY <2>2, <1>0, <1>2, Changes DEF Before, Puts
    <3> QED
      BY <3>1, <2>1 DEF TookColl
  <2> QED
    BY <2>1, <2>2, Changes
<1> QED
  BY <1>1, <1>4, <1>5 DEF Moving, Removing

LEMMA MakingStays ==
    ASSUME NEW h, NEW R, Facing(h, R)
    PROVE  Making(Range(todo))'
<1> DEFINE P == Range(todo)  Q == Range(todo')
<1>0. P = {h} \cup R /\ \A r \in R : Before(h, r)
  BY DEF Facing
<1>1. Making(P) /\ h \in AStep /\ R \subseteq AStep /\ TypeOK /\ clock' = clock
  BY DEF Facing, IInv, Kept
<1> HIDE DEF P
<1> SUFFICES ASSUME NEW s \in Q, s.do = "mkdir"
             PROVE  /\ cat'.coll[s.name] = s.for \/ Putting(Range(todo), s.name, s.for)'
                    /\ \A r \in Q : \A n \in Names :
                          Puts(r, "coll", n) => n = s.name /\ r.val = s.for /\ r.val = clock'
                    /\ \A n \in Names, p \in Parts : dir'[n][p] # clock'
  BY DEF Making, Puts
<1>2. s \in R /\ s \in P
  BY <1>0, NothingNew
<1>3. ~Raised(h) /\ R \subseteq Q
  BY Changes, NothingLost
<1>4. h.do \notin {"mkdir", "move", "rmdir"}
  BY <1>0, <1>2 DEF Before
<1>5. dir' = dir
  BY <1>4, Changes
<1>6. \A r \in Q : \A n \in Names : Puts(r, "coll", n) => r \in P
  BY <1>0, NothingNew DEF Puts
<1>7. \A r \in P : \A n \in Names :
          Puts(r, "coll", n) => n = s.name /\ r.val = s.for /\ r.val = clock
  BY <1>1, <1>2 DEF Making
<1>8. s.name \in Names
  BY <1>1, <1>2, Fields
<1>9. cat'.coll[s.name] = s.for \/ Putting(Q, s.name, s.for)
  <2>1. cat.coll[s.name] = s.for \/ Putting(P, s.name, s.for)
    BY <1>1, <1>2 DEF Making
  <2>2. CASE h.do = "put" /\ h.doc = "coll"
    <3>1. TookColl(h, R) /\ h.name \in Names
      BY <2>2, <1>1, Fields, Changes
    <3>2. h.name = s.name /\ h.val = s.for
      BY <3>1, <2>2, <1>0, <1>7 DEF Puts
    <3> QED
      BY <3>1, <3>2 DEF TookColl
  <2>3. CASE ~ (h.do = "put" /\ h.doc = "coll")
    <3>1. Putting(P, s.name, s.for) => Putting(Q, s.name, s.for)
      BY <1>0, <1>3, <2>3 DEF Putting, Puts
    <3> QED
      BY <2>1, <2>3, <3>1, Changes
  <2> QED
    BY <2>2, <2>3
<1>10. \A n \in Names, p \in Parts : dir'[n][p] # clock'
  BY <1>1, <1>2, <1>5 DEF Making
<1> QED
  BY <1>1, <1>6, <1>7, <1>9, <1>10 DEF Putting

LEMMA RenamingStays ==
    ASSUME NEW h, NEW R, Facing(h, R)
    PROVE  Renaming(Range(todo))'
<1> DEFINE P == Range(todo)  Q == Range(todo')
<1>0. P = {h} \cup R /\ \A r \in R : Before(h, r)
  BY DEF Facing
<1>1. Renaming(P) /\ clock' = clock
  BY DEF Facing, IInv, Kept
<1> HIDE DEF P
<1> SUFFICES ASSUME NEW s \in Q, s.do = "move"
             PROVE  /\ s.name # s.val /\ cat'.coll[s.name] \notin {None, clock'}
                    /\ Putting(Range(todo), s.val, cat.coll[s.name])'
  BY DEF Renaming
<1>2. s \in R /\ s \in P /\ h.do = "db"
  BY <1>0, NothingNew DEF Before
<1>3. cat'.coll = cat.coll /\ ~Raised(h)
  BY <1>2, Changes
<1>4. R \subseteq Q
  BY <1>3, NothingLost
<1>5. Putting(P, s.val, cat.coll[s.name]) => Putting(Q, s.val, cat.coll[s.name])
  BY <1>0, <1>2, <1>4 DEF Putting, Puts
<1> QED
  BY <1>1, <1>2, <1>3, <1>5 DEF Renaming, Putting

LEMMA DatedStays ==
    ASSUME NEW h, NEW R, Facing(h, R)
    PROVE  Dated'
<1>0. /\ Dated /\ CollPuts(Range(todo)) /\ h \in Range(todo) /\ h \in AStep
      /\ TypeOK /\ clock' = clock /\ defined' = defined
  BY DEF Facing, IInv, Kept
<1>1. \A n \in Names : cat'.coll[n] # None => cat'.coll[n] <= clock
  <2>1. CASE h.do = "put" /\ h.doc = "coll"
    <3>1. TookColl(h, R) /\ h.name \in Names
      BY <2>1, <1>0, Fields, Changes
    <3>2. h.val # None => h.val <= clock
      BY <2>1, <3>1, <1>0 DEF CollPuts, Puts
    <3> QED
      BY <3>1, <3>2, <1>0 DEF TookColl, Dated
  <2> QED
    BY <2>1, <1>0, Changes DEF Dated
<1>2. \A n \in Names, p \in Parts : dir'[n][p] # None => dir'[n][p] <= clock
  <2> SUFFICES ASSUME NEW n \in Names, NEW p \in Parts, dir'[n][p] # None
               PROVE  dir'[n][p] <= clock
    OBVIOUS
  <2>0. clock \in Int /\ h.do = "move" => h.name \in Names
    BY <1>0, Fields DEF TypeOK
  <2>1. CASE Raised(h)
    BY <2>1, <1>0, Changes DEF Dated, Quiet
  <2>2. CASE TookMake(h, R)
    BY <2>2, <1>0 DEF TookMake, Dated, TypeOK
  <2>3. CASE TookMove(h, R)
    BY <2>3, <1>0, Fields DEF TookMove, Dated
  <2>4. CASE ~Raised(h) /\ h.do \notin {"mkdir", "move"}
    BY <2>4, <1>0, StillRemoved DEF Dated
  <2> QED
    BY <2>1, <2>2, <2>3, <2>4, Changes
<1> QED
  BY <1>0, <1>1, <1>2 DEF Dated

LEMMA OwnedStays ==
    ASSUME NEW h, NEW R, Facing(h, R)
    PROVE  Owned(Range(todo))'
<1> DEFINE P == Range(todo)  Q == Range(todo')
<1>0. P = {h} \cup R /\ \A r \in R : Before(h, r)
  BY DEF Facing
<1>1. /\ Coherent(P) /\ CollPuts(P) /\ Making(P) /\ Renaming(P) /\ Owned(P) /\ h \in AStep
      /\ TypeOK /\ clock' = clock /\ torn' = torn
  BY DEF Facing, IInv, Kept
<1> HIDE DEF P
<1> DEFINE Fine(n, i) ==
      /\ home'[i] # None
      /\ \/ cat'.coll[n] = home'[i]
         \/ /\ cat'.coll[n] = None /\ Putting(Q, n, home'[i]) /\ home'[i] # clock
            /\ \A s \in Q : s.do # "move"
<1> SUFFICES ASSUME ~torn, NEW n \in Names, NEW p \in Parts, dir'[n][p] # None
             PROVE  Fine(n, dir'[n][p])
  BY <1>1 DEF Owned, Putting
<1>2. \A s \in Q : s.do \in {"put", "move"} => s \in R /\ s \in P
  BY <1>0, NothingNew
<1>3. ASSUME dir'[n][p] = dir[n][p], home'[dir[n][p]] = home[dir[n][p]], h.do # "mkdir", ~Raised(h),
             h.do # "move"
      PROVE  Fine(n, dir'[n][p])
  <2> DEFINE i == home[dir[n][p]]
  <2>1. /\ i # None
        /\ \/ cat.coll[n] = i
           \/ /\ cat.coll[n] = None /\ Putting(P, n, i) /\ i # clock
              /\ \A s \in P : s.do # "move"
    BY <1>1, <1>3 DEF Owned
  <2> HIDE DEF i
  <2>2. R \subseteq Q
    BY <1>3, NothingLost
  <2>3. CASE h.do = "put" /\ h.doc = "coll" /\ h.name = n
    <3>1. TookColl(h, R)
      BY <2>3, Changes
    <3>2. h.val # None
      <4>1. ~Moving(P, n) /\ ~Removing(P, n, p)
        BY <1>0, <2>3 DEF Before, Moving, Removing
      <4> QED
        BY <4>1, <1>0, <1>1, <1>3, <2>3 DEF CollPuts, Puts
    <3>3. cat.coll[n] = None /\ h.val = i
      BY <3>2, <2>1, <2>3, <1>0, <1>1 DEF CollPuts, Puts, Coherent, Putting
    <3> QED
      BY <3>1, <3>3, <2>1, <2>3, <1>3 DEF TookColl, i
  <2>4. CASE ~ (h.do = "put" /\ h.doc = "coll" /\ h.name = n)
    <3>1. cat'.coll[n] = cat.coll[n]
      BY <2>4, Changes DEF TookColl
    <3>2. Putting(P, n, i) => Putting(Q, n, i)
      BY <2>4, <2>2, <1>0 DEF Putting, Puts
    <3>3. (\A s \in P : s.do # "move") => \A s \in Q : s.do # "move"
      BY <1>2
    <3> QED
      BY <2>1, <3>1, <3>2, <3>3, <1>3 DEF i
  <2> QED
    BY <2>3, <2>4
<1>4. CASE Raised(h)
  <2>1. Quiet /\ h.do \in {"mkdir", "move"}
    BY <1>4, Changes
  <2>2. cat.coll[n] = home[dir[n][p]]
    <3>1. CASE h.do = "move"
      BY <3>1, <2>1, <1>0, <1>1 DEF Owned, Quiet
    <3>2. CASE h.do = "mkdir"
      <4>1. \A i : Putting(P, n, i) => i = clock
        BY <3>2, <1>0, <1>1 DEF Making, Putting
      <4> QED
        BY <4>1, <2>1, <1>1 DEF Owned, Quiet
    <3> QED
      BY <2>1, <3>1, <3>2
  <2> QED
    BY <2>1, <2>2, <1>1 DEF Owned, Quiet
<1>5. CASE TookMake(h, R)
  <2>1. h.name \in Names /\ h.val \in Parts /\ h.for \in Ids /\ h.do = "mkdir"
    BY <1>1, <1>5, Fields DEF TookMake
  <2>2. \A i : Putting(P, n, i) => i = clock
    BY <2>1, <1>0, <1>1 DEF Making, Putting
  <2>3. cat.coll[h.name] = h.for
    <3>1. \A s \in P : ~ (s.do = "put" /\ s.doc = "coll")
      BY <1>0, <2>1 DEF Before
    <3> QED
      BY <3>1, <2>1, <1>0, <1>1 DEF Making, Putting, Puts
  <2>4. CASE n = h.name /\ p = h.val
    <3>1. dir'[n][p] = clock /\ home'[clock] = h.for /\ cat'.coll = cat.coll
      BY <2>4, <1>5 DEF TookMake
    <3> QED
      BY <3>1, <2>1, <2>3, <2>4, LifecycleAssumption DEF Ids
  <2>5. CASE ~ (n = h.name /\ p = h.val)
    <3>1. dir'[n][p] = dir[n][p] /\ cat'.coll = cat.coll
      BY <2>5, <1>5 DEF TookMake
    <3>2. dir[n][p] # clock /\ dir[n][p] \in Ids
      BY <3>1, <2>1, <1>0, <1>1 DEF Making, TypeOK
    <3>3. home'[dir[n][p]] = home[dir[n][p]]
      BY <3>2, <1>5 DEF TookMake
    <3>4. home[dir[n][p]] # None /\ cat.coll[n] = home[dir[n][p]]
      BY <2>2, <3>1, <1>1 DEF Owned
    <3> QED
      BY <3>1, <3>3, <3>4
  <2> QED
    BY <2>4, <2>5
<1>6. CASE TookMove(h, R)
  <2>1. h.name \in Names /\ h.val \in Names /\ h.do = "move"
    BY <1>1, <1>6, Fields DEF TookMove
  <2>2. \A m \in Names, q \in Parts : dir[m][q] # None =>
            home[dir[m][q]] # None /\ cat.coll[m] = home[dir[m][q]]
    BY <2>1, <1>0, <1>1 DEF Owned
  <2>3. cat'.coll = cat.coll /\ home' = home /\ Q = R
    BY <1>6 DEF TookMove
  <2>4. CASE n = h.val
    <3>1. dir'[n][p] = dir[h.name][p]
      BY <1>6, <2>4 DEF TookMove
    <3>2. /\ cat.coll[h.name] \notin {None, clock} /\ Putting(P, n, cat.coll[h.name])
      BY <2>1, <2>4, <1>0, <1>1 DEF Renaming
    <3>3. cat.coll[n] = None
      BY <3>2, <2>4, <2>1, <1>1 DEF CollPuts, Putting
    <3>4. Putting(Q, n, cat.coll[h.name])
      BY <3>2, <2>1, <2>3, <1>0 DEF Putting, Puts
    <3>5. \A s \in Q : s.do # "move"
      BY <2>1, <2>3, <1>0 DEF Before
    <3>6. home[dir[h.name][p]] = cat.coll[h.name]
      BY <2>1, <2>2, <3>1
    <3> QED
      BY <3>1, <3>2, <3>3, <3>4, <3>5, <3>6, <2>3
  <2>5. CASE n # h.val
    <3>1. dir'[n][p] = dir[n][p]
      BY <1>6, <2>5 DEF TookMove
    <3> QED
      BY <3>1, <2>2, <2>3
  <2> QED
    BY <2>4, <2>5
<1>7. CASE ~Raised(h) /\ h.do \notin {"mkdir", "move"}
  <2>1. dir'[n][p] = dir[n][p] /\ home' = home
    BY <1>7, StillRemoved, Changes
  <2> QED
    BY <2>1, <1>3, <1>7
<1> QED
  BY <1>4, <1>5, <1>6, <1>7, Changes

LEMMA DroppingStays ==
    ASSUME NEW h, NEW R, Facing(h, R)
    PROVE  Dropping(Range(todo))'
<1> DEFINE P == Range(todo)  Q == Range(todo')
<1>0. P = {h} \cup R /\ \A r \in R : Before(h, r)
  BY DEF Facing
<1>1. Dropping(P) /\ h \in AStep /\ TypeOK /\ Took(h, R)
  BY DEF Facing, IInv
<1> HIDE DEF P
<1> SUFFICES ASSUME NEW n \in Names, NEW r \in Q,
                    r.do = "tell", r.kind = "close", r.name = n, r.val = {}
             PROVE  \/ cat'.coll[n] # None /\ \A s \in Q : ~ (s.do = "put" /\ s.doc = "coll")
                    \/ Empties(Range(todo), n)'
  BY DEF Dropping
<1>2. r \in P /\ ~Raised(h)
  BY <1>0, NothingNew, Changes
<1>3. R \subseteq Q
  BY <1>2, NothingLost
<1>4. \A s \in Q : /\ \E q \in P : q.do = s.do
                   /\ s.do = "put" => s \in P
  BY <1>0, NothingNew
<1>5. CASE cat.coll[n] # None /\ \A s \in P : ~ (s.do = "put" /\ s.doc = "coll")
  <2>1. cat'.coll = cat.coll
    BY <1>0, <1>5, Changes
  <2> QED
    BY <2>1, <1>4, <1>5
<1>6. CASE Empties(P, n)
  <2>1. h.do \notin {"mkdir", "move", "add"} /\ \A s \in Q : s.do \notin {"mkdir", "move", "add"}
    BY <1>0, <1>4, <1>6 DEF Empties
  <2>2. \A p \in Parts : dir'[n][p] # None => Removing(Q, n, p)
    BY <2>1, <1>2, <1>6, StillRemoved DEF Empties, P
  <2>3. \A s \in Q : s.do = "put" => s.doc \in {"coll", "load"} /\ s.name = n /\ s.val = None
    BY <1>4, <1>6 DEF Empties
  <2>4. /\ \A p \in cat.part[n] : Deleting(P, "part", n, p)
        /\ \A i \in cat.index[n] : Deleting(P, "index", n, i)
        /\ \A a \in Names : cat.alias[a] = n => Unaliasing(P, a)
        /\ cat.load[n] # None => \E s \in P : Puts(s, "load", n)
        /\ h.do = "put" => h.doc \in {"coll", "load"} /\ h.name = n /\ h.val = None
    BY <1>0, <1>6 DEF Empties
  <2>5. CASE \E x : TookSet(h, R, x)
    <3>1. PICK x : TookSet(h, R, x)
      BY <2>5
    <3>2. h.do = "del"
      BY <3>1, <2>1 DEF TookSet
    <3>3. PICK G : /\ Q = R \cup G
                   /\ \A g \in G : /\ g.do = "del" /\ g.val = h.val \ {x}
                                   /\ g.doc = h.doc /\ g.name = h.name
                   /\ \A y \in h.val : y = x \/ \E g \in G : TRUE
      BY <3>1, <3>2 DEF TookSet, Looped
    <3>4. ASSUME NEW d, NEW y, Deleting(P, d, n, y), ~ (h.doc = d /\ h.name = n /\ y = x)
          PROVE  Deleting(Q, d, n, y)
      <4>1. PICK s \in P : s.do = "del" /\ s.doc = d /\ s.name = n /\ y \in s.val
        BY <3>4 DEF Deleting
      <4>2. CASE s = h
        <5>1. PICK g \in G : TRUE
          BY <4>1, <4>2, <3>3, <3>4
        <5>2. g \in Q /\ g.do = "del" /\ g.doc = d /\ g.name = n /\ y \in g.val
          BY <4>1, <4>2, <3>3, <3>4
        <5> QED
          BY <5>2 DEF Deleting
      <4> QED
        BY <4>1, <4>2, <1>0, <1>3 DEF Deleting
    <3>5. \A p \in cat'.part[n] : Deleting(Q, "part", n, p)
      <4> TAKE p \in cat'.part[n]
      <4>1. p \in cat.part[n] /\ ~ (h.doc = "part" /\ h.name = n /\ p = x)
        BY <3>1, <3>2 DEF TookSet
      <4> QED
        BY <4>1, <2>4, <3>4
    <3>6. \A i \in cat'.index[n] : Deleting(Q, "index", n, i)
      <4> TAKE i \in cat'.index[n]
      <4>1. i \in cat.index[n] /\ ~ (h.doc = "index" /\ h.name = n /\ i = x)
        BY <3>1, <3>2 DEF TookSet
      <4> QED
        BY <4>1, <2>4, <3>4
    <3>7. \A a \in Names : cat'.alias[a] = n => Unaliasing(Q, a)
      <4>1. cat'.alias = cat.alias
        BY <3>1 DEF TookSet
      <4> QED
        BY <4>1, <2>4, <3>2, <1>0, <1>3 DEF Unaliasing
    <3>8. cat'.load[n] # None => \E s \in Q : Puts(s, "load", n)
      <4>1. cat'.load = cat.load
        BY <3>1 DEF TookSet
      <4> QED
        BY <4>1, <2>4, <3>2, <1>0, <1>3 DEF Puts
    <3> QED
      BY <2>1, <2>2, <2>3, <3>5, <3>6, <3>7, <3>8
         DEF Empties, Removing, Deleting, Unaliasing, Puts
  <2>6. CASE h.do # "del"
    <3>1. /\ \A d, y : Deleting(P, d, n, y) => Deleting(Q, d, n, y)
          /\ cat'.part[n] = cat.part[n] /\ cat'.index[n] = cat.index[n]
      <4>1. \A x : ~TookSet(h, R, x)
        BY <2>1, <2>6 DEF TookSet
      <4> QED
        BY <4>1, <1>0, <1>1, <1>3, <2>6, <2>1 DEF Deleting, Took, TookColl, TookLoad, TookAlias,
           TookQuiet, Quiet, Raised, TookMake, TookMove, TookUnalias, TookRemove
    <3>2. \A a \in Names : cat'.alias[a] = n => Unaliasing(Q, a)
      <4>1. CASE \E x : TookUnalias(h, R, x)
        <5>1. PICK x : TookUnalias(h, R, x)
          BY <4>1
        <5> SUFFICES ASSUME NEW a \in Names, cat'.alias[a] = n
                     PROVE  Unaliasing(Q, a)
          OBVIOUS
        <5>2. cat.alias[a] = n /\ a # x
          BY <5>1, LifecycleAssumption DEF TookUnalias
        <5>3. PICK G : /\ Q = R \cup G
                       /\ \A g \in G : g.do = "unalias" /\ g.val = h.val \ {x}
                       /\ \A y \in h.val : y = x \/ \E g \in G : TRUE
          BY <5>1 DEF TookUnalias, Looped
        <5>4. PICK s \in P : s.do = "unalias" /\ a \in s.val
          BY <5>2, <2>4 DEF Unaliasing
        <5>5. CASE s = h
          <6>1. PICK g \in G : TRUE
            BY <5>2, <5>3, <5>4, <5>5
          <6>2. g \in Q /\ g.do = "unalias" /\ a \in g.val
            BY <5>2, <5>3, <5>4, <5>5
          <6> QED
            BY <6>2 DEF Unaliasing
        <5> QED
          BY <5>4, <5>5, <1>0, <1>3 DEF Unaliasing
      <4>2. CASE ~ \E x : TookUnalias(h, R, x)
        <5>1. cat'.alias = cat.alias /\ h.do # "unalias"
          BY <4>2, <1>1, <2>1, <2>4, <2>6 DEF Took, TookColl, TookLoad, TookAlias, TookSet,
             TookQuiet, Quiet, Raised, TookMake, TookMove, TookRemove
        <5> QED
          BY <5>1, <2>4, <1>0, <1>3 DEF Unaliasing
      <4> QED
        BY <4>1, <4>2
    <3>3. cat'.load[n] # None => \E s \in Q : Puts(s, "load", n)
      <4>1. CASE TookLoad(h, R)
        BY <4>1, <2>4 DEF TookLoad
      <4>2. CASE ~TookLoad(h, R)
        <5>1. cat'.load = cat.load /\ ~ Puts(h, "load", n)
          BY <4>2, <1>1, <2>1, <2>4, <2>6 DEF Took, TookColl, TookUnalias, TookAlias, TookSet,
             TookQuiet, Quiet, Raised, TookMake, TookMove, TookRemove, Puts
        <5> QED
          BY <5>1, <2>4, <1>0, <1>3
      <4> QED
        BY <4>1, <4>2
    <3> QED
      BY <2>1, <2>2, <2>3, <2>4, <3>1, <3>2, <3>3
         DEF Empties, Removing, Deleting, Unaliasing, Puts
  <2> QED
    BY <2>5, <2>6, <2>1, <1>1 DEF Took, TookColl, TookLoad, TookAlias, TookQuiet, Raised,
       TookMake, TookMove, TookUnalias, TookRemove
<1> QED
  BY <1>0, <1>1, <1>2, <1>5, <1>6 DEF Dropping

-----------------------------------------------------------------------------
(* What will be stored is not changed by a step                            *)

LEMMA WillPut ==
    ASSUME NEW c, NEW P, NEW d \in {"coll", "load", "alias"}, NEW n \in Names, Coherent(P),
           NEW s \in P, Puts(s, d, n)
    PROVE  Will(c, P, d, n) = s.val
<1> DEFINE t == CHOOSE r \in P : Puts(r, d, n)
<1>1. t \in P /\ Puts(t, d, n)
  OBVIOUS
<1>2. Will(c, P, d, n) = t.val
  BY DEF Will
<1> HIDE DEF t
<1> QED
  BY <1>1, <1>2 DEF Coherent

LEMMA WillStand ==
    ASSUME NEW c, NEW P, NEW d \in {"coll", "load", "alias"}, NEW n \in Names,
           \A s \in P : ~Puts(s, d, n)
    PROVE  Will(c, P, d, n) = c[d][n]
BY DEF Will

LEMMA WillStays ==
    ASSUME NEW h, NEW R, Facing(h, R), ~Raised(h), NEW n \in Names
    PROVE  /\ Will(cat', Range(todo'), "coll", n) = Will(cat, Range(todo), "coll", n)
           /\ Will(cat', Range(todo'), "load", n) = Will(cat, Range(todo), "load", n)
           /\ WillAlias(cat', Range(todo'), n) = WillAlias(cat, Range(todo), n)
<1> DEFINE P == Range(todo)  Q == Range(todo')
<1>0. P = {h} \cup R /\ R \subseteq Q
  BY NothingLost DEF Facing
<1>1. Coherent(P) /\ Coherent(Q) /\ h \in AStep /\ Took(h, R)
  BY CoherentStays DEF Facing, IInv
<1>8. Coherent(P)
  BY <1>1
<1>9. Coherent(Q)
  BY <1>1
<1>2. \A s \in Q : s.do = "put" => s \in R
  BY NothingNew
<1> HIDE DEF P, Q
\* A document that the step does not write.
<1>3. ASSUME NEW d \in {"coll", "load", "alias"}, ~Puts(h, d, n), cat'[d][n] = cat[d][n]
      PROVE  Will(cat', Q, d, n) = Will(cat, P, d, n)
  <2>1. CASE \E s \in R : Puts(s, d, n)
    <3>1. PICK s \in R : Puts(s, d, n)
      BY <2>1
    <3>2. s \in P /\ s \in Q
      BY <1>0
    <3>3. Will(cat', Q, d, n) = s.val
      BY <3>1, <3>2, <1>9, WillPut
    <3>4. Will(cat, P, d, n) = s.val
      BY <3>1, <3>2, <1>8, WillPut
    <3> QED
      BY <3>3, <3>4
  <2>2. CASE \A s \in R : ~Puts(s, d, n)
    <3>1. (\A s \in P : ~Puts(s, d, n)) /\ \A s \in Q : ~Puts(s, d, n)
      BY <2>2, <1>0, <1>2, <1>3 DEF Puts
    <3>2. Will(cat', Q, d, n) = cat'[d][n]
      BY <3>1, WillStand
    <3>3. Will(cat, P, d, n) = cat[d][n]
      BY <3>1, WillStand
    <3> QED
      BY <3>2, <3>3, <1>3
  <2> QED
    BY <2>1, <2>2
\* The document that it writes.
<1>4. ASSUME NEW d \in {"coll", "load", "alias"}, Puts(h, d, n), cat'[d][n] = h.val
      PROVE  Will(cat', Q, d, n) = Will(cat, P, d, n)
  <2>1. Will(cat, P, d, n) = h.val
    <3>1. h \in P
      BY <1>0
    <3>2. Puts(h, d, n)
      BY <1>4
    <3> QED
      BY <3>1, <3>2, <1>8, WillPut
  <2>2. CASE \E s \in Q : Puts(s, d, n)
    <3>1. PICK s \in Q : Puts(s, d, n)
      BY <2>2
    <3>2. Will(cat', Q, d, n) = s.val
      BY <3>1, <1>9, WillPut
    <3>3. s \in P
      BY <3>1, <1>0, <1>2 DEF Puts
    <3>4. s.val = h.val
      BY <3>1, <3>3, <1>0, <1>1, <1>4 DEF Coherent
    <3> QED
      BY <2>1, <3>2, <3>4
  <2>3. CASE ~ \E s \in Q : Puts(s, d, n)
    <3>1. Will(cat', Q, d, n) = cat'[d][n]
      BY <2>3, WillStand
    <3> QED
      BY <2>1, <3>1, <1>4
  <2> QED
    BY <2>2, <2>3
<1>5. Will(cat', Q, "coll", n) = Will(cat, P, "coll", n)
  <2>1. CASE TookColl(h, R) /\ h.name = n
    <3>1. Puts(h, "coll", n) /\ cat'["coll"][n] = h.val
      BY <2>1 DEF TookColl, Puts
    <3> QED
      BY <3>1, <1>4
  <2>2. CASE ~ (TookColl(h, R) /\ h.name = n)
    <3>1. ~Puts(h, "coll", n) /\ cat'["coll"][n] = cat["coll"][n]
      BY <2>2, Changes DEF Puts, TookColl
    <3> QED
      BY <3>1, <1>3
  <2> QED
    BY <2>1, <2>2
<1>6. Will(cat', Q, "load", n) = Will(cat, P, "load", n)
  <2>1. CASE TookLoad(h, R) /\ h.name = n
    <3>1. Puts(h, "load", n) /\ cat'["load"][n] = h.val
      BY <2>1 DEF TookLoad, Puts
    <3> QED
      BY <3>1, <1>4
  <2>2. CASE TookLoad(h, R) /\ h.name # n
    <3>1. ~Puts(h, "load", n) /\ cat'["load"][n] = cat["load"][n]
      BY <2>2 DEF Puts, TookLoad
    <3> QED
      BY <3>1, <1>3
  <2>3. CASE ~TookLoad(h, R)
    <3>1. ~Puts(h, "load", n) /\ cat'["load"][n] = cat["load"][n]
      BY <2>3, <1>1 DEF Puts, Took, TookColl, TookAlias, TookSet, TookUnalias, TookQuiet, Quiet,
         Raised, TookMake, TookMove, TookRemove
    <3> QED
      BY <3>1, <1>3
  <2> QED
    BY <2>1, <2>2, <2>3
<1>7. WillAlias(cat', Q, n) = WillAlias(cat, P, n)
  <2>1. CASE TookAlias(h, R)
    <3>1. Unaliasing(Q, n) <=> Unaliasing(P, n)
      BY <2>1, <1>0 DEF TookAlias, Unaliasing, Q
    <3>2. Will(cat', Q, "alias", n) = Will(cat, P, "alias", n)
      <4>1. CASE h.name = n
        <5>1. Puts(h, "alias", n) /\ cat'["alias"][n] = h.val
          BY <2>1, <4>1 DEF TookAlias, Puts
        <5> QED
          BY <5>1, <1>4
      <4>2. CASE h.name # n
        <5>1. ~Puts(h, "alias", n) /\ cat'["alias"][n] = cat["alias"][n]
          BY <2>1, <4>2 DEF TookAlias, Puts
        <5> QED
          BY <5>1, <1>3
      <4> QED
        BY <4>1, <4>2
    <3> QED
      BY <3>1, <3>2 DEF WillAlias
  <2>2. CASE \E x : TookUnalias(h, R, x)
    <3>1. PICK x : TookUnalias(h, R, x)
      BY <2>2
    <3>2. PICK G : /\ Q = R \cup G
                   /\ \A g \in G : g.do = "unalias" /\ g.val = h.val \ {x}
                   /\ \A y \in h.val : y = x \/ \E g \in G : TRUE
      BY <3>1 DEF TookUnalias, Looped, Q
    <3>3. h.do = "unalias" /\ x \in h.val
          /\ cat'.alias[n] = IF n = x THEN None ELSE cat.alias[n]
      BY <3>1 DEF TookUnalias, Looped
    <3>4. CASE n = x
      <4>1. \A s \in P : ~Puts(s, "alias", n)
        BY <1>0, <1>1, <3>3 DEF Coherent, Puts
      <4>2. \A s \in Q : ~Puts(s, "alias", n)
        BY <4>1, <1>0, <1>2 DEF Puts
      <4>3. Will(cat', Q, "alias", n) = None
        <5>1. Will(cat', Q, "alias", n) = cat'["alias"][n]
          BY <4>2, WillStand
        <5> QED
          BY <5>1, <3>3, <3>4
      <4>4. Unaliasing(P, n)
        BY <1>0, <3>3, <3>4 DEF Unaliasing
      <4> QED
        BY <4>3, <4>4 DEF WillAlias
    <3>5. CASE n # x
      <4>1. Unaliasing(Q, n) => Unaliasing(P, n)
        BY <1>0, <3>2, <3>3 DEF Unaliasing
      <4>2. Unaliasing(P, n) => Unaliasing(Q, n)
        <5> SUFFICES ASSUME NEW s \in P, s.do = "unalias", n \in s.val
                     PROVE  Unaliasing(Q, n)
          BY DEF Unaliasing
        <5>1. CASE s = h
          <6>1. PICK g \in G : TRUE
            BY <3>2, <3>5, <5>1
          <6>2. g \in Q /\ g.do = "unalias" /\ n \in g.val
            BY <3>2, <3>5, <5>1
          <6> QED
            BY <6>2 DEF Unaliasing
        <5> QED
          BY <5>1, <1>0 DEF Unaliasing
      <4>3. ~Puts(h, "alias", n) /\ cat'["alias"][n] = cat["alias"][n]
        BY <3>3, <3>5 DEF Puts
      <4>4. Will(cat', Q, "alias", n) = Will(cat, P, "alias", n)
        BY <4>3, <1>3
      <4> QED
        BY <4>1, <4>2, <4>4 DEF WillAlias
    <3> QED
      BY <3>4, <3>5
  <2>3. CASE ~TookAlias(h, R) /\ ~ \E x : TookUnalias(h, R, x)
    <3>1. ~Puts(h, "alias", n) /\ cat'["alias"][n] = cat["alias"][n] /\ h.do # "unalias"
      BY <2>3, <1>1 DEF Puts, Took, TookColl, TookLoad, TookSet, TookQuiet, Quiet,
         Raised, TookMake, TookMove, TookRemove
    <3>2. Will(cat', Q, "alias", n) = Will(cat, P, "alias", n)
      BY <3>1, <1>3
    <3>3. \A s \in Q : s.do = "unalias" => s \in R
      BY <3>1, NothingNew DEF Q
    <3>4. Unaliasing(Q, n) <=> Unaliasing(P, n)
      BY <3>1, <3>3, <1>0 DEF Unaliasing
    <3> QED
      BY <3>2, <3>4 DEF WillAlias
  <2> QED
    BY <2>1, <2>2, <2>3
<1> QED
  BY <1>5, <1>6, <1>7 DEF P, Q

LEMMA WillAllStays ==
    ASSUME NEW h, NEW R, Facing(h, R), ~Raised(h), NEW n \in Names, NEW d \in {"part", "index"}
    PROVE  WillAll(cat', Range(todo'), d, n) = WillAll(cat, Range(todo), d, n)
<1> DEFINE P == Range(todo)  Q == Range(todo')
<1>0. P = {h} \cup R /\ R \subseteq Q
  BY NothingLost DEF Facing
<1>1. Coherent(P) /\ h \in AStep /\ Took(h, R)
  BY DEF Facing, IInv
<1>2. \A s \in Q : /\ s.do = "add" /\ h.do # "add" => s \in R
                   /\ s.do = "del" /\ h.do # "del" => s \in R
  BY NothingNew
<1> HIDE DEF P, Q
<1> SUFFICES ASSUME NEW y
             PROVE  (Adding(Q, d, n, y) \/ (y \in cat'[d][n] /\ ~Deleting(Q, d, n, y)))
                      <=> (Adding(P, d, n, y) \/ (y \in cat[d][n] /\ ~Deleting(P, d, n, y)))
  BY DEF WillAll, P, Q
<1>3. CASE \E x : TookSet(h, R, x)
  <2>1. PICK x : TookSet(h, R, x)
    BY <1>3
  <2>2. PICK G : /\ Q = R \cup G
                 /\ \A g \in G : /\ g.do = h.do /\ g.val = h.val \ {x}
                                 /\ g.doc = h.doc /\ g.name = h.name
                 /\ \A z \in h.val : z = x \/ \E g \in G : TRUE
    BY <2>1 DEF TookSet, Looped, Q
  <2>3. h.do \in {"add", "del"} /\ x \in h.val
    BY <2>1 DEF TookSet, Looped
  <2>4. /\ h.doc = d /\ h.name = n /\ h.do = "add" => cat'[d][n] = cat[d][n] \cup {x}
        /\ h.doc = d /\ h.name = n /\ h.do = "del" => cat'[d][n] = cat[d][n] \ {x}
        /\ ~ (h.doc = d /\ h.name = n) => cat'[d][n] = cat[d][n]
    BY <2>1 DEF TookSet
  \* Nothing but x itself changes in what is to be added and deleted.
  <2>5. ASSUME ~ (h.doc = d /\ h.name = n /\ y = x)
        PROVE  /\ Adding(Q, d, n, y) <=> Adding(P, d, n, y)
               /\ Deleting(Q, d, n, y) <=> Deleting(P, d, n, y)
    <3>1. \A s \in Q : (s.doc = d /\ s.name = n /\ y \in s.val) =>
              \E r \in P : r.do = s.do /\ r.doc = d /\ r.name = n /\ y \in r.val
      BY <1>0, <2>2
    <3>2. ASSUME NEW s \in P, s.doc = d, s.name = n, y \in s.val
          PROVE  \E r \in Q : r.do = s.do /\ r.doc = d /\ r.name = n /\ y \in r.val
      <4>1. CASE s = h
        <5>1. PICK g \in G : TRUE
          BY <2>2, <2>5, <3>2, <4>1
        <5>2. g \in Q /\ g.do = s.do /\ g.doc = d /\ g.name = n /\ y \in g.val
          BY <2>2, <2>5, <3>2, <4>1
        <5> QED
          BY <5>2
      <4> QED
        BY <4>1, <3>2, <1>0
    <3> QED
      BY <3>1, <3>2 DEF Adding, Deleting
  <2>6. CASE ~ (h.doc = d /\ h.name = n /\ y = x)
    <3>1. y \in cat'[d][n] <=> y \in cat[d][n]
      BY <2>3, <2>4, <2>6
    <3> QED
      BY <3>1, <2>5, <2>6
  <2>7. CASE h.doc = d /\ h.name = n /\ y = x /\ h.do = "add"
    <3>1. Adding(P, d, n, y) /\ y \in cat'[d][n]
      BY <1>0, <2>3, <2>4, <2>7 DEF Adding
    <3>2. ~Deleting(Q, d, n, y)
      BY <1>0, <1>1, <1>2, <2>7 DEF Deleting, Coherent
    <3> QED
      BY <3>1, <3>2
  <2>8. CASE h.doc = d /\ h.name = n /\ y = x /\ h.do = "del"
    <3>1. Deleting(P, d, n, y) /\ y \notin cat'[d][n]
      BY <1>0, <2>3, <2>4, <2>8 DEF Deleting
    <3>2. ~Adding(Q, d, n, y) /\ ~Adding(P, d, n, y)
      BY <1>0, <1>1, <1>2, <2>8 DEF Adding, Coherent
    <3> QED
      BY <3>1, <3>2
  <2> QED
    BY <2>3, <2>6, <2>7, <2>8
<1>4. CASE ~ \E x : TookSet(h, R, x)
  <2>1. cat'[d][n] = cat[d][n] /\ h.do \notin {"add", "del"}
    BY <1>4, <1>1 DEF Took, TookColl, TookLoad, TookAlias, TookUnalias, TookQuiet, Quiet,
         Raised, TookMake, TookMove, TookRemove
  <2>2. /\ Adding(Q, d, n, y) <=> Adding(P, d, n, y)
        /\ Deleting(Q, d, n, y) <=> Deleting(P, d, n, y)
    BY <2>1, <1>0, <1>2 DEF Adding, Deleting
  <2> QED
    BY <2>1, <2>2
<1> QED
  BY <1>3, <1>4

LEMMA WillHaveStays ==
    ASSUME NEW h, NEW R, Facing(h, R), ~Raised(h), NEW n \in Names, NEW p \in Parts
    PROVE  WillHave(dir', Range(todo'), n, p) <=> WillHave(dir, Range(todo), n, p)
<1> DEFINE P == Range(todo)  Q == Range(todo')
<1>0. P = {h} \cup R /\ R \subseteq Q /\ \A r \in R : Before(h, r)
  BY NothingLost DEF Facing
<1>1. Renaming(P) /\ h \in AStep /\ R \subseteq AStep /\ TypeOK
  BY DEF Facing, IInv
<1>2. \A s \in Q : s.do \in {"mkdir", "move"} => s \in R
  BY NothingNew
<1>3. CASE h.do \notin {"mkdir", "move"}
  <2>1. (\E s \in P : s.do = "mkdir" /\ s.name = n /\ s.val = p)
           <=> \E s \in Q : s.do = "mkdir" /\ s.name = n /\ s.val = p
    BY <1>0, <1>2, <1>3
  \* While a move is left, directories stay.
  <2>2. \A s \in R : s.do = "move" => dir' = dir
    BY <1>0, <1>3, Changes DEF Before
  <2>3. (\E s \in P : s.do = "move" /\ s.val = n /\ dir[s.name][p] # None)
           <=> \E s \in Q : s.do = "move" /\ s.val = n /\ dir'[s.name][p] # None
    BY <1>0, <1>2, <1>3, <2>2
  <2>4. CASE dir'[n][p] # None
    <3>1. /\ dir'[n][p] = dir[n][p]
          /\ Removing(P, n, p) <=> Removing(Q, n, p)
          /\ Moving(P, n) <=> Moving(Q, n)
      BY <1>3, <2>4, StillRemoved
    <3> QED
      BY <2>1, <2>3, <3>1 DEF WillHave
  <2>5. CASE dir'[n][p] = None
    <3>1. dir[n][p] # None => Removing(P, n, p)
      <4>1. CASE h.do # "rmdir"
        BY <4>1, <2>5, <1>3, Changes
      <4>2. CASE h.do = "rmdir"
        <5>1. CASE TookQuiet(h, R)
          BY <5>1, <2>5 DEF TookQuiet, Quiet
        <5>2. ASSUME NEW m \in Names, NEW q \in Parts, TookRemove(h, R, m, q)
              PROVE  dir[n][p] # None => Removing(P, n, p)
          BY <5>2, <4>2, <2>5, <1>0 DEF TookRemove, Looped, Removing
        <5> QED
          BY <5>1, <5>2, <4>2, Changes
      <4> QED
        BY <4>1, <4>2
    <3> QED
      BY <2>1, <2>3, <2>5, <3>1 DEF WillHave
  <2> QED
    BY <2>4, <2>5
<1>4. CASE h.do = "mkdir"
  <2>1. TookMake(h, R)
    BY <1>4, Changes
  <2>2. Q = R /\ \A r \in R : r.do = "put"
    BY <2>1, <1>0, <1>4 DEF TookMake, Before
  <2>3. ~Removing(Q, n, p) /\ ~Moving(Q, n) /\ ~Removing(P, n, p) /\ ~Moving(P, n)
    BY <2>2, <1>0, <1>4 DEF Removing, Moving
  <2>4. WillHave(dir', Q, n, p) <=> dir'[n][p] # None
    BY <2>2, <2>3 DEF WillHave
  <2>5. WillHave(dir, P, n, p) <=> (h.name = n /\ h.val = p) \/ dir[n][p] # None
    BY <2>2, <2>3, <1>0, <1>4 DEF WillHave
  <2>6. clock # None
    BY <2>1, LifecycleAssumption DEF TookMake, Ids
  <2> QED
    BY <2>1, <2>4, <2>5, <2>6 DEF TookMake
<1>5. CASE h.do = "move"
  <2>1. TookMove(h, R)
    BY <1>5, Changes
  <2>2. Q = R /\ \A r \in R : r.do \notin {"mkdir", "move", "rmdir"}
    BY <2>1, <1>0, <1>5 DEF TookMove, Before
  <2>3. ~Removing(Q, n, p) /\ ~Moving(Q, n) /\ ~Removing(P, n, p)
        /\ (Moving(P, n) <=> h.name = n)
    BY <2>2, <1>0, <1>5 DEF Removing, Moving
  <2>4. WillHave(dir', Q, n, p) <=> dir'[n][p] # None
    BY <2>2, <2>3 DEF WillHave
  <2>5. WillHave(dir, P, n, p) <=>
            (h.val = n /\ dir[h.name][p] # None) \/ (dir[n][p] # None /\ h.name # n)
    BY <2>2, <2>3, <1>0, <1>5 DEF WillHave
  <2>6. h.name # h.val /\ dir[h.val] = NoDirs /\ h.val \in Names
    BY <2>1, <1>0, <1>1, <1>5, Fields DEF Renaming, TookMove
  <2>7. h.val = n => dir[n][p] = None
    BY <2>6 DEF NoDirs
  <2> QED
    BY <2>1, <2>4, <2>5, <2>6, <2>7 DEF TookMove
<1> QED
  BY <1>3, <1>4, <1>5

LEMMA OutlookStays ==
    ASSUME NEW h, NEW R, Facing(h, R)
    PROVE  Outlook(Range(todo))'
<1> DEFINE P == Range(todo)  Q == Range(todo')
<1>0. P = {h} \cup R /\ \A r \in R : Before(h, r)
  BY DEF Facing
<1>1. /\ Outlook(P) /\ h \in AStep /\ TypeOK
      /\ UNCHANGED <<torn, defined, faults>>
  BY DEF Facing, IInv, Kept
<1> SUFFICES ASSUME faults = 0
             PROVE  /\ Possible(Range(todo))' /\ ~torn'
                    /\ \A n \in Names : Sound(defined, Range(todo), n)'
  BY <1>1 DEF Outlook
<1>2. Possible(P) /\ ~torn /\ \A n \in Names : Sound(defined, P, n)
  BY <1>1 DEF Outlook
<1>3. ~Raised(h)
  BY <1>0, <1>2 DEF Raised, Possible
<1>4. Possible(Range(todo))'
  <2>1. \A s \in Q : s.do \in {"mkdir", "move"} =>
            s \in R /\ h.do \notin {"mkdir", "rmdir", "move"}
    BY <1>0, NothingNew DEF Before
  <2>2. \A s \in Q : s.do \in {"mkdir", "move"} => s \in P /\ dir' = dir
    BY <1>0, <2>1, Changes
  <2>3. \A s \in Q : /\ s.do = "mkdir" => dir'[s.name][s.val] = None
                     /\ s.do = "move" => dir'[s.val] = NoDirs /\ dir'[s.name] # NoDirs
    BY <2>2, <1>2 DEF Possible
  <2> QED
    BY <2>3 DEF Possible
<1>5. ASSUME NEW n \in Names PROVE Sound(defined, Range(todo), n)'
  <2>1. /\ \A m \in Names : Will(cat', Q, "coll", m) = Will(cat, P, "coll", m)
        /\ \A m \in Names : Will(cat', Q, "load", m) = Will(cat, P, "load", m)
        /\ \A m \in Names : WillAlias(cat', Q, m) = WillAlias(cat, P, m)
    BY <1>3, WillStays
  <2>2. /\ WillAll(cat', Q, "part", n) = WillAll(cat, P, "part", n)
        /\ WillAll(cat', Q, "index", n) = WillAll(cat, P, "index", n)
    BY <1>3, WillAllStays
  <2>3. \A p \in Parts : WillHave(dir', Q, n, p) <=> WillHave(dir, P, n, p)
    BY <1>3, WillHaveStays
  <2>4. Sound(defined, P, n)
    BY <1>2
  <2> HIDE DEF P, Q
  <2> DEFINE c == Will(cat', Q, "coll", n)
  <2>5. /\ \A p \in Parts : WillHave(dir', Q, n, p) <=> c # None /\ p \in WillAll(cat', Q, "part", n)
        /\ c # None <=> Will(cat', Q, "load", n) # None
        /\ c = None => /\ WillAll(cat', Q, "part", n) = {} /\ WillAll(cat', Q, "index", n) = {}
                       /\ \A a \in Names : WillAlias(cat', Q, a) # n
        /\ c # None =>
              /\ Default \in WillAll(cat', Q, "part", n)
              /\ WillAll(cat', Q, "index", n) = {i \in Indexes : <<c, i>> \in defined'}
              /\ \A m \in Names : Will(cat', Q, "coll", m) = c => m = n
    BY <2>1, <2>2, <2>3, <2>4, <1>1 DEF Sound
  <2> QED
    BY <2>5 DEF Sound, Q
<1> QED
  BY <1>1, <1>2, <1>4, <1>5

LEMMA StepKeeps ==
    ASSUME TypeOK, IInv, Step
    PROVE  TypeOK' /\ IInv'
<1>1. Ordered(todo)
  BY DEF IInv
<1>2. TypeOK' /\ Ordered(todo') /\ Kept
  BY <1>1, Effects
<1>3. PICK h \in AStep, R \in SUBSET AStep :
          /\ Range(todo) = {h} \cup R /\ \A r \in R : Before(h, r)
          /\ Took(h, R)
  BY <1>1, Effects
<1>4. Facing(h, R)
  BY <1>2, <1>3 DEF Facing
<1>5. Coherent(Range(todo'))
  BY <1>4, CoherentStays
<1>6. CollPuts(Range(todo))' /\ Making(Range(todo))' /\ Renaming(Range(todo))'
  BY <1>4, CollPutsStays, MakingStays, RenamingStays
<1>7. Owned(Range(todo))' /\ Dropping(Range(todo))' /\ Outlook(Range(todo))' /\ Dated'
  BY <1>4, OwnedStays, DroppingStays, OutlookStays, DatedStays
<1> QED
  BY <1>2, <1>5, <1>6, <1>7 DEF IInv

-----------------------------------------------------------------------------
(* A request keeps the invariant                                           *)

\* What is stored agrees about name n.
Tidy(n) ==
    /\ \A p \in Parts : dir[n][p] # None <=> cat.coll[n] # None /\ p \in cat.part[n]
    /\ cat.coll[n] # None <=> cat.load[n] # None
    /\ cat.coll[n] = None =>
          cat.part[n] = {} /\ cat.index[n] = {} /\ \A a \in Names : cat.alias[a] # n
    /\ cat.coll[n] # None =>
          /\ Default \in cat.part[n]
          /\ cat.index[n] = {i \in Indexes : <<cat.coll[n], i>> \in defined}
          /\ \A m \in Names : cat.coll[m] = cat.coll[n] => m = n

\* Between requests.
LEMMA Idle ==
    ASSUME TypeOK, IInv, todo = <<>>
    PROVE  /\ ~torn => \A n \in Names, p \in Parts : dir[n][p] # None =>
                          home[dir[n][p]] # None /\ cat.coll[n] = home[dir[n][p]]
           /\ faults = 0 => ~torn /\ \A n \in Names : Tidy(n)
<1>1. Range(todo) = {}
  BY Empty
<1>2. Owned({}) /\ Outlook({})
  BY <1>1 DEF IInv
<1>3. ~torn => \A n \in Names, p \in Parts : dir[n][p] # None =>
                          home[dir[n][p]] # None /\ cat.coll[n] = home[dir[n][p]]
  BY <1>2 DEF Owned, Putting
<1>4. ASSUME faults = 0, NEW n \in Names PROVE Tidy(n)
  <2>1. Sound(defined, {}, n)
    BY <1>2, <1>4 DEF Outlook
  <2>2. \A m \in Names : /\ Will(cat, {}, "coll", m) = cat.coll[m]
                         /\ Will(cat, {}, "load", m) = cat.load[m]
                         /\ WillAlias(cat, {}, m) = cat.alias[m]
    BY DEF Will, WillAlias, Unaliasing
  <2>3. WillAll(cat, {}, "part", n) = cat.part[n] /\ WillAll(cat, {}, "index", n) = cat.index[n]
    BY DEF WillAll, Adding, Deleting, Docs, TypeOK
  <2>4. \A p \in Parts : WillHave(dir, {}, n, p) <=> dir[n][p] # None
    BY DEF WillHave, Removing, Moving
  <2> QED
    BY <2>1, <2>2, <2>3, <2>4 DEF Sound, Tidy
<1> QED
  BY <1>2, <1>3, <1>4 DEF Outlook

\* A request may begin with the steps t, and have the indexes D be defined.
Feasible(t, D) ==
    LET P == Range(t)
    IN  /\ t \in Seq(AStep) /\ Ordered(t) /\ Coherent(P)
        /\ D \in SUBSET (Ids \X Indexes) /\ \A d \in D : d[1] <= clock + 1
        /\ \A n \in Names : \A s \in P : Puts(s, "coll", n) =>
              IF s.val = None
              THEN \A p \in Parts : dir[n][p] # None => Moving(P, n) \/ Removing(P, n, p)
              ELSE cat.coll[n] = None /\ s.val <= clock + 1
        /\ \A s \in P : s.do = "mkdir" =>
              /\ cat.coll[s.name] = s.for \/ Putting(P, s.name, s.for)
              /\ \A r \in P : \A n \in Names :
                    Puts(r, "coll", n) => n = s.name /\ r.val = s.for /\ r.val = clock + 1
        /\ \A s \in P : s.do = "move" =>
              /\ s.name # s.val /\ cat.coll[s.name] # None
              /\ Putting(P, s.val, cat.coll[s.name])
        /\ Dropping(P)
        /\ faults = 0 => Possible(P) /\ \A n \in Names : Sound(D, P, n)

LEMMA BeginKeeps ==
    ASSUME TypeOK, IInv, NEW t, Begin(t), Feasible(t, defined')
    PROVE  TypeOK' /\ IInv'
<1>1. /\ todo = <<>> /\ clock < MaxRequests /\ clock' = clock + 1 /\ todo' = t
      /\ UNCHANGED <<cat, dir, home, torn, faults>>
  BY DEF Begin, disk
<1>2. /\ clock \in Nat /\ clock + 1 \in 0 .. MaxRequests /\ clock + 1 # 0
  BY <1>1, LifecycleAssumption DEF TypeOK
<1>3. TypeOK'
  BY <1>1, <1>2 DEF TypeOK, Feasible
<1>4. /\ \A n \in Names : cat.coll[n] # None => cat.coll[n] <= clock /\ cat.coll[n] # clock + 1
      /\ \A n \in Names, p \in Parts :
            dir[n][p] # None => dir[n][p] <= clock /\ dir[n][p] # clock + 1
  BY <1>2 DEF IInv, Dated, TypeOK, Ids
<1>5. clock + 1 # None
  BY <1>2, LifecycleAssumption
<1> DEFINE P == Range(t)
<1>6. Range(todo') = P
  BY <1>1
<1>7. Ordered(todo') /\ Coherent(P)
  BY <1>1 DEF Feasible
<1>8. CollPuts(Range(todo))'
  BY <1>1 DEF Feasible, CollPuts, Moving, Removing, Puts
<1>9. Making(Range(todo))'
  <2>1. \A n \in Names, p \in Parts : dir[n][p] # clock + 1
    BY <1>4, <1>5
  <2> QED
    BY <1>1, <2>1 DEF Feasible, Making, Putting, Puts
<1>10. Renaming(Range(todo))'
  <2>1. \A s \in P : s.do = "move" => s.name \in Names
    BY RangeOfSeq, Fields DEF Feasible
  <2> QED
    BY <1>1, <1>4, <2>1 DEF Feasible, Renaming, Putting, Puts
<1>11. Owned(Range(todo))'
  BY <1>1, Idle DEF Owned
<1>12. Dropping(Range(todo))'
  <2>1. Dropping(P)
    BY DEF Feasible
  <2> QED
    BY <1>1, <2>1 DEF Dropping, Empties, Removing, Deleting, Unaliasing, Puts
<1>13. Dated'
  <2>1. \A x \in Ids : x <= clock => x <= clock + 1
    BY <1>2 DEF Ids
  <2>2. \A n \in Names : cat.coll[n] # None => cat.coll[n] \in Ids
    BY DEF TypeOK
  <2>3. \A n \in Names, p \in Parts : dir[n][p] # None => dir[n][p] \in Ids
    BY DEF TypeOK
  <2> QED
    BY <1>1, <1>4, <2>1, <2>2, <2>3 DEF Feasible, Dated
<1>14. Outlook(Range(todo))'
  <2>1. faults = 0 => Possible(P) /\ \A n \in Names : Sound(defined', P, n)
    BY DEF Feasible
  <2>2. faults = 0 => ~torn
    BY <1>1, Idle
  <2>3. Possible(P) => Possible(Range(todo))'
    BY <1>1 DEF Possible
  <2>4. \A n \in Names : Sound(defined', P, n) => Sound(defined, Range(todo), n)'
    BY <1>1 DEF Sound
  <2> QED
    BY <1>1, <2>1, <2>2, <2>3, <2>4 DEF Outlook
<1> QED
  BY <1>3, <1>6, <1>7, <1>8, <1>9, <1>10, <1>11, <1>12, <1>13, <1>14 DEF IInv

LEMMA Pair ==
    ASSUME NEW s \in AStep, NEW r \in AStep, Before(s, r)
    PROVE  <<s, r>> \in Seq(AStep) /\ Range(<<s, r>>) = {s, r} /\ Ordered(<<s, r>>)
<1>1. <<s, r>> \in Seq(AStep) /\ DOMAIN <<s, r>> = 1 .. 2 /\ <<s, r>>[1] = s /\ <<s, r>>[2] = r
  OBVIOUS
<1>2. \A i, j \in 1 .. 2 : i < j => i = 1 /\ j = 2
  OBVIOUS
<1>3. 1 \in 1 .. 2 /\ 2 \in 1 .. 2 /\ \A i \in 1 .. 2 : i = 1 \/ i = 2
  OBVIOUS
<1>4. Range(<<s, r>>) = {s, r}
  BY <1>1, <1>3 DEF Range
<1> QED
  BY <1>1, <1>2, <1>4 DEF Ordered

\* A request that changes neither collections, nor partitions, nor directories.
Plain(P) ==
    \A s \in P : /\ s.do \in {"db", "put", "add", "del", "unalias", "tell"}
                 /\ s.do = "put" => s.doc # "coll"
                 /\ s.do \in {"add", "del"} => s.doc = "index"

LEMMA PlainFeasible ==
    ASSUME TypeOK, IInv, todo = <<>>, NEW t \in Seq(AStep), Ordered(t), Coherent(Range(t)),
           Plain(Range(t)), Dropping(Range(t)),
           NEW D \in SUBSET (Ids \X Indexes), \A d \in D : d[1] <= clock + 1,
           faults = 0 => \A n \in Names :
              /\ Will(cat, Range(t), "load", n) # None <=> cat.load[n] # None
              /\ \A a \in Names : WillAlias(cat, Range(t), a) = n => cat.coll[n] # None
              /\ WillAll(cat, Range(t), "index", n) =
                    IF cat.coll[n] = None THEN {} ELSE {i \in Indexes : <<cat.coll[n], i>> \in D}
    PROVE  Feasible(t, D)
<1> DEFINE P == Range(t)
<1>1. \A s \in P : s.do \notin {"mkdir", "move", "rmdir"} /\ ~ (s.do = "put" /\ s.doc = "coll")
  BY DEF Plain
<1>2. ASSUME faults = 0, NEW n \in Names PROVE Sound(D, P, n)
  <2>1. Tidy(n)
    BY <1>2, Idle
  <2>2. \A m \in Names : Will(cat, P, "coll", m) = cat.coll[m]
    BY <1>1, WillStand DEF Puts
  <2>3. WillAll(cat, P, "part", n) = cat.part[n]
    BY DEF WillAll, Adding, Deleting, Docs, TypeOK, Plain
  <2>4. \A p \in Parts : WillHave(dir, P, n, p) <=> dir[n][p] # None
    BY <1>1 DEF WillHave, Removing, Moving
  <2> HIDE DEF P
  <2>5. /\ Will(cat, P, "load", n) # None <=> cat.load[n] # None
        /\ \A a \in Names : WillAlias(cat, P, a) = n => cat.coll[n] # None
        /\ WillAll(cat, P, "index", n) =
              IF cat.coll[n] = None THEN {} ELSE {i \in Indexes : <<cat.coll[n], i>> \in D}
    BY <1>2 DEF P
  <2> QED
    BY <2>1, <2>2, <2>3, <2>4, <2>5 DEF Sound, Tidy
<1>3. Possible(P)
  BY <1>1 DEF Possible
<1> QED
  BY <1>1, <1>2, <1>3 DEF Feasible, Puts

\* Requests that write one document, or a document and a message.
LEMMA OneStepFeasible ==
    ASSUME TypeOK, IInv, todo = <<>>, NEW s \in AStep, Plain({s}),
           s.do # "tell",
           NEW D \in SUBSET (Ids \X Indexes), \A d \in D : d[1] <= clock + 1,
           faults = 0 => \A n \in Names :
              /\ Will(cat, {s}, "load", n) # None <=> cat.load[n] # None
              /\ \A a \in Names : WillAlias(cat, {s}, a) = n => cat.coll[n] # None
              /\ WillAll(cat, {s}, "index", n) =
                    IF cat.coll[n] = None THEN {} ELSE {i \in Indexes : <<cat.coll[n], i>> \in D}
    PROVE  Feasible(<<s>>, D)
<1>1. <<s>> \in Seq(AStep) /\ Range(<<s>>) = {s} /\ Ordered(<<s>>)
  BY Single
<1>2. Coherent({s}) /\ Dropping({s})
  BY DEF Coherent, Dropping, Puts
<1> QED
  BY <1>1, <1>2, PlainFeasible

\* The indexes that are defined, in a tidy state.
LEMMA TidyIndexes ==
    ASSUME TypeOK, IInv, todo = <<>>, faults = 0, NEW n \in Names
    PROVE  cat.index[n] = IF cat.coll[n] = None THEN {}
                          ELSE {i \in Indexes : <<cat.coll[n], i>> \in defined}
<1>1. Tidy(n)
  BY Idle
<1> QED
  BY <1>1 DEF Tidy

\* What a step that is not about a document leaves of it.
LEMMA Untouched ==
    ASSUME TypeOK, NEW P, NEW n \in Names
    PROVE  /\ (\A s \in P : s.do = "put" => s.doc # "load") =>
                 Will(cat, P, "load", n) = cat.load[n]
           /\ (\A s \in P : s.do # "unalias" /\ (s.do = "put" => s.doc # "alias")) =>
                 WillAlias(cat, P, n) = cat.alias[n]
           /\ (\A s \in P : s.do \notin {"add", "del"}) =>
                 WillAll(cat, P, "index", n) = cat.index[n]
<1>1. ASSUME \A s \in P : s.do = "put" => s.doc # "load"
      PROVE  Will(cat, P, "load", n) = cat.load[n]
  BY <1>1 DEF Will, Puts
<1>2. ASSUME \A s \in P : s.do # "unalias" /\ (s.do = "put" => s.doc # "alias")
      PROVE  WillAlias(cat, P, n) = cat.alias[n]
  BY <1>2 DEF Will, WillAlias, Unaliasing, Puts
<1>3. ASSUME \A s \in P : s.do \notin {"add", "del"}
      PROVE  WillAll(cat, P, "index", n) = cat.index[n]
  <2>1. cat.index[n] \subseteq Indexes
    BY DEF TypeOK
  <2> QED
    BY <1>3, <2>1 DEF WillAll, Adding, Deleting, Docs
<1> QED
  BY <1>1, <1>2, <1>3

LEMMA ResolveIs == ASSUME TypeOK, NEW x \in Names PROVE Resolve(x) \in Names
BY DEF Resolve, TypeOK

LEMMA DefinedDated ==
    ASSUME TypeOK, IInv
    PROVE  /\ defined \in SUBSET (Ids \X Indexes) /\ \A d \in defined : d[1] <= clock + 1
           /\ \A n \in Names : cat.coll[n] # None => cat.coll[n] <= clock + 1
<1>1. \A d \in defined : d[1] \in Ids /\ d[1] <= clock
  BY DEF IInv, Dated, TypeOK
<1>2. \A n \in Names : cat.coll[n] # None => cat.coll[n] \in Ids /\ cat.coll[n] <= clock
  BY DEF IInv, Dated, TypeOK
<1>3. clock \in Nat /\ \A i \in Ids : i <= clock => i <= clock + 1
  BY LifecycleAssumption DEF TypeOK, Ids
<1> QED
  BY <1>1, <1>2, <1>3 DEF TypeOK

LEMMA DbSteps == \A v \in BOOLEAN : PutDb(v) \in AStep /\ PutDb(v).do = "db"
<1> DEFINE S == {PutDb(v) : v \in BOOLEAN}
<1>1. Documents = S \cup (Documents \ S)
  BY DEF Documents
<1>2. \A v \in BOOLEAN : PutDb(v) \in S /\ PutDb(v).do = "db"
  BY DEF PutDb
<1> HIDE DEF S
<1> QED
  BY <1>1, <1>2 DEF AStep

LEMMA CreateDatabaseKeeps ==
    ASSUME TypeOK, IInv, CreateDatabase
    PROVE  TypeOK' /\ IInv'
<1> DEFINE s == PutDb(TRUE)
<1>1. Begin(<<s>>) /\ defined' = defined /\ todo = <<>>
  BY DEF CreateDatabase, Request, Begin
<1>2. s \in AStep /\ s.do = "db"
  BY DbSteps
<1> HIDE DEF s
<1>3. Plain({s}) /\ s.do # "tell"
  BY <1>2 DEF Plain
<1>4. ASSUME faults = 0, NEW n \in Names
      PROVE  /\ Will(cat, {s}, "load", n) # None <=> cat.load[n] # None
             /\ \A a \in Names : WillAlias(cat, {s}, a) = n => cat.coll[n] # None
             /\ WillAll(cat, {s}, "index", n) =
                   IF cat.coll[n] = None THEN {} ELSE {i \in Indexes : <<cat.coll[n], i>> \in defined}
  <2>1. /\ Will(cat, {s}, "load", n) = cat.load[n]
        /\ WillAll(cat, {s}, "index", n) = cat.index[n]
    BY <1>2, Untouched
  <2>2. \A a \in Names : WillAlias(cat, {s}, a) = cat.alias[a]
    BY <1>2, Untouched
  <2>3. Tidy(n)
    BY <1>1, <1>4, Idle
  <2> QED
    BY <2>1, <2>2, <2>3, <1>1, <1>4, TidyIndexes DEF Tidy
<1>5. Feasible(<<s>>, defined)
  BY <1>1, <1>2, <1>3, <1>4, DefinedDated, OneStepFeasible
<1> QED
  BY <1>1, <1>5, BeginKeeps

LEMMA AliasKeeps ==
    ASSUME TypeOK, IInv,
           NEW a \in Names, NEW n \in Names, CreateAlias(a, n) \/ AlterAlias(a, n)
    PROVE  TypeOK' /\ IInv'
<1> DEFINE s == PutAlias(a, n)
<1>1. Begin(<<s>>) /\ defined' = defined /\ todo = <<>> /\ cat.coll[n] # None
  BY DEF CreateAlias, AlterAlias, Request, Begin, Exists
<1>2. s \in AStep /\ s.do = "put" /\ s.doc = "alias" /\ s.name = a /\ s.val = n
  BY DEF AStep, Documents, PutAlias
<1> HIDE DEF s
<1>3. Plain({s}) /\ s.do # "tell" /\ Coherent({s})
  BY <1>2 DEF Plain, Coherent, Puts
<1>4. ASSUME faults = 0, NEW m \in Names
      PROVE  /\ Will(cat, {s}, "load", m) # None <=> cat.load[m] # None
             /\ \A b \in Names : WillAlias(cat, {s}, b) = m => cat.coll[m] # None
             /\ WillAll(cat, {s}, "index", m) =
                   IF cat.coll[m] = None THEN {} ELSE {i \in Indexes : <<cat.coll[m], i>> \in defined}
  <2>1. /\ Will(cat, {s}, "load", m) = cat.load[m]
        /\ WillAll(cat, {s}, "index", m) = cat.index[m]
    BY <1>2, Untouched
  <2>2. ASSUME NEW b \in Names, WillAlias(cat, {s}, b) = m PROVE cat.coll[m] # None
    <3>1. ~Unaliasing({s}, b)
      BY <1>2 DEF Unaliasing
    <3>2. CASE b = a
      <4>1. Puts(s, "alias", b)
        BY <1>2, <3>2 DEF Puts
      <4>2. Will(cat, {s}, "alias", b) = s.val
        <5> DEFINE P == {s}
        <5>1. Coherent(P) /\ s \in P
          BY <1>3
        <5> HIDE DEF P
        <5>2. Will(cat, P, "alias", b) = s.val
          BY <5>1, <4>1, WillPut
        <5> QED
          BY <5>2 DEF P
      <4> QED
        BY <4>2, <3>1, <2>2, <1>1, <1>2 DEF WillAlias
    <3>3. CASE b # a
      <4>1. \A r \in {s} : ~Puts(r, "alias", b)
        BY <1>2, <3>3 DEF Puts
      <4>2. Will(cat, {s}, "alias", b) = cat["alias"][b]
        BY <4>1, WillStand
      <4>3. Tidy(m)
        BY <1>1, <1>4, Idle
      <4> QED
        BY <4>2, <4>3, <3>1, <2>2 DEF WillAlias, Tidy
    <3> QED
      BY <3>2, <3>3
  <2> QED
    BY <2>1, <2>2, <1>1, <1>4, TidyIndexes
<1>5. Feasible(<<s>>, defined)
  BY <1>1, <1>2, <1>3, <1>4, DefinedDated, OneStepFeasible
<1> QED
  BY <1>1, <1>5, BeginKeeps

LEMMA DropAliasKeeps ==
    ASSUME TypeOK, IInv, NEW a \in Names, DropAlias(a)
    PROVE  TypeOK' /\ IInv'
<1> DEFINE s == Unalias({a})
<1>1. Begin(<<s>>) /\ defined' = defined /\ todo = <<>>
  BY DEF DropAlias, Request, Begin, DelAliases, ForEach, Unalias
<1>2. s \in AStep /\ s.do = "unalias" /\ s.val = {a}
  BY DEF AStep, Documents, Unalias
<1> HIDE DEF s
<1>3. Plain({s}) /\ s.do # "tell"
  BY <1>2 DEF Plain
<1>4. ASSUME faults = 0, NEW m \in Names
      PROVE  /\ Will(cat, {s}, "load", m) # None <=> cat.load[m] # None
             /\ \A b \in Names : WillAlias(cat, {s}, b) = m => cat.coll[m] # None
             /\ WillAll(cat, {s}, "index", m) =
                   IF cat.coll[m] = None THEN {} ELSE {i \in Indexes : <<cat.coll[m], i>> \in defined}
  <2>1. /\ Will(cat, {s}, "load", m) = cat.load[m]
        /\ WillAll(cat, {s}, "index", m) = cat.index[m]
    BY <1>2, Untouched
  <2>2. \A b \in Names : WillAlias(cat, {s}, b) = m => cat.alias[b] = m
    BY <1>2, LifecycleAssumption DEF WillAlias, Unaliasing, Will, Puts
  <2>3. Tidy(m)
    BY <1>1, <1>4, Idle
  <2> QED
    BY <2>1, <2>2, <2>3, <1>1, <1>4, TidyIndexes DEF Tidy
<1>5. Feasible(<<s>>, defined)
  BY <1>1, <1>2, <1>3, <1>4, DefinedDated, OneStepFeasible
<1> QED
  BY <1>1, <1>5, BeginKeeps

LEMMA IndexKeeps ==
    ASSUME TypeOK, IInv, NEW x \in Names, NEW i \in Indexes, CreateIndex(x, i) \/ DropIndex(x, i)
    PROVE  TypeOK' /\ IInv'
<1> DEFINE n == Resolve(x)
           s == IF CreateIndex(x, i) THEN Add("index", n, {i}) ELSE Del("index", n, {i})
<1>0. n \in Names
  BY ResolveIs
<1>1. /\ Begin(<<s>>) /\ todo = <<>>
      /\ \/ /\ s = Add("index", n, {i}) /\ cat.coll[n] # None
            /\ defined' = defined \cup {<<cat.coll[n], i>>}
         \/ /\ s = Del("index", n, {i}) /\ i \in cat.index[n]
            /\ defined' = defined \ {<<cat.coll[n], i>>}
  BY DEF CreateIndex, DropIndex, Begin, PutIndexes, DelIndexes, ForEach, Add, Del, Exists
<1> HIDE DEF s, n
<1>2. /\ s \in AStep /\ s.do \in {"add", "del"} /\ s.doc = "index" /\ s.name = n /\ s.val = {i}
      /\ (s.do = "add" => cat.coll[n] # None /\ defined' = defined \cup {<<cat.coll[n], i>>})
      /\ (s.do = "del" => i \in cat.index[n] /\ defined' = defined \ {<<cat.coll[n], i>>})
  BY <1>0, <1>1 DEF AStep, Documents, Add, Del
<1>3. Plain({s}) /\ s.do # "tell"
  BY <1>2 DEF Plain
<1>4. ASSUME faults = 0, NEW m \in Names
      PROVE  /\ Will(cat, {s}, "load", m) # None <=> cat.load[m] # None
             /\ \A b \in Names : WillAlias(cat, {s}, b) = m => cat.coll[m] # None
             /\ WillAll(cat, {s}, "index", m) =
                   IF cat.coll[m] = None THEN {} ELSE {j \in Indexes : <<cat.coll[m], j>> \in defined'}
  <2>1. Will(cat, {s}, "load", m) = cat.load[m]
    BY <1>2, Untouched
  <2>2. \A b \in Names : WillAlias(cat, {s}, b) = cat.alias[b]
    BY <1>2, Untouched
  <2>3. Tidy(m) /\ Tidy(n)
    BY <1>0, <1>1, <1>4, Idle
  <2>4. cat.index[m] = IF cat.coll[m] = None THEN {}
                       ELSE {j \in Indexes : <<cat.coll[m], j>> \in defined}
    BY <1>1, <1>4, TidyIndexes
  <2>5. WillAll(cat, {s}, "index", m) =
           IF m # n THEN cat.index[m]
           ELSE IF s.do = "add" THEN cat.index[m] \cup {i} ELSE cat.index[m] \ {i}
    <3>1. cat.index[m] \subseteq Indexes
      BY DEF TypeOK
    <3> QED
      BY <3>1, <1>2 DEF WillAll, Adding, Deleting, Docs
  <2>6. cat.coll[n] # None
    BY <1>0, <1>2, <2>3 DEF Tidy
  <2>7. CASE m = n
    BY <1>2, <2>4, <2>5, <2>6, <2>7, <2>1, <2>2
  <2>8. CASE m # n
    <3>1. cat.coll[m] # cat.coll[n]
      BY <2>3, <2>6, <2>8 DEF Tidy
    <3>2. \A j : <<cat.coll[m], j>> \in defined <=> <<cat.coll[m], j>> \in defined'
      BY <3>1, <1>2
    <3>3. \A b \in Names : cat.alias[b] = m => cat.coll[m] # None
      BY <2>3 DEF Tidy
    <3> QED
      BY <3>2, <3>3, <2>1, <2>2, <2>4, <2>5, <2>8
  <2> QED
    BY <2>7, <2>8
<1>5. defined' \in SUBSET (Ids \X Indexes) /\ \A d \in defined' : d[1] <= clock + 1
  <2>1. cat.coll[n] # None => cat.coll[n] \in Ids
    BY <1>0 DEF TypeOK
  <2> QED
    BY <2>1, <1>0, <1>2, DefinedDated
<1>6. Feasible(<<s>>, defined')
  BY <1>1, <1>2, <1>3, <1>4, <1>5, OneStepFeasible
<1> QED
  BY <1>1, <1>6, BeginKeeps

LEMMA LoadKeeps ==
    ASSUME TypeOK, IInv, NEW x \in Names, Load(x) \/ Release(x)
    PROVE  TypeOK' /\ IInv'
<1> DEFINE n == Resolve(x)
           v == Load(x)
           s == PutLoad(n, v)
           r == IF v THEN Tell("open", n, ListPartitions(n)) ELSE Tell("close", n, {})
<1>0. n \in Names
  BY ResolveIs
<1>1. /\ Begin(<<s, r>>) /\ todo = <<>> /\ cat.coll[n] # None /\ defined' = defined
      /\ v \in BOOLEAN
  BY DEF Load, Release, Begin, Request, Exists
<1>2. ListPartitions(n) \subseteq Parts
  BY <1>0, LifecycleAssumption DEF ListPartitions, TypeOK
<1> HIDE DEF v, n
<1>3. /\ s \in AStep /\ s.do = "put" /\ s.doc = "load" /\ s.name = n /\ s.val = v
      /\ r \in AStep /\ r.do = "tell" /\ r.name = n
  <2>1. s \in AStep
    BY <1>0, <1>1 DEF AStep, Documents
  <2>2. r \in AStep
    BY <1>0, <1>2 DEF AStep, Messages
  <2> QED
    BY <2>1, <2>2 DEF PutLoad, Tell
<1> HIDE DEF s, r
<1> DEFINE P == {s, r}
<1>4. <<s, r>> \in Seq(AStep) /\ Range(<<s, r>>) = P /\ Ordered(<<s, r>>)
  <2>1. Before(s, r)
    BY <1>3 DEF Before
  <2> QED
    BY <2>1, <1>3, Pair
<1>5. Plain(P) /\ Coherent(P) /\ Dropping(P)
  BY <1>1, <1>3 DEF Plain, Coherent, Dropping, Puts
<1>6. ASSUME faults = 0, NEW m \in Names
      PROVE  /\ Will(cat, P, "load", m) # None <=> cat.load[m] # None
             /\ \A b \in Names : WillAlias(cat, P, b) = m => cat.coll[m] # None
             /\ WillAll(cat, P, "index", m) =
                   IF cat.coll[m] = None THEN {} ELSE {i \in Indexes : <<cat.coll[m], i>> \in defined}
  <2>1. WillAll(cat, P, "index", m) = cat.index[m]
    BY <1>3, Untouched
  <2>2. \A b \in Names : WillAlias(cat, P, b) = cat.alias[b]
    BY <1>3, Untouched
  <2>3. Tidy(m)
    BY <1>1, <1>6, Idle
  <2>4. Will(cat, P, "load", m) # None <=> cat.load[m] # None
    <3>1. CASE m = n
      <4>1. s \in P /\ Puts(s, "load", m)
        BY <1>3, <3>1 DEF Puts
      <4>2. Coherent(P)
        BY <1>5
      <4> HIDE DEF P
      <4>3. Will(cat, P, "load", m) = s.val
        BY <4>1, <4>2, WillPut
      <4> QED
        BY <4>3, <2>3, <3>1, <1>1, <1>3, LifecycleAssumption DEF Tidy
    <3>2. CASE m # n
      <4>1. \A q \in P : ~Puts(q, "load", m)
        BY <1>3, <3>2 DEF Puts
      <4>2. Will(cat, P, "load", m) = cat["load"][m]
        BY <4>1, WillStand
      <4> QED
        BY <4>2
    <3> QED
      BY <3>1, <3>2
  <2> QED
    BY <2>1, <2>2, <2>3, <2>4, <1>1, <1>6, TidyIndexes DEF Tidy
<1>7. Feasible(<<s, r>>, defined)
  BY <1>1, <1>4, <1>5, <1>6, DefinedDated, PlainFeasible
<1> QED
  BY <1>1, <1>7, BeginKeeps

LEMMA DropDatabaseKeeps ==
    ASSUME TypeOK, IInv, DropDatabase
    PROVE  TypeOK' /\ IInv'
<1> DEFINE s == PutDb(FALSE)  r == Remove(Names \X Parts)  t == <<s, r>>  P == {s, r}
<1>1. /\ Begin(t) /\ defined' = defined /\ todo = <<>> /\ \A n \in Names : cat.coll[n] = None
  BY DEF DropDatabase, DropDatabaseSteps, RemoveDirs, Remove, Request, Begin, Exists
<1>2. /\ s \in AStep /\ s.do = "db"
      /\ r \in AStep /\ r.do = "rmdir" /\ r.val = Names \X Parts
  <2>1. r \in AStep
    BY DEF AStep, Directories
  <2> QED
    BY <2>1, DbSteps DEF Remove
<1> HIDE DEF s, r
<1>3. t \in Seq(AStep) /\ Range(t) = P /\ Ordered(t)
  <2>1. Before(s, r)
    BY <1>2 DEF Before
  <2> QED
    BY <2>1, <1>2, Pair
<1>4. Coherent(P) /\ Dropping(P) /\ Possible(P)
  BY <1>2 DEF Coherent, Dropping, Possible, Puts
<1>5. ASSUME faults = 0, NEW n \in Names PROVE Sound(defined, P, n)
  <2>1. Tidy(n) /\ cat.coll[n] = None
    BY <1>1, <1>5, Idle
  <2>2. \A m \in Names : Will(cat, P, "coll", m) = cat.coll[m]
    BY <1>2 DEF Will, Puts
  <2>3. WillAll(cat, P, "part", n) = cat.part[n]
    BY <1>2 DEF WillAll, Adding, Deleting, Docs, TypeOK
  <2>4. \A p \in Parts : ~WillHave(dir, P, n, p)
    BY <1>2, <2>1 DEF WillHave, Tidy
  <2>5. /\ Will(cat, P, "load", n) = cat.load[n]
        /\ WillAll(cat, P, "index", n) = cat.index[n]
    BY <1>2, Untouched
  <2>6. \A a \in Names : WillAlias(cat, P, a) = cat.alias[a]
    BY <1>2, Untouched
  <2> HIDE DEF P
  <2> QED
    BY <2>1, <2>2, <2>3, <2>4, <2>5, <2>6 DEF Sound, Tidy
<1>6. Feasible(t, defined)
  <2> HIDE DEF P, t
  <2>1. \A q \in P : q.do \in {"db", "rmdir"}
    BY <1>2 DEF P
  <2> QED
    BY <1>3, <1>4, <1>5, <2>1, DefinedDated DEF Feasible, Puts
<1> QED
  BY <1>1, <1>6, BeginKeeps

LEMMA CreatePartitionKeeps ==
    ASSUME TypeOK, IInv, NEW x \in Names, NEW p \in Parts, CreatePartition(x, p)
    PROVE  TypeOK' /\ IInv'
<1> DEFINE n == Resolve(x)
<1>0. n \in Names
  BY ResolveIs
<1> DEFINE s == Add("part", n, {p})  r == MakeDir(n, p, cat.coll[n])
           t == <<s>> \o <<r>>  P == {s, r}
<1>1. /\ Begin(t) /\ defined' = defined /\ todo = <<>>
      /\ cat.coll[n] # None /\ p \notin cat.part[n]
  BY DEF CreatePartition, CreatePartSteps, PutParts, ForEach, Add, Request, Begin, Exists
<1>2. cat.coll[n] \in Ids
  BY <1>0, <1>1 DEF TypeOK
<1> HIDE DEF n
<1>3. /\ s \in AStep /\ s.do = "add" /\ s.doc = "part" /\ s.name = n /\ s.val = {p}
      /\ r \in AStep /\ r.do = "mkdir" /\ r.name = n /\ r.val = p /\ r.for = cat.coll[n]
  <2>1. s \in AStep
    BY <1>0 DEF AStep, Documents
  <2>2. r \in AStep
    BY <1>0, <1>2 DEF AStep, Directories
  <2> QED
    BY <2>1, <2>2 DEF Add, MakeDir
<1> HIDE DEF s, r
<1>4. t \in Seq(AStep) /\ Range(t) = P /\ Ordered(t)
  <2>1. /\ <<s>> \in Seq(AStep) /\ Range(<<s>>) = {s} /\ Ordered(<<s>>)
        /\ <<r>> \in Seq(AStep) /\ Range(<<r>>) = {r} /\ Ordered(<<r>>)
    BY <1>3, Single
  <2>2. \A y \in Range(<<s>>), z \in Range(<<r>>) : Before(y, z)
    BY <1>3, <2>1 DEF Before
  <2>3. t \in Seq(AStep) /\ Range(t) = Range(<<s>>) \cup Range(<<r>>) /\ Ordered(t)
    BY <2>1, <2>2, Joined
  <2> QED
    BY <2>1, <2>3
<1>5. Coherent(P) /\ Dropping(P)
  BY <1>3 DEF Coherent, Dropping, Puts
<1>6. ASSUME faults = 0 PROVE Possible(P)
  <2>1. Tidy(n)
    BY <1>0, <1>1, <1>6, Idle
  <2> QED
    BY <1>0, <1>1, <1>3, <2>1 DEF Tidy, Possible
<1>7. ASSUME faults = 0, NEW m \in Names PROVE Sound(defined, P, m)
  <2>1. Tidy(m)
    BY <1>1, <1>7, Idle
  <2>2. \A k \in Names : Will(cat, P, "coll", k) = cat.coll[k]
    BY <1>3 DEF Will, Puts
  <2>3. WillAll(cat, P, "part", m) = IF m = n THEN cat.part[m] \cup {p} ELSE cat.part[m]
    BY <1>3 DEF WillAll, Adding, Deleting, Docs, TypeOK
  <2>4. \A q \in Parts : WillHave(dir, P, m, q) <=> (m = n /\ q = p) \/ dir[m][q] # None
    BY <1>3 DEF WillHave, Removing, Moving
  <2>5. WillAll(cat, P, "index", m) = cat.index[m]
    BY <1>3 DEF WillAll, Adding, Deleting, Docs, TypeOK
  <2>6. Will(cat, P, "load", m) = cat.load[m]
    BY <1>3, Untouched
  <2>7. \A a \in Names : WillAlias(cat, P, a) = cat.alias[a]
    BY <1>3, Untouched
  <2> HIDE DEF P
  <2> QED
    BY <1>1, <2>1, <2>2, <2>3, <2>4, <2>5, <2>6, <2>7 DEF Sound, Tidy
<1>8. Feasible(t, defined)
  <2>1. \A q \in P : /\ q.do \notin {"put", "move"}
                     /\ q.do = "mkdir" => cat.coll[q.name] = q.for
    BY <1>3
  <2> HIDE DEF P, t
  <2> QED
    BY <1>4, <1>5, <1>6, <1>7, <2>1, DefinedDated DEF Feasible, Puts
<1> QED
  BY <1>1, <1>8, BeginKeeps

LEMMA DropPartitionKeeps ==
    ASSUME TypeOK, IInv, NEW x \in Names, NEW p \in Parts, DropPartition(x, p)
    PROVE  TypeOK' /\ IInv'
<1> DEFINE n == Resolve(x)
<1>0. n \in Names
  BY ResolveIs
<1> DEFINE s == Remove({n} \X {p})  r == Del("part", n, {p})  u == Tell("close", n, {p})
           t == <<s>> \o <<r>> \o <<u>>  P == {s, r, u}
<1>1. /\ Begin(t) /\ defined' = defined /\ todo = <<>>
      /\ p \in cat.part[n] /\ p # Default
  BY DEF DropPartition, DropPartSteps, DelParts, ForEach, RemoveDirs, Remove, Del, Request, Begin
<1> HIDE DEF n
<1>3. /\ s \in AStep /\ s.do = "rmdir" /\ s.val = {n} \X {p}
      /\ r \in AStep /\ r.do = "del" /\ r.doc = "part" /\ r.name = n /\ r.val = {p}
      /\ u \in AStep /\ u.do = "tell" /\ u.val = {p}
  <2>1. s \in AStep
    BY <1>0 DEF AStep, Directories
  <2>2. r \in AStep
    BY <1>0 DEF AStep, Documents
  <2>3. u \in AStep
    BY <1>0 DEF AStep, Messages
  <2> QED
    BY <2>1, <2>2, <2>3 DEF Remove, Del, Tell
<1> HIDE DEF s, r, u
<1>4. t \in Seq(AStep) /\ Range(t) = P /\ Ordered(t)
  <2>1. /\ <<s>> \in Seq(AStep) /\ Range(<<s>>) = {s} /\ Ordered(<<s>>)
        /\ <<r>> \in Seq(AStep) /\ Range(<<r>>) = {r} /\ Ordered(<<r>>)
        /\ <<u>> \in Seq(AStep) /\ Range(<<u>>) = {u} /\ Ordered(<<u>>)
    BY <1>3, Single
  <2>2. \A y \in Range(<<s>>), z \in Range(<<r>>) : Before(y, z)
    BY <1>3, <2>1 DEF Before
  <2> DEFINE v == <<s>> \o <<r>>
  <2>3. v \in Seq(AStep) /\ Range(v) = Range(<<s>>) \cup Range(<<r>>) /\ Ordered(v)
    BY <2>1, <2>2, Joined
  <2> HIDE DEF v
  <2>4. \A y \in Range(v), z \in Range(<<u>>) : Before(y, z)
    BY <1>3, <2>1, <2>3 DEF Before
  <2>5. /\ v \o <<u>> \in Seq(AStep) /\ Ordered(v \o <<u>>)
        /\ Range(v \o <<u>>) = Range(v) \cup Range(<<u>>)
    BY <2>1, <2>3, <2>4, Joined
  <2>6. Range(v) \cup Range(<<u>>) = P
    BY <2>1, <2>3
  <2> QED
    BY <2>5, <2>6 DEF v
<1>5. Coherent(P) /\ Dropping(P) /\ Possible(P)
  BY <1>3 DEF Coherent, Dropping, Possible, Puts
<1>7. ASSUME faults = 0, NEW m \in Names PROVE Sound(defined, P, m)
  <2>1. Tidy(m)
    BY <1>1, <1>7, Idle
  <2>2. \A k \in Names : Will(cat, P, "coll", k) = cat.coll[k]
    BY <1>3 DEF Will, Puts
  <2>3. WillAll(cat, P, "part", m) = IF m = n THEN cat.part[m] \ {p} ELSE cat.part[m]
    BY <1>3 DEF WillAll, Adding, Deleting, Docs, TypeOK
  <2>4. \A q \in Parts : WillHave(dir, P, m, q) <=> ~ (m = n /\ q = p) /\ dir[m][q] # None
    BY <1>3 DEF WillHave, Removing, Moving
  <2>5. WillAll(cat, P, "index", m) = cat.index[m]
    BY <1>3 DEF WillAll, Adding, Deleting, Docs, TypeOK
  <2>6. Will(cat, P, "load", m) = cat.load[m]
    BY <1>3, Untouched
  <2>7. \A a \in Names : WillAlias(cat, P, a) = cat.alias[a]
    BY <1>3, Untouched
  <2> HIDE DEF P
  <2> QED
    BY <1>1, <2>1, <2>2, <2>3, <2>4, <2>5, <2>6, <2>7 DEF Sound, Tidy
<1>8. Feasible(t, defined)
  <2>1. \A q \in P : q.do \notin {"put", "move", "mkdir"}
    BY <1>3
  <2> HIDE DEF P, t
  <2> QED
    BY <1>4, <1>5, <1>7, <2>1, DefinedDated DEF Feasible, Puts
<1> QED
  BY <1>1, <1>8, BeginKeeps

LEMMA CreateCollectionKeeps ==
    ASSUME TypeOK, IInv, NEW n \in Names, CreateCollection(n)
    PROVE  TypeOK' /\ IInv'
<1> DEFINE id == clock + 1
           s == PutColl(n, id)  r == Add("part", n, {Default})
           u == MakeDir(n, Default, id)  w == PutLoad(n, FALSE)
           t == <<s>> \o <<r>> \o <<u, w>>  P == {s, r, u, w}
<1>1. /\ Begin(t) /\ defined' = defined /\ todo = <<>>
      /\ cat.coll[n] = None /\ clock < MaxRequests
  BY DEF CreateCollection, CreateSteps, PutParts, ForEach, Add, Request, Begin, Exists
<1>2. id \in Ids /\ id # None /\ clock \in Nat /\ Default \in Parts
  BY <1>1, LifecycleAssumption DEF Ids, TypeOK
<1> HIDE DEF id
<1>3. /\ s \in AStep /\ s.do = "put" /\ s.doc = "coll" /\ s.name = n /\ s.val = id
      /\ r \in AStep /\ r.do = "add" /\ r.doc = "part" /\ r.name = n /\ r.val = {Default}
      /\ u \in AStep /\ u.do = "mkdir" /\ u.name = n /\ u.val = Default /\ u.for = id
      /\ w \in AStep /\ w.do = "put" /\ w.doc = "load" /\ w.name = n /\ w.val = FALSE
  <2>1. s \in AStep
    BY <1>2 DEF AStep, Documents
  <2>2. r \in AStep
    BY <1>2 DEF AStep, Documents
  <2>3. u \in AStep
    BY <1>2 DEF AStep, Directories
  <2>4. w \in AStep
    <3> DEFINE v == FALSE
    <3>1. v \in BOOLEAN
      OBVIOUS
    <3> HIDE DEF v
    <3>2. PutLoad(n, v) \in AStep
      BY <3>1 DEF AStep, Documents
    <3> QED
      BY <3>2 DEF v
  <2> QED
    BY <2>1, <2>2, <2>3, <2>4 DEF PutColl, Add, MakeDir, PutLoad
<1> HIDE DEF s, r, u, w
<1>4. t \in Seq(AStep) /\ Range(t) = P /\ Ordered(t)
  <2>1. /\ <<s>> \in Seq(AStep) /\ Range(<<s>>) = {s} /\ Ordered(<<s>>)
        /\ <<r>> \in Seq(AStep) /\ Range(<<r>>) = {r} /\ Ordered(<<r>>)
    BY <1>3, Single
  <2>2. <<u, w>> \in Seq(AStep) /\ Range(<<u, w>>) = {u, w} /\ Ordered(<<u, w>>)
    <3>1. Before(u, w)
      BY <1>3 DEF Before
    <3> QED
      BY <3>1, <1>3, Pair
  <2>3. \A y \in Range(<<s>>), z \in Range(<<r>>) : Before(y, z)
    BY <1>3, <2>1 DEF Before
  <2> DEFINE v == <<s>> \o <<r>>
  <2>4. v \in Seq(AStep) /\ Range(v) = Range(<<s>>) \cup Range(<<r>>) /\ Ordered(v)
    BY <2>1, <2>3, Joined
  <2> HIDE DEF v
  <2>5. \A y \in Range(v), z \in Range(<<u, w>>) : Before(y, z)
    BY <1>3, <2>1, <2>2, <2>4 DEF Before
  <2>6. /\ v \o <<u, w>> \in Seq(AStep) /\ Ordered(v \o <<u, w>>)
        /\ Range(v \o <<u, w>>) = Range(v) \cup Range(<<u, w>>)
    BY <2>2, <2>4, <2>5, Joined
  <2>7. Range(v) \cup Range(<<u, w>>) = P
    BY <2>1, <2>2, <2>4
  <2> QED
    BY <2>6, <2>7 DEF v
<1>5. Coherent(P) /\ Dropping(P)
  BY <1>3 DEF Coherent, Dropping, Puts
<1>6. ASSUME faults = 0 PROVE Possible(P)
  <2>1. Tidy(n)
    BY <1>1, <1>6, Idle
  <2> QED
    BY <1>1, <1>2, <1>3, <2>1 DEF Tidy, Possible
<1>7. ASSUME faults = 0, NEW m \in Names PROVE Sound(defined, P, m)
  <2>1. Tidy(m)
    BY <1>1, <1>7, Idle
  <2>2. Will(cat, P, "coll", n) = id /\ \A k \in Names \ {n} : Will(cat, P, "coll", k) = cat.coll[k]
    <3>1. s \in P /\ Puts(s, "coll", n)
      BY <1>3 DEF Puts
    <3>2. \A k \in Names \ {n} : \A q \in P : ~Puts(q, "coll", k)
      BY <1>3 DEF Puts
    <3>3. Coherent(P)
      BY <1>5
    <3> HIDE DEF P
    <3>4. Will(cat, P, "coll", n) = s.val
      BY <3>1, <3>3, WillPut
    <3>5. ASSUME NEW k \in Names \ {n} PROVE Will(cat, P, "coll", k) = cat.coll[k]
      <4>1. \A q \in P : ~Puts(q, "coll", k)
        BY <3>2
      <4>2. Will(cat, P, "coll", k) = cat["coll"][k]
        BY <4>1, WillStand
      <4> QED
        BY <4>2
    <3> QED
      BY <3>4, <3>5, <1>3
  <2>3. Will(cat, P, "load", m) # None <=> (m = n \/ cat.load[m] # None)
    <3>1. w \in P /\ Puts(w, "load", n)
      BY <1>3 DEF Puts
    <3>2. m # n => \A q \in P : ~Puts(q, "load", m)
      BY <1>3 DEF Puts
    <3>3. Coherent(P)
      BY <1>5
    <3> HIDE DEF P
    <3>4. Will(cat, P, "load", n) = w.val
      BY <3>1, <3>3, WillPut
    <3>5. m # n => Will(cat, P, "load", m) = cat["load"][m]
      BY <3>2, WillStand
    <3> QED
      BY <3>4, <3>5, <1>3, LifecycleAssumption
  <2>4. WillAll(cat, P, "part", m) = IF m = n THEN cat.part[m] \cup {Default} ELSE cat.part[m]
    BY <1>2, <1>3 DEF WillAll, Adding, Deleting, Docs, TypeOK
  <2>5. \A q \in Parts : WillHave(dir, P, m, q) <=> (m = n /\ q = Default) \/ dir[m][q] # None
    BY <1>3 DEF WillHave, Removing, Moving
  <2>6. WillAll(cat, P, "index", m) = cat.index[m]
    BY <1>3 DEF WillAll, Adding, Deleting, Docs, TypeOK
  <2>7. \A a \in Names : WillAlias(cat, P, a) = cat.alias[a]
    BY <1>3, Untouched
  <2>8. \A k \in Names : cat.coll[k] # id
    <3>1. \A k \in Names : cat.coll[k] # None => cat.coll[k] \in Ids /\ cat.coll[k] <= clock
      BY DEF IInv, Dated, TypeOK
    <3> QED
      BY <3>1, <1>2 DEF id, Ids
  <2>9. \A i : <<id, i>> \notin defined
    <3>1. \A d \in defined : d[1] <= clock
      BY DEF IInv, Dated
    <3>2. \A i : <<id, i>>[1] = clock + 1
      BY DEF id
    <3> QED
      BY <3>1, <3>2, <1>2
  <2> HIDE DEF P
  <2>10. CASE m = n
    BY <1>1, <1>2, <2>1, <2>2, <2>3, <2>4, <2>5, <2>6, <2>7, <2>8, <2>9, <2>10 DEF Sound, Tidy
  <2>11. CASE m # n
    BY <1>1, <1>2, <2>1, <2>2, <2>3, <2>4, <2>5, <2>6, <2>7, <2>8, <2>11 DEF Sound, Tidy
  <2> QED
    BY <2>10, <2>11
<1>8. Feasible(t, defined)
  <2>1. \A q \in P : /\ q.do # "move"
                     /\ q.do = "mkdir" => q = u
                     /\ (q.do = "put" /\ q.doc = "coll") => q = s
    BY <1>3
  <2>2. Putting(P, n, id)
    BY <1>3 DEF Putting, Puts
  <2>3. \A k \in Names : \A q \in P : Puts(q, "coll", k) => k = n /\ q.val = id
    BY <1>3 DEF Puts
  <2>4. id <= clock + 1 /\ id = clock + 1
    BY <1>2 DEF id
  <2> HIDE DEF P, t
  <2>5. \A k \in Names : \A q \in P : Puts(q, "coll", k) =>
              IF q.val = None
              THEN \A p \in Parts : dir[k][p] # None => Moving(P, k) \/ Removing(P, k, p)
              ELSE cat.coll[k] = None /\ q.val <= clock + 1
    BY <1>1, <1>2, <2>3, <2>4
  <2>6. \A q \in P : q.do = "mkdir" =>
              /\ cat.coll[q.name] = q.for \/ Putting(P, q.name, q.for)
              /\ \A y \in P : \A k \in Names :
                    Puts(y, "coll", k) => k = q.name /\ y.val = q.for /\ y.val = clock + 1
    BY <1>3, <2>1, <2>2, <2>3, <2>4
  <2> QED
    BY <1>4, <1>5, <1>6, <1>7, <2>1, <2>5, <2>6, DefinedDated DEF Feasible
<1> QED
  BY <1>1, <1>8, BeginKeeps

\* Step r may follow any step that makes no directory.
Later(r) == r.do \in {"add", "del", "unalias", "tell"} \/ (r.do = "put" /\ r.doc # "coll")

LEMMA Chain ==
    ASSUME NEW u \in Seq(AStep), Ordered(u), \A s \in Range(u) : s.do # "mkdir",
           NEW v \in Seq(AStep), Ordered(v), \A r \in Range(v) : Later(r)
    PROVE  /\ u \o v \in Seq(AStep) /\ Ordered(u \o v)
           /\ Range(u \o v) = Range(u) \cup Range(v)
           /\ \A s \in Range(u \o v) : s.do # "mkdir"
<1>1. \A s \in Range(u), r \in Range(v) : Before(s, r)
  BY DEF Before, Later
<1>2. /\ u \o v \in Seq(AStep) /\ Ordered(u \o v)
      /\ Range(u \o v) = Range(u) \cup Range(v)
  BY <1>1, Joined
<1>3. \A s \in Range(v) : s.do # "mkdir"
  BY DEF Later
<1> QED
  BY <1>2, <1>3

\* The steps that delete the documents of a collection.
MetaSteps(P, n) ==
    /\ \A s \in P : s.do \in {"put", "del", "unalias"}
    /\ \A s \in P : s.do = "put" => s.doc \in {"coll", "load"} /\ s.name = n /\ s.val = None
    /\ \E s \in P : Puts(s, "coll", n)
    /\ \E s \in P : Puts(s, "load", n)
    /\ \A s \in P : s.do = "del" => s.name = n
    /\ \A m \in Names, p \in Parts :
          Deleting(P, "part", m, p) <=> m = n /\ p \in ListPartitions(n)
    /\ \A m \in Names, i \in Indexes :
          Deleting(P, "index", m, i) <=> m = n /\ i \in cat.index[n]
    /\ \A a \in Names : Unaliasing(P, a) <=> cat.alias[a] = n

LEMMA DelMetaSteps ==
    ASSUME TypeOK, NEW n \in Names
    PROVE  /\ DelMeta(n) \in Seq(AStep) /\ Ordered(DelMeta(n))
           /\ MetaSteps(Range(DelMeta(n)), n)
           /\ \A s \in Range(DelMeta(n)) : s.do # "mkdir"
<1> DEFINE S == ListPartitions(n)  I == cat.index[n]  A == AliasesOf(n)
           c == PutColl(n, None)  p == Del("part", n, S)  i == Del("index", n, I)
           a == Unalias(A)  l == PutLoad(n, None)
<1>1. S \in SUBSET Parts /\ I \in SUBSET Indexes /\ A \in SUBSET Names
  BY LifecycleAssumption DEF ListPartitions, AliasesOf, TypeOK
<1>2. DelMeta(n) = <<c>> \o ForEach(p) \o ForEach(i) \o ForEach(a) \o <<l>>
  BY DEF DelMeta, DelParts, DelIndexes, DelAliases, Del, Unalias
<1>3. \A x \in Names : cat.alias[x] = n <=> x \in A
  BY DEF AliasesOf
<1> HIDE DEF S, I, A
<1>4. /\ c \in AStep /\ c.do = "put" /\ c.doc = "coll" /\ c.name = n /\ c.val = None
      /\ p \in AStep /\ p.do = "del" /\ p.doc = "part" /\ p.name = n /\ p.val = S
      /\ i \in AStep /\ i.do = "del" /\ i.doc = "index" /\ i.name = n /\ i.val = I
      /\ a \in AStep /\ a.do = "unalias" /\ a.val = A
      /\ l \in AStep /\ l.do = "put" /\ l.doc = "load" /\ l.name = n /\ l.val = None
  <2>1. c \in AStep
    BY DEF AStep, Documents
  <2>2. p \in AStep
    BY <1>1 DEF AStep, Documents
  <2>3. i \in AStep
    BY <1>1 DEF AStep, Documents
  <2>4. a \in AStep
    BY <1>1 DEF AStep, Documents
  <2>5. l \in AStep
    BY DEF AStep, Documents
  <2> QED
    BY <2>1, <2>2, <2>3, <2>4, <2>5 DEF PutColl, Del, Unalias, PutLoad
<1> HIDE DEF c, p, i, a, l
<1> DEFINE x1 == <<c>> \o ForEach(p)  x2 == x1 \o ForEach(i)  x3 == x2 \o ForEach(a)
           x4 == x3 \o <<l>>
           Some(s) == IF s.val = {} THEN {} ELSE {s}
<1>5. /\ <<c>> \in Seq(AStep) /\ Ordered(<<c>>) /\ Range(<<c>>) = {c}
      /\ <<l>> \in Seq(AStep) /\ Ordered(<<l>>) /\ Range(<<l>>) = {l}
  BY <1>4, Single
<1>6. \A s \in AStep : /\ ForEach(s) \in Seq(AStep) /\ Ordered(ForEach(s))
                       /\ Range(ForEach(s)) = Some(s)
  BY Loop
<1>7. \A s : \A r \in Some(s) : r = s
  OBVIOUS
<1> HIDE DEF Some
<1>8. /\ x1 \in Seq(AStep) /\ Ordered(x1) /\ Range(x1) = {c} \cup Some(p)
      /\ \A s \in Range(x1) : s.do # "mkdir"
  <2>1. /\ ForEach(p) \in Seq(AStep) /\ Ordered(ForEach(p)) /\ Range(ForEach(p)) = Some(p)
        /\ \A r \in Range(ForEach(p)) : Later(r)
    BY <1>4, <1>6, <1>7 DEF Later
  <2>2. \A s \in Range(<<c>>) : s.do # "mkdir"
    BY <1>4, <1>5
  <2> QED
    BY <1>5, <2>1, <2>2, Chain
<1> HIDE DEF x1
<1>9. /\ x2 \in Seq(AStep) /\ Ordered(x2) /\ Range(x2) = {c} \cup Some(p) \cup Some(i)
      /\ \A s \in Range(x2) : s.do # "mkdir"
  <2>1. /\ ForEach(i) \in Seq(AStep) /\ Ordered(ForEach(i)) /\ Range(ForEach(i)) = Some(i)
        /\ \A r \in Range(ForEach(i)) : Later(r)
    BY <1>4, <1>6, <1>7 DEF Later
  <2> QED
    BY <1>8, <2>1, Chain
<1> HIDE DEF x2
<1>10. /\ x3 \in Seq(AStep) /\ Ordered(x3)
       /\ Range(x3) = {c} \cup Some(p) \cup Some(i) \cup Some(a)
       /\ \A s \in Range(x3) : s.do # "mkdir"
  <2>1. /\ ForEach(a) \in Seq(AStep) /\ Ordered(ForEach(a)) /\ Range(ForEach(a)) = Some(a)
        /\ \A r \in Range(ForEach(a)) : Later(r)
    BY <1>4, <1>6, <1>7 DEF Later
  <2> QED
    BY <1>9, <2>1, Chain
<1> HIDE DEF x3
<1>11. /\ x4 \in Seq(AStep) /\ Ordered(x4)
       /\ Range(x4) = {c, l} \cup Some(p) \cup Some(i) \cup Some(a)
       /\ \A s \in Range(x4) : s.do # "mkdir"
  <2>1. \A r \in Range(<<l>>) : Later(r)
    BY <1>4, <1>5 DEF Later
  <2>2. /\ x4 \in Seq(AStep) /\ Ordered(x4)
        /\ Range(x4) = Range(x3) \cup Range(<<l>>)
        /\ \A s \in Range(x4) : s.do # "mkdir"
    BY <1>5, <1>10, <2>1, Chain
  <2> QED
    BY <2>2, <1>5, <1>10
<1>12. DelMeta(n) = x4
  BY <1>2 DEF x1, x2, x3
<1> HIDE DEF x4
<1> DEFINE P == Range(x4)
<1>13. \A s \in P : s \in {c, p, i, a, l}
  BY <1>7, <1>11
<1>14. c \in P /\ l \in P /\ (S # {} => p \in P) /\ (I # {} => i \in P) /\ (A # {} => a \in P)
  BY <1>4, <1>11 DEF Some
<1> HIDE DEF P
<1>15. MetaSteps(P, n)
  <2>1. \A s \in P : s.do \in {"put", "del", "unalias"}
    BY <1>4, <1>13
  <2>2. \A s \in P : s.do = "put" => s.doc \in {"coll", "load"} /\ s.name = n /\ s.val = None
    BY <1>4, <1>13
  <2>3. Puts(c, "coll", n) /\ Puts(l, "load", n)
    BY <1>4 DEF Puts
  <2>4. \A m \in Names, q \in Parts : Deleting(P, "part", m, q) <=> m = n /\ q \in S
    BY <1>4, <1>13, <1>14 DEF Deleting
  <2>5. \A m \in Names, q \in Indexes : Deleting(P, "index", m, q) <=> m = n /\ q \in I
    BY <1>4, <1>13, <1>14 DEF Deleting
  <2>6. \A x \in Names : Unaliasing(P, x) <=> x \in A
    BY <1>4, <1>13, <1>14 DEF Unaliasing
  <2>7. \A s \in P : s.do = "del" => s.name = n
    BY <1>4, <1>13
  <2> QED
    BY <2>1, <2>2, <2>3, <2>4, <2>5, <2>6, <2>7, <1>3, <1>14 DEF MetaSteps, S, I
<1> QED
  BY <1>11, <1>12, <1>15 DEF P

LEMMA DropCollectionKeeps ==
    ASSUME TypeOK, IInv, NEW x \in Names, DropCollection(x)
    PROVE  TypeOK' /\ IInv'
<1> DEFINE n == Resolve(x)
<1>0. n \in Names
  BY ResolveIs
<1> DEFINE s == Remove({n} \X Parts)  r == Tell("close", n, {})  d == DelMeta(n)
           t == <<s>> \o d \o <<r>>  M == Range(d)  P == {s, r} \cup M
<1>1. /\ Begin(t) /\ defined' = defined /\ todo = <<>> /\ cat.coll[n] # None
  BY DEF DropCollection, DropSteps, RemoveDirs, Remove, Request, Begin, Exists
<1> HIDE DEF n
<1>2. /\ s \in AStep /\ s.do = "rmdir" /\ s.val = {n} \X Parts
      /\ r \in AStep /\ r.do = "tell" /\ r.name = n
  <2>1. s \in AStep
    BY <1>0 DEF AStep, Directories
  <2>2. r \in AStep
    BY <1>0 DEF AStep, Messages
  <2> QED
    BY <2>1, <2>2 DEF Remove, Tell
<1>3. d \in Seq(AStep) /\ Ordered(d) /\ MetaSteps(M, n) /\ \A y \in M : y.do # "mkdir"
  BY <1>0, DelMetaSteps
<1> HIDE DEF s, r, d
<1>4. t \in Seq(AStep) /\ Range(t) = P /\ Ordered(t)
  <2>1. /\ <<s>> \in Seq(AStep) /\ Range(<<s>>) = {s} /\ Ordered(<<s>>)
        /\ <<r>> \in Seq(AStep) /\ Range(<<r>>) = {r} /\ Ordered(<<r>>)
    BY <1>2, Single
  <2>2. \A y \in Range(<<s>>), z \in Range(d) : Before(y, z)
    BY <1>2, <1>3, <2>1 DEF Before, MetaSteps
  <2> DEFINE v == <<s>> \o d
  <2>3. v \in Seq(AStep) /\ Range(v) = Range(<<s>>) \cup Range(d) /\ Ordered(v)
    BY <1>3, <2>1, <2>2, Joined
  <2> HIDE DEF v
  <2>4. /\ \A y \in Range(v) : y.do # "mkdir"
        /\ \A z \in Range(<<r>>) : Later(z)
    BY <1>2, <1>3, <2>1, <2>3 DEF Later
  <2>5. v \o <<r>> \in Seq(AStep) /\ Ordered(v \o <<r>>) /\ Range(v \o <<r>>) = Range(v) \cup Range(<<r>>)
    BY <2>1, <2>3, <2>4, Chain
  <2>6. Range(v) \cup Range(<<r>>) = P
    BY <2>1, <2>3
  <2> QED
    BY <2>5, <2>6 DEF v
<1> HIDE DEF M
<1>5. /\ \A q \in P : q.do \in {"rmdir", "tell", "put", "del", "unalias"}
      /\ \A q \in P : q.do = "put" => q.doc \in {"coll", "load"} /\ q.name = n /\ q.val = None
      /\ \A q \in P : q.do = "rmdir" => q = s
      /\ \A q \in P : q.do = "tell" => q = r
  BY <1>2, <1>3 DEF MetaSteps
<1>6. /\ \E q \in P : Puts(q, "coll", n)
      /\ \E q \in P : Puts(q, "load", n)
      /\ \A m \in Names, p \in Parts :
            Deleting(P, "part", m, p) <=> m = n /\ p \in ListPartitions(n)
      /\ \A m \in Names, i \in Indexes :
            Deleting(P, "index", m, i) <=> m = n /\ i \in cat.index[n]
      /\ \A a \in Names : Unaliasing(P, a) <=> cat.alias[a] = n
      /\ \A m \in Names, p \in Parts : Removing(P, m, p) <=> m = n
  <2>1. \A dd, m, p : Deleting(P, dd, m, p) <=> Deleting(M, dd, m, p)
    BY <1>2 DEF Deleting
  <2>2. \A a : Unaliasing(P, a) <=> Unaliasing(M, a)
    BY <1>2 DEF Unaliasing
  <2>3. \A m \in Names, p \in Parts : Removing(P, m, p) <=> m = n
    BY <1>2, <1>5 DEF Removing
  <2>4. /\ \E q \in P : Puts(q, "coll", n)
        /\ \E q \in P : Puts(q, "load", n)
    BY <1>3 DEF MetaSteps
  <2> HIDE DEF P
  <2> QED
    BY <1>3, <2>1, <2>2, <2>3, <2>4 DEF MetaSteps
<1> HIDE DEF P, t
<1>7. Coherent(P)
  BY <1>5 DEF Coherent, Puts
<1>8. Empties(P, n)
  <2>1. \A p \in cat.part[n] : p \in Parts /\ p \in ListPartitions(n)
    BY <1>0 DEF ListPartitions, TypeOK
  <2>2. \A i \in cat.index[n] : i \in Indexes
    BY <1>0 DEF TypeOK
  <2> QED
    BY <1>0, <1>5, <1>6, <2>1, <2>2 DEF Empties
<1>9. Dropping(P)
  BY <1>2, <1>5, <1>8 DEF Dropping
<1>10. Possible(P)
  BY <1>5 DEF Possible
<1>11. ASSUME faults = 0, NEW m \in Names PROVE Sound(defined, P, m)
  <2>1. Tidy(m)
    BY <1>1, <1>11, Idle
  <2>2. \A k \in Names : Will(cat, P, "coll", k) = IF k = n THEN None ELSE cat.coll[k]
    BY <1>5, <1>6 DEF Will, Puts
  <2>3. Will(cat, P, "load", m) = IF m = n THEN None ELSE cat.load[m]
    BY <1>5, <1>6 DEF Will, Puts
  <2>4. \A p \in Parts : WillHave(dir, P, m, p) <=> m # n /\ dir[m][p] # None
    BY <1>5, <1>6 DEF WillHave, Moving
  <2>5. \A dd, k, z : ~Adding(P, dd, k, z)
    BY <1>5 DEF Adding
  <2>6. WillAll(cat, P, "part", m) = IF m = n THEN {} ELSE cat.part[m]
    <3>1. cat.part[m] \subseteq Parts
      BY DEF TypeOK
    <3>2. m = n => cat.part[m] \subseteq ListPartitions(n)
      BY DEF ListPartitions
    <3> QED
      BY <1>6, <2>5, <3>1, <3>2 DEF WillAll, Docs
  <2>7. WillAll(cat, P, "index", m) = IF m = n THEN {} ELSE cat.index[m]
    <3>1. cat.index[m] \subseteq Indexes
      BY DEF TypeOK
    <3> QED
      BY <1>6, <2>5, <3>1 DEF WillAll, Docs
  <2>8. \A a \in Names : WillAlias(cat, P, a) = IF cat.alias[a] = n THEN None ELSE cat.alias[a]
    BY <1>5, <1>6 DEF WillAlias, Will, Puts
  <2>9. None \notin Names
    BY LifecycleAssumption
  <2>10. CASE m = n
    BY <1>0, <2>2, <2>3, <2>4, <2>6, <2>7, <2>8, <2>9, <2>10 DEF Sound
  <2>11. CASE m # n
    BY <1>0, <2>1, <2>2, <2>3, <2>4, <2>6, <2>7, <2>8, <2>9, <2>11 DEF Sound, Tidy
  <2> QED
    BY <2>10, <2>11
<1>12. Feasible(t, defined)
  <2>1. \A k \in Names : \A q \in P : Puts(q, "coll", k) => k = n /\ q.val = None
    BY <1>5 DEF Puts
  <2>2. \A k \in Names : \A q \in P : Puts(q, "coll", k) =>
              IF q.val = None
              THEN \A p \in Parts : dir[k][p] # None => Moving(P, k) \/ Removing(P, k, p)
              ELSE cat.coll[k] = None /\ q.val <= clock + 1
    BY <1>6, <2>1
  <2> QED
    BY <1>4, <1>5, <1>7, <1>9, <1>10, <1>11, <2>2, DefinedDated DEF Feasible
<1> QED
  BY <1>1, <1>12, BeginKeeps

LEMMA RenameCollectionKeeps ==
    ASSUME TypeOK, IInv, NEW o \in Names, NEW n \in Names, RenameCollection(o, n)
    PROVE  TypeOK' /\ IInv'
<1> DEFINE id == cat.coll[o]  S == ListPartitions(o)  I == cat.index[o]  v == cat.load[o] = TRUE
           d == DelMeta(o)  M == Range(d)
           s == MoveDir(o, n)  c == PutColl(n, id)  p == Add("part", n, S)
           i == Add("index", n, I)  l == PutLoad(n, v)
           t == <<s>> \o d \o <<c>> \o ForEach(p) \o ForEach(i) \o <<l>>
<1>1. /\ Begin(t) /\ defined' = defined /\ todo = <<>>
      /\ id # None /\ cat.coll[n] = None /\ o # n
  BY DEF RenameCollection, RenameSteps, PutParts, PutIndexes, Add, Request, Begin, Exists
<1>2. /\ S \in SUBSET Parts /\ I \in SUBSET Indexes /\ v \in BOOLEAN /\ id \in Ids
  BY <1>1, LifecycleAssumption DEF ListPartitions, TypeOK
<1> HIDE DEF S, I, v, id
<1>3. /\ s \in AStep /\ s.do = "move" /\ s.name = o /\ s.val = n
      /\ c \in AStep /\ c.do = "put" /\ c.doc = "coll" /\ c.name = n /\ c.val = id
      /\ p \in AStep /\ p.do = "add" /\ p.doc = "part" /\ p.name = n /\ p.val = S
      /\ i \in AStep /\ i.do = "add" /\ i.doc = "index" /\ i.name = n /\ i.val = I
      /\ l \in AStep /\ l.do = "put" /\ l.doc = "load" /\ l.name = n /\ l.val = v
  <2>1. s \in AStep
    BY DEF AStep, Directories
  <2>2. c \in AStep
    BY <1>2 DEF AStep, Documents
  <2>3. p \in AStep
    BY <1>2 DEF AStep, Documents
  <2>4. i \in AStep
    BY <1>2 DEF AStep, Documents
  <2>5. l \in AStep
    BY <1>2 DEF AStep, Documents
  <2> QED
    BY <2>1, <2>2, <2>3, <2>4, <2>5 DEF MoveDir, PutColl, Add, PutLoad
<1>4. d \in Seq(AStep) /\ Ordered(d) /\ MetaSteps(M, o) /\ \A y \in M : y.do # "mkdir"
  BY DelMetaSteps
<1> HIDE DEF s, c, p, i, l, d
<1> DEFINE Some(y) == IF y.val = {} THEN {} ELSE {y}
           P == {s, c, l} \cup M \cup Some(p) \cup Some(i)
<1>5. \A y : \A z \in Some(y) : z = y
  OBVIOUS
<1>6. t \in Seq(AStep) /\ Range(t) = P /\ Ordered(t)
  <2>1. /\ <<s>> \in Seq(AStep) /\ Range(<<s>>) = {s} /\ Ordered(<<s>>)
        /\ <<c>> \in Seq(AStep) /\ Range(<<c>>) = {c} /\ Ordered(<<c>>)
        /\ <<l>> \in Seq(AStep) /\ Range(<<l>>) = {l} /\ Ordered(<<l>>)
    BY <1>3, Single
  <2>2. /\ ForEach(p) \in Seq(AStep) /\ Range(ForEach(p)) = Some(p) /\ Ordered(ForEach(p))
        /\ ForEach(i) \in Seq(AStep) /\ Range(ForEach(i)) = Some(i) /\ Ordered(ForEach(i))
    BY <1>3, Loop
  <2> HIDE DEF Some
  <2> DEFINE x1 == <<s>> \o d  x2 == x1 \o <<c>>  x3 == x2 \o ForEach(p)
             x4 == x3 \o ForEach(i)  x5 == x4 \o <<l>>
  <2>3. x1 \in Seq(AStep) /\ Range(x1) = {s} \cup M /\ Ordered(x1)
    <3>1. \A y \in Range(<<s>>), z \in Range(d) : Before(y, z)
      BY <1>3, <1>4, <2>1 DEF Before, MetaSteps
    <3> QED
      BY <1>4, <2>1, <3>1, Joined
  <2> HIDE DEF x1
  <2>4. /\ x2 \in Seq(AStep) /\ Range(x2) = {s, c} \cup M /\ Ordered(x2)
        /\ \A y \in Range(x2) : y.do # "mkdir"
    <3>1. \A y \in Range(x1), z \in Range(<<c>>) : Before(y, z)
      BY <1>1, <1>3, <1>4, <2>1, <2>3 DEF Before, MetaSteps
    <3>2. x2 \in Seq(AStep) /\ Range(x2) = Range(x1) \cup Range(<<c>>) /\ Ordered(x2)
      BY <2>1, <2>3, <3>1, Joined
    <3> QED
      BY <1>3, <1>4, <2>1, <2>3, <3>2
  <2> HIDE DEF x2
  <2>5. /\ x3 \in Seq(AStep) /\ Range(x3) = {s, c} \cup M \cup Some(p) /\ Ordered(x3)
        /\ \A y \in Range(x3) : y.do # "mkdir"
    <3>1. \A y \in Range(ForEach(p)) : Later(y)
      BY <1>3, <1>5, <2>2 DEF Later
    <3> QED
      BY <2>2, <2>4, <3>1, Chain
  <2> HIDE DEF x3
  <2>6. /\ x4 \in Seq(AStep) /\ Range(x4) = {s, c} \cup M \cup Some(p) \cup Some(i) /\ Ordered(x4)
        /\ \A y \in Range(x4) : y.do # "mkdir"
    <3>1. \A y \in Range(ForEach(i)) : Later(y)
      BY <1>3, <1>5, <2>2 DEF Later
    <3> QED
      BY <2>2, <2>5, <3>1, Chain
  <2> HIDE DEF x4
  <2>7. x5 \in Seq(AStep) /\ Range(x5) = Range(x4) \cup {l} /\ Ordered(x5)
    <3>1. \A y \in Range(<<l>>) : Later(y)
      BY <1>3, <2>1 DEF Later
    <3>2. x5 \in Seq(AStep) /\ Range(x5) = Range(x4) \cup Range(<<l>>) /\ Ordered(x5)
      BY <2>1, <2>6, <3>1, Chain
    <3> HIDE DEF x5
    <3> QED
      BY <2>1, <3>2
  <2>8. t = x5
    BY DEF x1, x2, x3, x4
  <2>9. Range(x4) \cup {l} = P
    BY <2>6
  <2> QED
    BY <2>7, <2>8, <2>9
<1> HIDE DEF M
<1>7. /\ \A q \in P : q \in {s, c, p, i, l} \cup M
      /\ s \in P /\ c \in P /\ l \in P /\ M \subseteq P
      /\ S # {} => p \in P
      /\ I # {} => i \in P
  BY <1>3, <1>5
<1> HIDE DEF P, t, Some
<1>8. /\ \A q \in P : q.do \in {"move", "put", "add", "del", "unalias"}
      /\ \A q \in P : q.do = "move" => q = s
      /\ \A q \in P : q.do = "put" => /\ q.doc \in {"coll", "load"}
                                      /\ \/ q \in {c, l}
                                         \/ q.name = o /\ q.val = None
      /\ \A q \in P : q.do = "add" => q.name = n
      /\ \A q \in P : q.do = "del" => q.name = o
  BY <1>3, <1>4, <1>7 DEF MetaSteps
<1>9. /\ \E q \in P : Puts(q, "coll", o)
      /\ \E q \in P : Puts(q, "load", o)
      /\ Puts(c, "coll", n) /\ Puts(l, "load", n)
      /\ \A m \in Names, x \in Parts :
            Deleting(P, "part", m, x) <=> m = o /\ x \in S
      /\ \A m \in Names, x \in Indexes :
            Deleting(P, "index", m, x) <=> m = o /\ x \in I
      /\ \A a \in Names : Unaliasing(P, a) <=> cat.alias[a] = o
      /\ \A m \in Names, x \in Parts : Adding(P, "part", m, x) <=> m = n /\ x \in S
      /\ \A m \in Names, x \in Indexes : Adding(P, "index", m, x) <=> m = n /\ x \in I
      /\ \A m \in Names : Moving(P, m) <=> m = o
  <2>1. \A dd, m, x : Deleting(P, dd, m, x) <=> Deleting(M, dd, m, x)
    BY <1>3, <1>7 DEF Deleting
  <2>2. \A a : Unaliasing(P, a) <=> Unaliasing(M, a)
    BY <1>3, <1>7 DEF Unaliasing
  <2>3. /\ \A m \in Names, x \in Parts : Adding(P, "part", m, x) <=> m = n /\ x \in S
        /\ \A m \in Names, x \in Indexes : Adding(P, "index", m, x) <=> m = n /\ x \in I
    <3>1. \A q \in M : q.do # "add"
      BY <1>4 DEF MetaSteps
    <3> QED
      BY <1>3, <1>7, <3>1 DEF Adding
  <2>4. /\ \E q \in P : Puts(q, "coll", o)
        /\ \E q \in P : Puts(q, "load", o)
    BY <1>4, <1>7 DEF MetaSteps
  <2>5. \A m \in Names : Moving(P, m) <=> m = o
    BY <1>3, <1>7, <1>8 DEF Moving
  <2>6. Puts(c, "coll", n) /\ Puts(l, "load", n)
    BY <1>3 DEF Puts
  <2> QED
    BY <1>4, <2>1, <2>2, <2>3, <2>4, <2>5, <2>6 DEF MetaSteps, S, I
<1>10. Coherent(P)
  <2>1. \A q, r \in P : \A dd \in {"coll", "load", "alias"}, m \in Names :
           Puts(q, dd, m) /\ Puts(r, dd, m) => q.val = r.val
    BY <1>1, <1>3, <1>8 DEF Puts
  <2>2. \A q, r \in P : q.do = "add" /\ r.do = "del" => q.name # r.name
    BY <1>1, <1>8
  <2> QED
    BY <1>8, <2>1, <2>2 DEF Coherent
<1>11. Dropping(P)
  BY <1>8 DEF Dropping
<1>12. ASSUME faults = 0
       PROVE  Tidy(o) /\ Tidy(n) /\ S = cat.part[o]
  <2>1. Tidy(o) /\ Tidy(n)
    BY <1>1, <1>12, Idle
  <2> QED
    BY <1>1, <2>1 DEF Tidy, S, ListPartitions, id
<1>13. ASSUME faults = 0 PROVE Possible(P)
  <2>1. \A x \in Parts : dir[n][x] = None
    BY <1>1, <1>12, <1>13 DEF Tidy
  <2>2. dir[n] = NoDirs
    BY <2>1 DEF NoDirs, TypeOK
  <2>3. Default \in Parts /\ dir[o][Default] # None
    BY <1>1, <1>12, <1>13, LifecycleAssumption DEF Tidy, id
  <2>4. dir[o] # NoDirs
    BY <2>3 DEF NoDirs
  <2> QED
    BY <1>3, <1>8, <2>2, <2>4 DEF Possible
<1>14. \A k \in Names : Will(cat, P, "coll", k) =
          IF k = o THEN None ELSE IF k = n THEN id ELSE cat.coll[k]
  <2>1. \A k \in Names : k \notin {o, n} => \A q \in P : ~Puts(q, "coll", k)
    BY <1>3, <1>8 DEF Puts
  <2>2. \A k \in Names : k \notin {o, n} => Will(cat, P, "coll", k) = cat.coll[k]
    BY <2>1 DEF Will
  <2>3. Will(cat, P, "coll", n) = c.val
    BY <1>7, <1>9, <1>10, WillPut
  <2>4. PICK q \in P : Puts(q, "coll", o)
    BY <1>9
  <2>5. Will(cat, P, "coll", o) = q.val
    BY <2>4, <1>10, WillPut
  <2>6. q.val = None
    BY <1>1, <1>3, <1>8, <2>4 DEF Puts
  <2> QED
    BY <1>1, <1>3, <2>2, <2>3, <2>5, <2>6
<1>15. \A k \in Names : Will(cat, P, "load", k) =
          IF k = o THEN None ELSE IF k = n THEN v ELSE cat.load[k]
  <2>1. \A k \in Names : k \notin {o, n} => \A q \in P : ~Puts(q, "load", k)
    BY <1>3, <1>8 DEF Puts
  <2>2. \A k \in Names : k \notin {o, n} => Will(cat, P, "load", k) = cat.load[k]
    BY <2>1 DEF Will
  <2>3. Will(cat, P, "load", n) = l.val
    BY <1>7, <1>9, <1>10, WillPut
  <2>4. PICK q \in P : Puts(q, "load", o)
    BY <1>9
  <2>5. Will(cat, P, "load", o) = q.val
    BY <2>4, <1>10, WillPut
  <2>6. q.val = None
    BY <1>1, <1>3, <1>8, <2>4 DEF Puts
  <2> QED
    BY <1>1, <1>3, <2>2, <2>3, <2>5, <2>6
<1>16. ASSUME faults = 0, NEW m \in Names PROVE Sound(defined, P, m)
  <2>1. Tidy(m) /\ Tidy(o) /\ Tidy(n) /\ S = cat.part[o]
    BY <1>1, <1>12, <1>16, Idle
  <2>2. \A x \in Parts : WillHave(dir, P, m, x) <=>
           (m = n /\ dir[o][x] # None) \/ (m # o /\ dir[m][x] # None)
    <3>1. \A x : ~Removing(P, m, x)
      BY <1>8 DEF Removing
    <3>2. \A q \in P : q.do # "mkdir" /\ (q.do = "move" => q = s)
      BY <1>8
    <3> QED
      BY <1>3, <1>7, <1>9, <3>1, <3>2 DEF WillHave
  <2>3. WillAll(cat, P, "part", m) =
           IF m = o THEN {} ELSE IF m = n THEN S \cup cat.part[n] ELSE cat.part[m]
    <3>1. cat.part[m] \subseteq Parts
      BY DEF TypeOK
    <3> QED
      BY <1>1, <1>2, <1>9, <2>1, <3>1 DEF WillAll, Docs
  <2>4. WillAll(cat, P, "index", m) =
           IF m = o THEN {} ELSE IF m = n THEN I \cup cat.index[n] ELSE cat.index[m]
    <3>1. cat.index[m] \subseteq Indexes
      BY DEF TypeOK
    <3> QED
      BY <1>1, <1>2, <1>9, <3>1 DEF WillAll, Docs, I
  <2>5. \A a \in Names : WillAlias(cat, P, a) = IF cat.alias[a] = o THEN None ELSE cat.alias[a]
    BY <1>8, <1>9 DEF WillAlias, Will, Puts
  <2>6. None \notin Names /\ v # None
    BY <1>2, LifecycleAssumption
  <2>7. CASE m = o
    BY <1>1, <1>14, <1>15, <2>2, <2>3, <2>4, <2>5, <2>6, <2>7 DEF Sound
  <2>8. CASE m = n
    <3>1. \A x \in Parts : dir[o][x] # None <=> x \in S
      BY <1>1, <2>1 DEF Tidy, id
    <3>2. \A x \in Parts : dir[n][x] = None
      BY <1>1, <2>1 DEF Tidy
    <3>3. cat.part[n] = {} /\ cat.index[n] = {} /\ \A a \in Names : cat.alias[a] # n
      BY <1>1, <2>1 DEF Tidy
    <3>4. Default \in S /\ I = {y \in Indexes : <<id, y>> \in defined}
      BY <1>1, <2>1 DEF Tidy, id, I
    <3>5. \A k \in Names : cat.coll[k] = id => k = o
      BY <1>1, <2>1 DEF Tidy, id
    <3> QED
      BY <1>1, <1>14, <1>15, <2>2, <2>3, <2>4, <2>5, <2>6, <2>8, <3>1, <3>2, <3>3, <3>4, <3>5
         DEF Sound
  <2>9. CASE m \notin {o, n}
    <3>1. cat.coll[m] # id
      BY <1>1, <2>1, <2>9 DEF Tidy, id
    <3> QED
      BY <1>1, <1>14, <1>15, <2>1, <2>2, <2>3, <2>4, <2>5, <2>6, <2>9, <3>1 DEF Sound, Tidy
  <2> QED
    BY <2>7, <2>8, <2>9
<1>17. Feasible(t, defined)
  <2>1. \A k \in Names : \A q \in P : Puts(q, "coll", k) =>
           \/ k = o /\ q.val = None
           \/ k = n /\ q.val = id
    BY <1>3, <1>8 DEF Puts
  <2>2. id <= clock + 1
    BY <1>1, DefinedDated DEF id
  <2>3. \A k \in Names : \A q \in P : Puts(q, "coll", k) =>
              IF q.val = None
              THEN \A x \in Parts : dir[k][x] # None => Moving(P, k) \/ Removing(P, k, x)
              ELSE cat.coll[k] = None /\ q.val <= clock + 1
    BY <1>1, <1>9, <2>1, <2>2
  <2>4. \A q \in P : q.do # "mkdir" /\ (q.do = "move" => q = s)
    BY <1>8
  <2>5. Putting(P, n, id)
    BY <1>3, <1>7, <1>9 DEF Putting
  <2>6. \A q \in P : q.do = "move" =>
              /\ q.name # q.val /\ cat.coll[q.name] # None
              /\ Putting(P, q.val, cat.coll[q.name])
    BY <1>1, <1>3, <2>4, <2>5 DEF id
  <2> QED
    BY <1>6, <1>10, <1>11, <1>13, <1>16, <2>3, <2>4, <2>6, DefinedDated DEF Feasible
<1> QED
  BY <1>1, <1>17, BeginKeeps

-----------------------------------------------------------------------------
(* The other actions, and the theorems                                     *)

LEMMA InterruptedKeeps ==
    ASSUME TypeOK, IInv, Interrupted
    PROVE  TypeOK' /\ IInv'
<1>1. /\ todo # <<>> /\ todo' = <<>> /\ torn' = (torn \/ HalfRenamed) /\ faults' = faults + 1
      /\ UNCHANGED <<cat, dir, home, clock, defined>>
  BY DEF Interrupted, Fault, disk
<1>2. faults \in Nat /\ faults' # 0 /\ torn' \in BOOLEAN
  BY <1>1 DEF TypeOK
<1>3. TypeOK'
  BY <1>1, <1>2, Empty DEF TypeOK
<1>4. Range(todo') = {}
  BY <1>1, Empty
<1>5. /\ Ordered(todo') /\ Coherent({}) /\ CollPuts(Range(todo))' /\ Making(Range(todo))'
      /\ Renaming(Range(todo))' /\ Dropping(Range(todo))'
  BY <1>1, <1>4, Empty DEF Coherent, CollPuts, Making, Renaming, Dropping
<1>6. Outlook(Range(todo))'
  BY <1>2 DEF Outlook
<1>7. Dated'
  BY <1>1 DEF IInv, Dated
<1>8. Owned(Range(todo))'
  <2> DEFINE P == Range(todo)
  <2>1. Owned(P)
    BY DEF IInv
  <2>2. SUFFICES ASSUME ~torn', NEW n \in Names, NEW p \in Parts, dir[n][p] # None
                 PROVE  home[dir[n][p]] # None /\ cat.coll[n] = home[dir[n][p]]
    BY <1>1 DEF Owned
  <2>3. ~torn /\ ~HalfRenamed
    BY <1>1, <2>2
  <2> DEFINE h == home[dir[n][p]]
  <2>4. /\ h # None
        /\ \/ cat.coll[n] = h
           \/ Putting(P, n, h) /\ h # clock /\ \A s \in P : s.do # "move"
    BY <2>1, <2>2, <2>3 DEF Owned
  <2>5. ASSUME Putting(P, n, h), h # clock, \A s \in P : s.do # "move"
        PROVE  HalfRenamed
    <3>1. PICK s \in P : Puts(s, "coll", n) /\ s.val = h
      BY <2>5 DEF Putting
    <3>2. PICK i \in DOMAIN todo : todo[i] = s
      BY DEF Range
    <3>3. Head(todo) \in P
      BY <1>1, Taken DEF IInv, TypeOK
    <3> QED
      BY <2>4, <2>5, <3>1, <3>2, <3>3 DEF HalfRenamed, Puts
  <2> QED
    BY <2>3, <2>4, <2>5
<1> QED
  BY <1>3, <1>4, <1>5, <1>6, <1>7, <1>8 DEF IInv

\* The reader, the network and their faults leave the writer and the disk alone.
Elsewhere == UNCHANGED <<disk, writer>> /\ faults' \in Nat /\ (faults' = 0 => faults = 0)

LEMMA ElsewhereKeeps ==
    ASSUME TypeOK, IInv, Elsewhere
    PROVE  TypeOK' /\ IInv'
<1>1. /\ UNCHANGED <<cat, dir, home, todo, clock, torn, defined>>
      /\ faults' \in Nat /\ (faults' = 0 => faults = 0)
  BY DEF Elsewhere, disk, writer
<1>2. TypeOK'
  BY <1>1 DEF TypeOK
<1>3. Ordered(todo') /\ Coherent(Range(todo'))
  BY <1>1 DEF IInv
<1>4. CollPuts(Range(todo))'
  BY <1>1 DEF IInv, CollPuts
<1>5. Making(Range(todo))'
  BY <1>1 DEF IInv, Making
<1>6. Renaming(Range(todo))'
  BY <1>1 DEF IInv, Renaming
<1>7. Owned(Range(todo))'
  BY <1>1 DEF IInv, Owned
<1>8. Dropping(Range(todo))'
  BY <1>1 DEF IInv, Dropping, Empties
<1>9. Outlook(Range(todo))'
  BY <1>1 DEF IInv, Outlook, Possible, Sound
<1>10. Dated'
  BY <1>1 DEF IInv, Dated
<1> QED
  BY <1>2, <1>3, <1>4, <1>5, <1>6, <1>7, <1>8, <1>9, <1>10 DEF IInv

LEMMA InitHolds == Init => TypeOK /\ IInv
<1> SUFFICES ASSUME Init PROVE TypeOK /\ IInv
  OBVIOUS
<1>1. /\ cat.db = TRUE /\ \A n \in Names : /\ cat.coll[n] = None /\ cat.part[n] = {}
                                           /\ cat.alias[n] = None /\ cat.index[n] = {}
                                           /\ cat.load[n] = None
      /\ \A n \in Names, p \in Parts : dir[n][p] = None
      /\ todo = <<>> /\ defined = {} /\ torn = FALSE /\ clock = 0 /\ faults = 0
  BY DEF Init, NoDirs
<1>2. TypeOK
  <2>1. 0 \in 0 .. MaxRequests
    BY LifecycleAssumption
  <2>2. cat \in [db : BOOLEAN, coll : [Names -> Ids \cup {None}],
                 part : [Names -> SUBSET Parts], alias : [Names -> Names \cup {None}],
                 index : [Names -> SUBSET Indexes],
                 load : [Names -> BOOLEAN \cup {None}]]
    BY DEF Init
  <2>3. dir \in [Names -> [Parts -> Ids \cup {None}]] /\ home \in [Ids -> Ids \cup {None}]
    BY DEF Init, NoDirs
  <2>4. todo \in Seq(AStep) /\ defined \in SUBSET (Ids \X Indexes) /\ torn \in BOOLEAN
    BY <1>1, Empty
  <2> QED
    BY <1>1, <2>1, <2>2, <2>3, <2>4 DEF TypeOK
<1>3. Range(todo) = {} /\ Ordered(todo)
  BY <1>1, Empty
<1>4. /\ Coherent({}) /\ CollPuts({}) /\ Making({}) /\ Renaming({}) /\ Dropping({}) /\ Possible({})
  BY DEF Coherent, CollPuts, Making, Renaming, Dropping, Possible
<1>5. Owned({}) /\ Dated
  BY <1>1 DEF Owned, Dated
<1>6. ASSUME NEW n \in Names PROVE Sound(defined, {}, n)
  <2>1. /\ Will(cat, {}, "coll", n) = None /\ Will(cat, {}, "load", n) = None
    BY <1>1 DEF Will
  <2>2. WillAll(cat, {}, "part", n) = {} /\ WillAll(cat, {}, "index", n) = {}
    BY <1>1 DEF WillAll, Adding
  <2>3. \A a \in Names : WillAlias(cat, {}, a) = None
    BY <1>1 DEF WillAlias, Will, Unaliasing
  <2>4. \A p \in Parts : ~WillHave(dir, {}, n, p)
    BY <1>1 DEF WillHave
  <2>5. None \notin Names
    BY LifecycleAssumption
  <2> QED
    BY <2>1, <2>2, <2>3, <2>4, <2>5 DEF Sound
<1> QED
  BY <1>1, <1>2, <1>3, <1>4, <1>5, <1>6 DEF IInv, Outlook

LEMMA NextKeeps ==
    ASSUME TypeOK, IInv, [Next]_vars
    PROVE  TypeOK' /\ IInv'
<1>0. faults \in Nat
  BY DEF TypeOK
<1>1. CASE \E n \in Names : CreateCollection(n) \/ DropCollection(n) \/ Load(n) \/ Release(n)
  BY <1>1, CreateCollectionKeeps, DropCollectionKeeps, LoadKeeps
<1>2. CASE \E n \in Names, p \in Parts : CreatePartition(n, p) \/ DropPartition(n, p)
  BY <1>2, CreatePartitionKeeps, DropPartitionKeeps
<1>3. CASE \E o, n \in Names : RenameCollection(o, n) \/ CreateAlias(o, n) \/ AlterAlias(o, n)
  BY <1>3, RenameCollectionKeeps, AliasKeeps
<1>4. CASE \E a \in Names : DropAlias(a)
  BY <1>4, DropAliasKeeps
<1>5. CASE \E n \in Names, i \in Indexes : CreateIndex(n, i) \/ DropIndex(n, i)
  BY <1>5, IndexKeeps
<1>6. CASE CreateDatabase \/ DropDatabase
  BY <1>6, CreateDatabaseKeeps, DropDatabaseKeeps
<1>7. CASE Step
  BY <1>7, StepKeeps
<1>8. CASE Interrupted
  BY <1>8, InterruptedKeeps
<1>9. CASE \E m \in net : ServeOpen(m) \/ ServeClose(m) \/ Lose(m)
  <2>1. Elsewhere
    BY <1>0, <1>9 DEF Elsewhere, ServeOpen, ServeClose, Lose, Fault
  <2> QED
    BY <2>1, ElsewhereKeeps
<1>10. CASE RefreshLists \/ \E n \in Names : RefreshVisits(n)
  <2>1. Elsewhere
    BY <1>0, <1>10 DEF Elsewhere, RefreshLists, RefreshVisits
  <2> QED
    BY <2>1, ElsewhereKeeps
<1>11. CASE \E n \in Names, p \in Parts : Search(n, p) \/ GetStats(n, p)
  <2>1. Elsewhere
    BY <1>0, <1>11 DEF Elsewhere, Search, GetStats
  <2> QED
    BY <2>1, ElsewhereKeeps
<1>12. CASE ReaderRestarts
  <2>1. Elsewhere
    BY <1>0, <1>12 DEF Elsewhere, ReaderRestarts, Fault
  <2> QED
    BY <2>1, ElsewhereKeeps
<1>13. CASE UNCHANGED vars
  <2>1. Elsewhere
    BY <1>0, <1>13 DEF Elsewhere, vars
  <2> QED
    BY <2>1, ElsewhereKeeps
<1> QED
  BY <1>1, <1>2, <1>3, <1>4, <1>5, <1>6, <1>7, <1>8, <1>9, <1>10, <1>11, <1>12, <1>13 DEF Next

\* Types and invariant hold in every behaviour, for any names, requests and faults.
LEMMA Inductive == Spec => [](TypeOK /\ IInv)
<1>1. Init => TypeOK /\ IInv
  BY InitHolds
<1>2. (TypeOK /\ IInv) /\ [Next]_vars => (TypeOK /\ IInv)'
  BY NextKeeps
<1> QED
  BY <1>1, <1>2, PTL DEF Spec

\* Every variable the handlers keep, the steps of a handler that are left among
\* them, has a value of its type in every reachable state.
THEOREM TypeCorrect == Spec => []TypeOK
<1> QED
  BY Inductive, PTL

\* Between requests, and if none was interrupted, the documents the handlers of
\* CollectionService and PartitionService wrote describe the directories they
\* made, removed and renamed: none of the two is ever ahead of the other.
THEOREM CatalogFollowsDisk == Spec => []CatalogMatchesDisk
<1>1. TypeOK /\ IInv => CatalogMatchesDisk
  <2> SUFFICES ASSUME TypeOK, IInv, todo = <<>>, faults = 0, NEW n \in Names
               PROVE  /\ \A p \in Parts : dir[n][p] # None <=> (Exists(n) /\ p \in cat.part[n])
                      /\ \A p \in Parts : dir[n][p] # None => home[dir[n][p]] = cat.coll[n]
                      /\ Exists(n) <=> cat.load[n] # None
                      /\ ~Exists(n) => cat.part[n] = {} /\ cat.index[n] = {} /\ AliasesOf(n) = {}
    BY DEF CatalogMatchesDisk
  <2>1. Tidy(n) /\ ~torn
    BY Idle
  <2>2. \A p \in Parts : dir[n][p] # None => home[dir[n][p]] = cat.coll[n]
    BY <2>1, Idle
  <2> QED
    BY <2>1, <2>2 DEF Tidy, Exists, AliasesOf
<1> QED
  BY <1>1, Inductive, PTL

\* Whatever was interrupted and however often names were used again, a
\* collection shows only directories that were made for it; a rename stopped
\* halfway is the one exception.
THEOREM DirectoriesBelong == Spec => []NoForeignDirectory
<1>1. TypeOK /\ IInv => NoForeignDirectory
  <2> SUFFICES ASSUME TypeOK, IInv, ~torn, NEW n \in Names, NEW p \in ListPartitions(n),
                      Exists(n), dir[n][p] # None
               PROVE  home[dir[n][p]] = cat.coll[n]
    BY DEF NoForeignDirectory
  <2>1. p \in Parts
    BY LifecycleAssumption DEF ListPartitions, TypeOK
  <2>2. Owned(Range(todo))
    BY DEF IInv
  <2> QED
    BY <2>1, <2>2 DEF Owned, Exists
<1> QED
  BY <1>1, Inductive, PTL

\* No directory is left without a collection by a request that was interrupted,
\* for no request could remove it: a rename is again the one exception.
THEOREM DirectoriesAreReachable == Spec => []NoOrphanDirectory
<1>1. TypeOK /\ IInv => NoOrphanDirectory
  <2> SUFFICES ASSUME TypeOK, IInv, todo = <<>>, ~torn, NEW n \in Names, ~Exists(n)
               PROVE  dir[n] = NoDirs
    BY DEF NoOrphanDirectory
  <2>1. \A p \in Parts : dir[n][p] = None
    BY Idle DEF Exists
  <2> QED
    BY <2>1 DEF NoDirs, TypeOK
<1> QED
  BY <1>1, Inductive, PTL

\* When drop_collection gets to the reader's handles, neither a directory nor a
\* document of the collection is left, also if an interrupted request made them.
THEOREM DropsAreComplete == Spec => []DropLeavesNothing
<1>1. TypeOK /\ IInv => DropLeavesNothing
  <2> SUFFICES ASSUME TypeOK, IInv, NEW n \in Names, todo = <<Tell("close", n, {})>>, ~Exists(n)
               PROVE  /\ dir[n] = NoDirs /\ cat.part[n] = {}
                      /\ cat.load[n] = None /\ cat.index[n] = {} /\ AliasesOf(n) = {}
    BY DEF DropLeavesNothing
  <2> DEFINE r == Tell("close", n, {})  P == {r}
  <2>1. r.do = "tell" /\ r.kind = "close" /\ r.name = n /\ r.val = {} /\ r \in AStep
    <3>1. r \in AStep
      BY DEF AStep, Messages
    <3> QED
      BY <3>1 DEF Tell
  <2> HIDE DEF r
  <2>2. todo = <<r>>
    BY DEF r
  <2>3. Range(todo) = P
    BY <2>1, <2>2, Single
  <2>4. Empties(P, n)
    BY <2>1, <2>3 DEF IInv, Dropping, Exists
  <2>5. \A p \in Parts : dir[n][p] = None
    BY <2>1, <2>4 DEF Empties, Removing
  <2>6. dir[n] = NoDirs
    BY <2>5 DEF NoDirs, TypeOK
  <2>7. /\ \A p \in cat.part[n] : FALSE
        /\ \A i \in cat.index[n] : FALSE
        /\ \A a \in Names : cat.alias[a] # n
        /\ cat.load[n] = None
    BY <2>1, <2>4 DEF Empties, Deleting, Unaliasing, Puts
  <2> QED
    BY <2>6, <2>7 DEF AliasesOf
<1> QED
  BY <1>1, Inductive, PTL

\* A collection keeps the indexes that were created for it, and gets no other
\* one's, under whatever names it and they were used.
THEOREM IndexesStay == Spec => []IndexesFollowCollection
<1>1. TypeOK /\ IInv => IndexesFollowCollection
  <2> SUFFICES ASSUME TypeOK, IInv, todo = <<>>, faults = 0, NEW n \in Names, Exists(n)
               PROVE  cat.index[n] = {i \in Indexes : <<cat.coll[n], i>> \in defined}
    BY DEF IndexesFollowCollection
  <2>1. Tidy(n)
    BY Idle
  <2> QED
    BY <2>1 DEF Tidy, Exists
<1> QED
  BY <1>1, Inductive, PTL
=============================================================================
