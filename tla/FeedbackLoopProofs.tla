------------------------- MODULE FeedbackLoopProofs -------------------------
(***************************************************************************)
(* What FeedbackLoop promises, for any payloads, comments and history      *)
(* limit: IInv is inductive, and the properties follow from it.  That a    *)
(* conflict is a duplicate needs, besides, that the joined fields of a     *)
(* dedup key can be told apart.                                            *)
(***************************************************************************)
EXTENDS FeedbackLoop, SequenceTheorems, TLAPS

(* Texts: the fields of a dedup key can be told apart *)

Symbols == STRING \cup {Colon}

LEMMA OneSymbol ==
    ASSUME NEW S, NEW x \in S
    PROVE  <<x>> \in Seq(S) /\ Len(<<x>>) = 1 /\ <<x>>[1] = x
  OBVIOUS

LEMMA TwoSymbols ==
    ASSUME NEW S, NEW x \in S, NEW y \in S
    PROVE  <<x, y>> \in Seq(S) /\ <<x>> \o <<y>> = <<x, y>>
  <1>1. <<x>> \in Seq(S) /\ <<y>> \in Seq(S) /\ <<x, y>> \in Seq(S)
    OBVIOUS
  <1>2. <<x>> \o <<y>> \in Seq(S) /\ Len(<<x>> \o <<y>>) = 2
    BY <1>1, ConcatProperties
  <1>3. (<<x>> \o <<y>>)[1] = x /\ (<<x>> \o <<y>>)[2] = y
    BY <1>1, ConcatProperties
  <1> QED
    <2> DEFINE xy == <<x>> \o <<y>>
    <2>1. /\ xy \in Seq(S) /\ Len(xy) = 2 /\ xy[1] = x /\ xy[2] = y
          /\ Len(<<x, y>>) = 2 /\ <<x, y>>[1] = x /\ <<x, y>>[2] = y
      BY <1>2, <1>3
    <2> HIDE DEF xy
    <2>2. \A i \in 1..2 : xy[i] = <<x, y>>[i]
      BY <2>1
    <2>3. xy = <<x, y>>
      BY <1>1, <2>1, <2>2, SeqEqual
    <2> QED
      BY <1>1, <2>3 DEF xy

LEMMA Associative ==
    \A s, t, u \in Seq(Symbols) : (s \o t) \o u = s \o (t \o u)
  BY ConcatAssociative

LEMMA TextBeforeColon ==
    ASSUME NEW S, NEW p \in Seq(S), NEW q \in Seq(S), HasNoColon(p),
           NEW left \in Seq(S), NEW right \in Seq(S), Len(right) > 0, right[1] = Colon,
           p \o left = q \o right
    PROVE  Len(p) <= Len(q)
  <1>1. /\ Len(q) \in Nat /\ Len(p) \in Nat /\ Len(left) \in Nat /\ Len(right) \in Nat
        /\ DOMAIN p = 1..Len(p)
    BY LenProperties
  <1>2. SUFFICES ASSUME Len(q) < Len(p)
                 PROVE  FALSE
    BY <1>1
  <1>3. Len(q) + 1 \in 1..Len(p)
    BY <1>1, <1>2
  <1>4. (p \o left)[Len(q) + 1] = p[Len(q) + 1]
    BY <1>1, <1>3, ConcatProperties
  <1>5. (q \o right)[Len(q) + 1] = right[1]
    BY <1>1, ConcatProperties
  <1>6. p[Len(q) + 1] # Colon
    BY <1>1, <1>3 DEF HasNoColon
  <1> QED
    BY <1>4, <1>5, <1>6

\* Concatenation as the argument about keys uses it, apart from what sequences are.
Cat(s, t) == s \o t

LEMMA CatRules ==
    /\ \A s, t \in Seq(Symbols) : Cat(s, t) \in Seq(Symbols)
    /\ \A s, t, u \in Seq(Symbols) : Cat(Cat(s, t), u) = Cat(s, Cat(t, u))
  <1>1. \A s, t \in Seq(Symbols) : Cat(s, t) \in Seq(Symbols)
    BY ConcatProperties DEF Cat
  <1>2. ASSUME NEW s \in Seq(Symbols), NEW t \in Seq(Symbols), NEW u \in Seq(Symbols)
        PROVE  Cat(Cat(s, t), u) = Cat(s, Cat(t, u))
    BY Associative DEF Cat
  <1> QED
    BY <1>1, <1>2

\* What precedes the first colon and what follows it.
LEMMA SplitAtColon ==
    ASSUME NEW p \in Seq(Symbols), NEW q \in Seq(Symbols), HasNoColon(p), HasNoColon(q),
           NEW s \in Seq(Symbols), NEW t \in Seq(Symbols),
           Cat(p, Cat(<<Colon>>, s)) = Cat(q, Cat(<<Colon>>, t))
    PROVE  p = q /\ s = t
  <1> DEFINE left == <<Colon>> \o s
             right == <<Colon>> \o t
  <1>1. <<Colon>> \in Seq(Symbols) /\ Len(<<Colon>>) = 1 /\ <<Colon>>[1] = Colon
    BY OneSymbol DEF Symbols
  <1>2. /\ left \in Seq(Symbols) /\ Len(left) > 0 /\ left[1] = Colon
        /\ right \in Seq(Symbols) /\ Len(right) > 0 /\ right[1] = Colon
    BY <1>1, ConcatProperties, LenProperties
  <1>3. p \o left = q \o right
    BY DEF Cat
  <1> HIDE DEF left, right
  <1>4. Len(p) = Len(q) /\ Len(p) \in Nat
    <2>1. Len(p) <= Len(q)
      BY <1>2, <1>3, TextBeforeColon
    <2>2. Len(q) <= Len(p)
      BY <1>2, <1>3, TextBeforeColon
    <2> QED
      BY <2>1, <2>2, LenProperties
  <1>5. \A i \in 1..Len(p) : p[i] = q[i]
    <2> TAKE i \in 1..Len(p)
    <2>1. (p \o left)[i] = p[i]
      BY <1>2, ConcatProperties, LenProperties
    <2>2. (q \o right)[i] = q[i]
      BY <1>2, <1>4, ConcatProperties, LenProperties
    <2> QED
      BY <1>3, <2>1, <2>2
  <1>6. p = q
    BY <1>4, <1>5, SeqEqual
  <1>7. left = right
    BY <1>2, <1>3, <1>6, ConcatSimplifications
  <1> QED
    BY <1>1, <1>6, <1>7, ConcatSimplifications DEF left, right

LEMMA FieldsAreTexts ==
    ASSUME NEW p \in Payloads
    PROVE  /\ p.project \in Seq(Symbols) /\ p.environment \in Seq(Symbols)
           /\ p.signal \in Seq(Symbols) /\ p.timestamp \in Symbols
           /\ <<Colon>> \in Seq(Symbols) /\ <<Colon, p.timestamp>> \in Seq(Symbols)
  <1>1. STRING \subseteq Symbols /\ Colon \in Symbols
    BY DEF Symbols
  <1>2. p.project \in Seq(Symbols) /\ p.environment \in Seq(Symbols) /\ p.signal \in Seq(Symbols)
    BY <1>1, PayloadAssumption, SeqMonotonic
  <1>3. p.timestamp \in Symbols
    BY <1>1, PayloadAssumption
  <1> QED
    BY <1>1, <1>2, <1>3, OneSymbol, TwoSymbols

\* The project is followed by a colon, and so is the environment.
AfterEnvironment(p) == Cat(p.signal, <<Colon, p.timestamp>>)
AfterProject(p) == Cat(p.environment, Cat(<<Colon>>, AfterEnvironment(p)))

LEMMA KeyShape ==
    ASSUME NEW p \in Payloads
    PROVE  /\ DedupKeyOf(p) = Cat(p.project, Cat(<<Colon>>, AfterProject(p)))
           /\ AfterProject(p) \in Seq(Symbols) /\ AfterEnvironment(p) \in Seq(Symbols)
  <1> DEFINE a == p.project
             b == p.environment
             c == p.signal
             d == <<Colon, p.timestamp>>
             x == <<Colon>>
  <1>1. /\ a \in Seq(Symbols) /\ b \in Seq(Symbols) /\ c \in Seq(Symbols)
        /\ d \in Seq(Symbols) /\ x \in Seq(Symbols)
    BY FieldsAreTexts
  <1>2. DedupKeyOf(p) = Cat(Cat(Cat(Cat(Cat(a, x), b), x), c), d)
    BY DEF DedupKeyOf, WorkloadKey, Cat
  <1>3. AfterEnvironment(p) = Cat(c, d) /\ AfterProject(p) = Cat(b, Cat(x, Cat(c, d)))
    BY DEF AfterEnvironment, AfterProject
  <1> HIDE DEF a, b, c, d, x
  <1>4. /\ Cat(c, d) \in Seq(Symbols) /\ Cat(a, x) \in Seq(Symbols)
    BY <1>1, CatRules
  <1>5. Cat(x, Cat(c, d)) \in Seq(Symbols) /\ Cat(Cat(a, x), b) \in Seq(Symbols)
    BY <1>1, <1>4, CatRules
  <1>6. Cat(b, Cat(x, Cat(c, d))) \in Seq(Symbols) /\ Cat(Cat(Cat(a, x), b), x) \in Seq(Symbols)
    BY <1>1, <1>5, CatRules
  <1>7. Cat(Cat(Cat(Cat(Cat(a, x), b), x), c), d) = Cat(a, Cat(x, Cat(b, Cat(x, Cat(c, d)))))
    BY <1>1, <1>4, <1>5, <1>6, CatRules
  <1> QED
    BY <1>2, <1>3, <1>4, <1>6, <1>7 DEF a, x

\* DedupKeyOf is injective where project and environment have no colon.
LEMMA KeyTellsFields ==
    ASSUME NEW p \in Payloads, NEW q \in Payloads, DedupKeyOf(p) = DedupKeyOf(q),
           \A name \in Names : HasNoColon(name)
    PROVE  SameWorkload(p, q) /\ p.signal = q.signal /\ p.timestamp = q.timestamp
  <1>1. /\ HasNoColon(p.project) /\ HasNoColon(q.project)
        /\ HasNoColon(p.environment) /\ HasNoColon(q.environment)
    BY DEF Names
  <1>2. Colon \in Symbols
    BY DEF Symbols
  <1>3. /\ p.project \in Seq(Symbols) /\ p.environment \in Seq(Symbols)
        /\ p.signal \in Seq(Symbols) /\ p.timestamp \in Symbols
        /\ q.project \in Seq(Symbols) /\ q.environment \in Seq(Symbols)
        /\ q.signal \in Seq(Symbols) /\ q.timestamp \in Symbols
    BY FieldsAreTexts
  <1>4. /\ AfterProject(p) \in Seq(Symbols) /\ AfterEnvironment(p) \in Seq(Symbols)
        /\ AfterProject(q) \in Seq(Symbols) /\ AfterEnvironment(q) \in Seq(Symbols)
    BY KeyShape
  <1>5. p.project = q.project /\ p.environment = q.environment /\ AfterEnvironment(p) = AfterEnvironment(q)
    <2> DEFINE a == p.project
               b == q.project
               s == AfterProject(p)
               t == AfterProject(q)
               c == p.environment
               d == q.environment
               u == AfterEnvironment(p)
               v == AfterEnvironment(q)
    <2>1. /\ a \in Seq(Symbols) /\ b \in Seq(Symbols) /\ s \in Seq(Symbols) /\ t \in Seq(Symbols)
          /\ HasNoColon(a) /\ HasNoColon(b)
      BY <1>1, <1>3, <1>4
    <2>2. /\ c \in Seq(Symbols) /\ d \in Seq(Symbols) /\ u \in Seq(Symbols) /\ v \in Seq(Symbols)
          /\ HasNoColon(c) /\ HasNoColon(d)
      BY <1>1, <1>3, <1>4
    <2>3. Cat(a, Cat(<<Colon>>, s)) = Cat(b, Cat(<<Colon>>, t))
      BY KeyShape
    <2>4. s = Cat(c, Cat(<<Colon>>, u)) /\ t = Cat(d, Cat(<<Colon>>, v))
      BY DEF AfterProject
    <2> HIDE DEF a, b, c, d, s, t, u, v
    <2>5. a = b /\ s = t
      BY <2>1, <2>3, SplitAtColon
    <2>6. Cat(c, Cat(<<Colon>>, u)) = Cat(d, Cat(<<Colon>>, v))
      BY <2>4, <2>5
    <2>7. c = d /\ u = v
      BY <2>2, <2>6, SplitAtColon
    <2> QED
      BY <2>5, <2>7 DEF a, b, c, d, u, v
  <1>6. p.signal = q.signal /\ p.timestamp = q.timestamp
    <2> DEFINE s == p.signal
               t == q.signal
               x == p.timestamp
               y == q.timestamp
               c == Colon
    <2>1. s \o <<c, x>> = t \o <<c, y>>
      BY <1>5 DEF AfterEnvironment, Cat
    <2>2. s \in Seq(Symbols) /\ t \in Seq(Symbols) /\ x \in Symbols /\ y \in Symbols /\ c \in Symbols
      BY <1>2, <1>3
    <2> HIDE DEF s, t, x, y, c
    <2>3. /\ <<c>> \in Seq(Symbols) /\ <<x>> \in Seq(Symbols) /\ <<y>> \in Seq(Symbols)
          /\ <<c, x>> = <<c>> \o <<x>> /\ <<c, y>> = <<c>> \o <<y>>
      BY <2>2, OneSymbol, TwoSymbols
    <2>4. s \o <<c>> \in Seq(Symbols) /\ t \o <<c>> \in Seq(Symbols)
      BY <2>2, <2>3, ConcatProperties
    <2>5. (s \o <<c>>) \o <<x>> = s \o (<<c>> \o <<x>>)
      BY <2>2, <2>3, Associative
    <2>6. (t \o <<c>>) \o <<y>> = t \o (<<c>> \o <<y>>)
      BY <2>2, <2>3, Associative
    <2>7. (s \o <<c>>) \o <<x>> = (t \o <<c>>) \o <<y>>
      BY <2>1, <2>3, <2>5, <2>6
    <2>8. Append(s \o <<c>>, x) = Append(t \o <<c>>, y)
      BY <2>2, <2>4, <2>7, AppendIsConcat
    <2>9. s \o <<c>> = t \o <<c>> /\ x = y
      <3> DEFINE u == s \o <<c>>
                 v == t \o <<c>>
      <3>1. u \in Seq(Symbols) /\ v \in Seq(Symbols) /\ Append(u, x) = Append(v, y)
        BY <2>4, <2>8
      <3> HIDE DEF u, v
      <3>2. u = v /\ x = y
        BY <2>2, <3>1, AppendInjective
      <3> QED
        BY <3>2 DEF u, v
    <2>10. s = t
      BY <2>2, <2>3, <2>9, ConcatSimplifications
    <2> QED
      BY <2>9, <2>10 DEF s, t, x, y
  <1> QED
    BY <1>5, <1>6 DEF SameWorkload
-----------------------------------------------------------------------------
(* A new event: every table grows by one row and keeps the others *)

Shown(m) == [id : 1..m, entry : Entries]

LEMMA PromptIsTyped ==
    ASSUME TypeOK, NEW p \in Payloads
    PROVE  PromptFor(p) \subseteq Shown(Len(events))
  <1>1. /\ Ids = 1..Len(events)
        /\ \A i \in Ids : history[i] \in Entries
    BY DEF TypeOK, Ids
  <1>2. \A ids \in SUBSET Ids : BuildPrompt(ids) \subseteq Shown(Len(events))
    BY <1>1 DEF BuildPrompt, Shown
  <1>3. FindByWorkload(p) \subseteq Ids
    BY DEF FindByWorkload, Incidents
  <1> QED
    BY <1>2, <1>3 DEF PromptFor

LEMMA TablesGrow ==
    ASSUME TypeOK, NEW p \in Payloads, NEW entry \in Entries, NEW request \in Approvals,
           Add(p, entry, request)
    PROVE  /\ Len(events) \in Nat /\ Len(events') = Len(events) + 1
           /\ Ids' = 1..(Len(events) + 1)
           /\ \A i \in Ids : /\ i \in Ids' /\ i # Len(events) + 1
                             /\ events'[i] = events[i] /\ history'[i] = history[i]
                             /\ approval'[i] = approval[i] /\ prompt'[i] = prompt[i]
                             /\ heardAt'[i] = heardAt[i]
           /\ \A i \in Ids' : i \in Ids \/ i = Len(events) + 1
           /\ events'[Len(events) + 1] = p
           /\ history'[Len(events) + 1] = entry
           /\ approval'[Len(events) + 1] = request
           /\ prompt'[Len(events) + 1] = PromptFor(p)
           /\ heardAt'[Len(events) + 1] = 0
           /\ TypeOK'
  <1> DEFINE n == Len(events)
  <1>1. n \in Nat
    BY LenProperties DEF TypeOK
  <1>2. /\ events' \in Seq(Payloads) /\ Len(events') = n + 1
        /\ \A i \in 1..n : events'[i] = events[i]
        /\ events'[n + 1] = p
    BY AppendProperties DEF TypeOK, Add
  <1>3. Ids = 1..n /\ Ids' = 1..(n + 1)
    BY <1>2 DEF Ids
  <1> HIDE DEF n
  <1>4. /\ history' \in [1..(n + 1) -> Entries]
        /\ \A i \in 1..n : history'[i] = history[i]
        /\ history'[n + 1] = entry
    <2>1. history \in [1..n -> Entries] /\ history' = Append(history, entry)
      BY <1>3 DEF TypeOK, Add
    <2>2. history \in Seq(Entries) /\ Len(history) = n
      BY <1>1, <2>1
    <2>3. /\ history' \in Seq(Entries) /\ Len(history') = n + 1
          /\ \A i \in 1..n : history'[i] = history[i]
          /\ history'[n + 1] = entry
      BY <2>1, <2>2, AppendProperties
    <2> QED
      BY <2>3, LenProperties
  <1>5. /\ approval' \in [1..(n + 1) -> Approvals]
        /\ \A i \in 1..n : approval'[i] = approval[i]
        /\ approval'[n + 1] = request
    <2>1. approval \in [1..n -> Approvals] /\ approval' = Append(approval, request)
      BY <1>3 DEF TypeOK, Add
    <2>2. approval \in Seq(Approvals) /\ Len(approval) = n
      BY <1>1, <2>1
    <2>3. /\ approval' \in Seq(Approvals) /\ Len(approval') = n + 1
          /\ \A i \in 1..n : approval'[i] = approval[i]
          /\ approval'[n + 1] = request
      BY <2>1, <2>2, AppendProperties
    <2> QED
      BY <2>3, LenProperties
  <1>6. /\ heardAt' \in [1..(n + 1) -> 0..(n + 1)]
        /\ \A i \in 1..n : heardAt'[i] = heardAt[i]
        /\ heardAt'[n + 1] = 0
    <2>1. heardAt \in [1..n -> 0..n] /\ heardAt' = Append(heardAt, 0)
      BY <1>3 DEF TypeOK, n, Add
    <2>2. heardAt \in [1..n -> 0..(n + 1)] /\ 0 \in 0..(n + 1)
      BY <1>1, <2>1
    <2>3. heardAt \in Seq(0..(n + 1)) /\ Len(heardAt) = n
      BY <1>1, <2>2
    <2>4. /\ heardAt' \in Seq(0..(n + 1)) /\ Len(heardAt') = n + 1
          /\ \A i \in 1..n : heardAt'[i] = heardAt[i]
          /\ heardAt'[n + 1] = 0
      BY <2>1, <2>2, <2>3, AppendProperties
    <2> QED
      BY <2>4, LenProperties
  <1>7. /\ prompt' \in [1..(n + 1) -> SUBSET Shown(n + 1)]
        /\ \A i \in 1..n : prompt'[i] = prompt[i]
        /\ prompt'[n + 1] = PromptFor(p)
    <2>1. prompt \in [1..n -> SUBSET Shown(n)] /\ prompt' = Append(prompt, PromptFor(p))
      BY <1>3 DEF TypeOK, Shown, Add
    <2>2. Shown(n) \subseteq Shown(n + 1)
      BY <1>1 DEF Shown
    <2>3. prompt \in [1..n -> SUBSET Shown(n + 1)]
      BY <2>1, <2>2
    <2>4. PromptFor(p) \in SUBSET Shown(n + 1)
      BY <2>2, PromptIsTyped DEF n
    <2>5. prompt \in Seq(SUBSET Shown(n + 1)) /\ Len(prompt) = n
      BY <1>1, <2>3
    <2>6. /\ prompt' \in Seq(SUBSET Shown(n + 1)) /\ Len(prompt') = n + 1
          /\ \A i \in 1..n : prompt'[i] = prompt[i]
          /\ prompt'[n + 1] = PromptFor(p)
      BY <2>1, <2>4, <2>5, AppendProperties
    <2> QED
      BY <2>6, LenProperties
  <1>8. TypeOK'
    BY <1>2, <1>3, <1>4, <1>5, <1>6, <1>7 DEF TypeOK, Shown
  <1> QED
    BY <1>1, <1>2, <1>3, <1>4, <1>5, <1>6, <1>7, <1>8 DEF n

LEMMA KeysStayUnique ==
    ASSUME TypeOK, KeysAreUnique, NEW p \in Payloads, NEW entry \in Entries,
           NEW request \in Approvals, Add(p, entry, request), Existing(p) = {}
    PROVE  KeysAreUnique'
  <1>1. \A i \in Ids : DedupKeyOf(events[i]) # DedupKeyOf(p)
    BY DEF Existing
  <1>2. SUFFICES ASSUME NEW i \in Ids', NEW j \in Ids', DedupKeyOf(events'[i]) = DedupKeyOf(events'[j])
                 PROVE  i = j
    BY DEF KeysAreUnique
  <1>3. CASE i \in Ids /\ j \in Ids
    <2>1. events'[i] = events[i] /\ events'[j] = events[j]
      BY <1>3, TablesGrow
    <2> QED
      BY <1>2, <1>3, <2>1 DEF KeysAreUnique
  <1>4. CASE i \in Ids /\ j = Len(events) + 1
    <2>1. events'[i] = events[i] /\ events'[j] = p
      BY <1>4, TablesGrow
    <2> QED
      BY <1>1, <1>2, <1>4, <2>1
  <1>5. CASE i = Len(events) + 1 /\ j \in Ids
    <2>1. events'[j] = events[j] /\ events'[i] = p
      BY <1>5, TablesGrow
    <2> QED
      BY <1>1, <1>2, <1>5, <2>1
  <1> QED
    BY <1>3, <1>4, <1>5, TablesGrow

\* What the query finds for a new event is what FeedbackReachesPrompts demands of its prompt.
LEMMA NewPromptShowsFeedback ==
    ASSUME TypeOK, NEW p \in Payloads, NEW entry \in Entries,
           NEW request \in Approvals, Add(p, entry, request), ~p.suspicious,
           NEW i \in Ids, SameWorkload(events[i], p),
           NEW n, n = Len(events) + 1, Cardinality(Between(i, n)') < HistoryLimit
    PROVE  [id |-> i, entry |-> history[i]] \in PromptFor(p)
  <1>1. /\ Len(events) \in Nat /\ Ids = 1..Len(events)
        /\ events'[n] = p
        /\ \A j \in Ids : events'[j] = events[j]
    BY TablesGrow DEF Ids
  <1>2. Between(i, n)' = {j \in Incidents(p) : j > i}
    <2>1. Between(i, n)' = {j \in (i + 1)..Len(events) : SameWorkload(events'[j], p)}
      BY <1>1 DEF Between, SameWorkload
    <2>2. \A j : j \in (i + 1)..Len(events) <=> j \in Ids /\ j > i
      BY <1>1
    <2> QED
      BY <1>1, <2>1, <2>2 DEF Incidents
  <1>3. i \in FindByWorkload(p)
    BY <1>2 DEF FindByWorkload, Incidents
  <1> QED
    BY <1>3 DEF PromptFor, BuildPrompt

LEMMA OldPromptsShowFeedback ==
    ASSUME TypeOK, FeedbackReachesPrompts, NEW p \in Payloads, NEW entry \in Entries,
           NEW request \in Approvals, Add(p, entry, request)
    PROVE  FeedbackReachesPrompts'
  <1>1. /\ Len(events) \in Nat /\ Ids = 1..Len(events) /\ Ids' = 1..(Len(events) + 1)
        /\ \A i \in Ids : /\ events'[i] = events[i] /\ history'[i] = history[i]
                          /\ prompt'[i] = prompt[i] /\ heardAt'[i] = heardAt[i]
        /\ events'[Len(events) + 1] = p /\ prompt'[Len(events) + 1] = PromptFor(p)
    BY TablesGrow DEF Ids
  <1>2. SUFFICES ASSUME NEW n \in Ids', NEW i \in 1..(n - 1),
                        SameWorkload(events'[i], events'[n]), ~events'[n].suspicious,
                        heardAt'[i] \in 1..(n - 1),
                        Cardinality(Between(i, n)') < HistoryLimit
                 PROVE  [id |-> i, entry |-> history'[i]] \in prompt'[n]
    BY DEF FeedbackReachesPrompts, Asked, SameWorkload, Between
  <1>3. i \in Ids /\ events'[i] = events[i] /\ history'[i] = history[i] /\ heardAt'[i] = heardAt[i]
    BY <1>1
  <1>4. CASE n \in Ids
    <2>1. events'[n] = events[n] /\ prompt'[n] = prompt[n]
      BY <1>1, <1>4
    <2>2. Between(i, n)' = Between(i, n)
      <3>1. \A j \in (i + 1)..(n - 1) : events'[j] = events[j]
        BY <1>1, <1>3, <1>4
      <3> QED
        BY <2>1, <3>1 DEF Between, SameWorkload
    <2>3. Cardinality(Between(i, n)) < HistoryLimit
      BY <1>2, <2>2
    <2> QED
      BY <1>2, <1>3, <1>4, <2>1, <2>3 DEF FeedbackReachesPrompts, Asked
  <1>5. CASE n = Len(events) + 1
    <2>1. [id |-> i, entry |-> history[i]] \in PromptFor(p)
      BY <1>1, <1>2, <1>3, <1>5, NewPromptShowsFeedback
    <2> QED
      BY <1>1, <1>3, <1>5, <2>1
  <1> QED
    BY <1>1, <1>4, <1>5

LEMMA NewEventKeepsInvariant ==
    ASSUME IInv, NEW p \in Payloads, NEW entry \in Entries, NEW request \in Approvals,
           Add(p, entry, request), Existing(p) = {},
           SameStory(entry, request), request.status \notin {"approved", "rejected"}
    PROVE  IInv'
  <1>1. TypeOK'
    BY TablesGrow DEF IInv
  <1>2. KeysAreUnique'
    BY KeysStayUnique DEF IInv
  <1>3. HeardMeansResolved'
    <2> SUFFICES ASSUME NEW i \in Ids'
                 PROVE  heardAt'[i] # 0 <=> approval'[i].status \in {"approved", "rejected"}
      BY DEF HeardMeansResolved
    <2>1. CASE i \in Ids
      BY <2>1, TablesGrow DEF IInv, HeardMeansResolved
    <2>2. CASE i = Len(events) + 1
      BY <2>2, TablesGrow DEF IInv
    <2> QED
      BY <2>1, <2>2, TablesGrow DEF IInv
  <1>4. TablesTellTheSame'
    <2> SUFFICES ASSUME NEW i \in Ids'
                 PROVE  SameStory(history'[i], approval'[i])
      BY DEF TablesTellTheSame, SameStory
    <2>1. CASE i \in Ids
      BY <2>1, TablesGrow DEF IInv, TablesTellTheSame
    <2>2. CASE i = Len(events) + 1
      BY <2>2, TablesGrow DEF IInv
    <2> QED
      BY <2>1, <2>2, TablesGrow DEF IInv
  <1>5. FeedbackReachesPrompts'
    BY OldPromptsShowFeedback DEF IInv
  <1> QED
    BY <1>1, <1>2, <1>3, <1>4, <1>5 DEF IInv
-----------------------------------------------------------------------------
(* A resolution: one row of history and of approval_requests changes *)

\* The state after a human has resolved the approval of event i.
Resolved(i, entry, request) ==
    /\ history' = [history EXCEPT ![i] = entry]
    /\ approval' = [approval EXCEPT ![i] = request]
    /\ heardAt' = [heardAt EXCEPT ![i] = Len(events)]
    /\ UNCHANGED <<events, prompt>>

LEMMA ResolutionKeepsInvariant ==
    ASSUME IInv, NEW i \in Ids, NEW entry \in Entries, NEW request \in Approvals,
           Resolved(i, entry, request), SameStory(entry, request),
           request.status \in {"approved", "rejected"}
    PROVE  IInv'
  <1>1. Len(events) \in Nat /\ Ids' = Ids /\ Ids = 1..Len(events) /\ Len(events) # 0
    BY LenProperties DEF IInv, TypeOK, Ids, Resolved
  <1>2. \A j \in Ids \ {i} : /\ history'[j] = history[j] /\ approval'[j] = approval[j]
                             /\ heardAt'[j] = heardAt[j]
    BY DEF IInv, TypeOK, Resolved
  <1>3. history'[i] = entry /\ approval'[i] = request /\ heardAt'[i] = Len(events)
    BY DEF IInv, TypeOK, Resolved
  <1>4. TypeOK'
    <2>1. history' \in [Ids -> Entries] /\ approval' \in [Ids -> Approvals]
      BY DEF IInv, TypeOK, Resolved
    <2>2. heardAt' \in [Ids -> 0..Len(events)]
      BY <1>1 DEF IInv, TypeOK, Resolved
    <2>3. events' = events /\ prompt' = prompt
      BY DEF Resolved
    <2> QED
      BY <1>1, <2>1, <2>2, <2>3 DEF IInv, TypeOK
  <1>5. KeysAreUnique'
    BY <1>1 DEF IInv, KeysAreUnique, Resolved
  <1>6. HeardMeansResolved'
    BY <1>1, <1>2, <1>3 DEF IInv, HeardMeansResolved
  <1>7. TablesTellTheSame'
    <2> SUFFICES ASSUME NEW j \in Ids
                 PROVE  SameStory(history'[j], approval'[j])
      BY <1>1 DEF TablesTellTheSame, SameStory
    <2>1. CASE j = i
      BY <2>1, <1>3
    <2>2. CASE j # i
      BY <2>2, <1>2 DEF IInv, TablesTellTheSame
    <2> QED
      BY <2>1, <2>2
  <1>8. FeedbackReachesPrompts'
    <2> SUFFICES ASSUME NEW n \in Ids, NEW j \in 1..(n - 1),
                        SameWorkload(events[j], events[n]), ~events[n].suspicious,
                        heardAt'[j] \in 1..(n - 1), Cardinality(Between(j, n)) < HistoryLimit
                 PROVE  [id |-> j, entry |-> history'[j]] \in prompt[n]
      BY <1>1 DEF Resolved, FeedbackReachesPrompts, Asked, SameWorkload, Between
    <2>1. j # i
      BY <1>1, <1>3
    <2>2. history'[j] = history[j] /\ heardAt'[j] = heardAt[j]
      BY <2>1, <1>1, <1>2
    <2> QED
      BY <2>2 DEF IInv, FeedbackReachesPrompts, Asked
  <1> QED
    BY <1>4, <1>5, <1>6, <1>7, <1>8 DEF IInv

\* What a human may write is of the types of the columns.
LEMMA TextsAreTyped ==
    ASSUME NEW said \in Comments
    PROVE  /\ Or(said.comment, "approved") \in Feedbacks \ {NoText}
           /\ Or(said.comment, "rejected") \in Feedbacks \ {NoText}
           /\ said.comment # NoText => /\ Or(said.comment, "approved") = said.comment
                                       /\ Or(said.comment, "rejected") = said.comment
  BY NoTextAssumption DEF Or, Feedbacks

LEMMA ApproveResolves ==
    ASSUME IInv, NEW i \in Ids, NEW said \in Comments, Approve(i, said)
    PROVE  \E entry \in Entries, request \in Approvals :
              /\ Resolved(i, entry, request) /\ SameStory(entry, request)
              /\ request.status \in {"approved", "rejected"}
  <1> DEFINE feedback == Or(said.comment, "approved")
             request == [status |-> "approved", comment |-> said.comment]
  <1>1. PICK outcome \in {"approved_by_human", "failed"} :
           UpdateOutcome(i, outcome, feedback, NoText, NoText)
    BY DEF Approve
  <1> DEFINE entry == [history[i] EXCEPT !.outcome = outcome, !.feedback = feedback,
                                         !.reason = NoText, !.alternative = NoText]
  <1>2. history[i] \in Entries /\ history[i].auto = FALSE
    BY DEF IInv, TypeOK, TablesTellTheSame, SameStory, Approve, IsPending, Entries
  <1>3. feedback \in Feedbacks /\ feedback # NoText
        /\ (said.comment # NoText => feedback = said.comment)
    BY TextsAreTyped
  <1> HIDE DEF feedback
  <1>4. /\ entry \in Entries /\ entry.auto = FALSE /\ entry.outcome = outcome
        /\ entry.feedback = feedback /\ entry.reason = NoText /\ entry.alternative = NoText
    BY <1>2, <1>3 DEF Entries, Outcomes
  <1>5. request \in Approvals
    BY DEF Approvals
  <1>6. Resolved(i, entry, request)
    BY <1>1 DEF Approve, Resolve, UpdateOutcome, Resolved, feedback
  <1> HIDE DEF entry
  <1>7. SameStory(entry, request)
    BY <1>3, <1>4 DEF SameStory
  <1> QED
    BY <1>4, <1>5, <1>6, <1>7

LEMMA RejectResolves ==
    ASSUME IInv, NEW i \in Ids, NEW said \in Comments, Reject(i, said)
    PROVE  \E entry \in Entries, request \in Approvals :
              /\ Resolved(i, entry, request) /\ SameStory(entry, request)
              /\ request.status \in {"approved", "rejected"}
  <1> DEFINE feedback == Or(said.comment, "rejected")
             request == [status |-> "rejected", comment |-> said.comment]
             entry == [history[i] EXCEPT !.outcome = "rejected_by_human", !.feedback = feedback,
                                         !.reason = said.reason, !.alternative = said.alternative]
  <1>2. history[i] \in Entries /\ history[i].auto = FALSE
    BY DEF IInv, TypeOK, TablesTellTheSame, SameStory, Reject, IsPending, Entries
  <1>3. feedback \in Feedbacks /\ feedback # NoText
        /\ (said.comment # NoText => feedback = said.comment)
    BY TextsAreTyped
  <1> HIDE DEF feedback
  <1>4. /\ entry \in Entries /\ entry.auto = FALSE /\ entry.outcome = "rejected_by_human"
        /\ entry.feedback = feedback
    BY <1>2, <1>3 DEF Entries, Outcomes
  <1>5. request \in Approvals
    BY DEF Approvals
  <1>6. Resolved(i, entry, request)
    BY DEF Reject, Resolve, UpdateOutcome, Resolved, feedback
  <1> HIDE DEF entry
  <1>7. SameStory(entry, request)
    BY <1>3, <1>4 DEF SameStory
  <1> QED
    BY <1>4, <1>5, <1>6, <1>7
-----------------------------------------------------------------------------
LEMMA InitKeeps == Init => IInv
  <1> SUFFICES ASSUME Init
               PROVE  IInv
    OBVIOUS
  <1>1. Len(events) = 0 /\ Ids = {}
    BY DEF Init, Ids
  <1>2. TypeOK
    BY <1>1 DEF Init, TypeOK
  <1> QED
    BY <1>1, <1>2 DEF IInv, KeysAreUnique, HeardMeansResolved, TablesTellTheSame,
                      FeedbackReachesPrompts

LEMMA NewRowsAreTyped ==
    /\ AutoEntries \subseteq Entries /\ Entry(FALSE, "pending") \in Entries
    /\ NoApproval \in Approvals /\ Pending \in Approvals
    /\ \A entry \in AutoEntries : SameStory(entry, NoApproval)
    /\ SameStory(Entry(FALSE, "pending"), Pending)
  <1>1. AutoEntries \subseteq Entries /\ Entry(FALSE, "pending") \in Entries
    <2>1. \A auto \in BOOLEAN, outcome \in Outcomes : Entry(auto, outcome) \in Entries
      BY DEF Entry, Entries, Feedbacks
    <2>2. {"success", "failed", "pending"} \subseteq Outcomes
      BY DEF Outcomes
    <2> HIDE DEF Entry
    <2> QED
      BY <2>1, <2>2 DEF AutoEntries
  <1>2. NoApproval \in Approvals /\ Pending \in Approvals
    BY DEF NoApproval, Pending, Approvals
  <1>3. ASSUME NEW entry \in AutoEntries
        PROVE  SameStory(entry, NoApproval)
    BY DEF AutoEntries, Entry, NoApproval, SameStory
  <1>4. SameStory(Entry(FALSE, "pending"), Pending)
    BY DEF Entry, Pending, SameStory
  <1> QED
    BY <1>1, <1>2, <1>3, <1>4

LEMMA StepKeeps == IInv /\ [Next]_vars => IInv'
  <1> SUFFICES ASSUME IInv, [Next]_vars
               PROVE  IInv'
    OBVIOUS
  <1>1. ASSUME NEW p \in Payloads, Remediate(p)
        PROVE  IInv'
    <2>1. PICK entry \in AutoEntries : Add(p, entry, NoApproval)
      BY <1>1 DEF Remediate
    <2>2. entry \in Entries /\ NoApproval \in Approvals /\ SameStory(entry, NoApproval)
      BY NewRowsAreTyped
    <2>3. NoApproval.status \notin {"approved", "rejected"} /\ Existing(p) = {}
      BY <1>1 DEF NoApproval, Remediate
    <2> QED
      BY <2>1, <2>2, <2>3, NewEventKeepsInvariant
  <1>2. ASSUME NEW p \in Payloads, Escalate(p)
        PROVE  IInv'
    <2>1. /\ Pending.status \notin {"approved", "rejected"} /\ Existing(p) = {}
          /\ Add(p, Entry(FALSE, "pending"), Pending)
      BY <1>2 DEF Pending, Escalate
    <2> QED
      BY <2>1, NewRowsAreTyped, NewEventKeepsInvariant
  <1>3. ASSUME NEW i \in Ids, NEW said \in Comments, Approve(i, said)
        PROVE  IInv'
    BY <1>3, ApproveResolves, ResolutionKeepsInvariant
  <1>4. ASSUME NEW i \in Ids, NEW said \in Comments, Reject(i, said)
        PROVE  IInv'
    BY <1>4, RejectResolves, ResolutionKeepsInvariant
  <1>5. CASE UNCHANGED vars
    BY <1>5 DEF vars, IInv, TypeOK, Ids, KeysAreUnique, HeardMeansResolved, TablesTellTheSame,
                FeedbackReachesPrompts, Between, Asked, SameWorkload, SameStory
  <1> QED
    BY <1>1, <1>2, <1>3, <1>4, <1>5 DEF Next, Conflict
-----------------------------------------------------------------------------
\* IInv holds for any payloads, comments and history limit.
THEOREM FeedbackInvariant == Spec => []IInv
  <1>1. Init => IInv
    BY InitKeeps
  <1>2. IInv /\ [Next]_vars => IInv'
    BY StepKeeps
  <1> QED
    BY <1>1, <1>2, PTL DEF Spec

\* Every variable stays in the range the code gives it.
THEOREM FeedbackTypeCorrect == Spec => []TypeOK
  <1>1. IInv => TypeOK
    BY DEF IInv
  <1> QED
    BY <1>1, FeedbackInvariant, PTL

\* approval_requests and workload_history tell the same story of every event, in
\* whatever order events are ingested and approvals resolved.
THEOREM TablesAgree == Spec => []TablesTellTheSame
  <1>1. IInv => TablesTellTheSame
    BY DEF IInv
  <1> QED
    BY <1>1, FeedbackInvariant, PTL

\* What a human said is in the prompt for every later event of the workload, as it was
\* said, unless as many newer incidents as the query returns have displaced it.
THEOREM FeedbackIsShown == Spec => []FeedbackReachesPrompts
  <1>1. IInv => FeedbackReachesPrompts
    BY DEF IInv
  <1> QED
    BY <1>1, FeedbackInvariant, PTL

\* No conflict is about another webhook, if project and environment names have no colon.
THEOREM DuplicatesAreReal == Spec => []ConflictsAreDuplicates
  <1>1. IInv => ConflictsAreDuplicates
    <2> SUFFICES ASSUME IInv, \A name \in Names : HasNoColon(name),
                        NEW p \in Payloads, NEW i \in Existing(p)
                 PROVE  /\ SameWorkload(p, events[i])
                        /\ p.signal = events[i].signal /\ p.timestamp = events[i].timestamp
                        /\ Existing(p) = {i}
      BY DEF ConflictsAreDuplicates
    <2>1. i \in Ids /\ DedupKeyOf(events[i]) = DedupKeyOf(p)
      BY DEF Existing
    <2>2. events[i] \in Payloads
      BY <2>1, ElementOfSeq DEF IInv, TypeOK, Ids
    <2>3. \A j \in Existing(p) : j = i
      BY <2>1 DEF Existing, IInv, KeysAreUnique
    <2> QED
      BY <2>1, <2>2, <2>3, KeyTellsFields
  <1> QED
    BY <1>1, FeedbackInvariant, PTL

\* No step alters the row of an event whose approval a human has resolved, in either table.
THEOREM FeedbackStays == Spec => FeedbackIsFinal
  <1> DEFINE Kept == \A i \in Ids : heardAt[i] # 0 =>
                        i \in Ids' /\ history'[i] = history[i] /\ approval'[i] = approval[i]
  <1>1. IInv /\ [Next]_vars => [Kept]_vars
    <2> SUFFICES ASSUME IInv, Next, NEW i \in Ids, heardAt[i] # 0
                 PROVE  i \in Ids' /\ history'[i] = history[i] /\ approval'[i] = approval[i]
      OBVIOUS
    <2>1. approval[i].status \in {"approved", "rejected"}
      BY DEF IInv, HeardMeansResolved
    <2>2. ASSUME NEW p \in Payloads, Remediate(p)
          PROVE  i \in Ids' /\ history'[i] = history[i] /\ approval'[i] = approval[i]
      <3>1. PICK entry \in AutoEntries : Add(p, entry, NoApproval)
        BY <2>2 DEF Remediate
      <3> QED
        BY <3>1, NewRowsAreTyped, TablesGrow DEF IInv
    <2>3. ASSUME NEW p \in Payloads, Escalate(p)
          PROVE  i \in Ids' /\ history'[i] = history[i] /\ approval'[i] = approval[i]
      BY <2>3, NewRowsAreTyped, TablesGrow DEF Escalate, IInv
    <2>4. ASSUME NEW j \in Ids, NEW said \in Comments, Approve(j, said) \/ Reject(j, said)
          PROVE  i \in Ids' /\ history'[i] = history[i] /\ approval'[i] = approval[i]
      <3>1. j # i
        BY <2>1, <2>4 DEF Approve, Reject, IsPending
      <3>2. PICK entry \in Entries, request \in Approvals : Resolved(j, entry, request)
        BY <2>4, ApproveResolves, RejectResolves
      <3> QED
        BY <3>1, <3>2 DEF Resolved, IInv, TypeOK, Ids
    <2>5. CASE UNCHANGED vars
      BY <2>5 DEF vars, Ids
    <2> QED
      BY <2>2, <2>3, <2>4, <2>5 DEF Next, Conflict
  <1> QED
    BY <1>1, FeedbackInvariant, PTL DEF Spec, FeedbackIsFinal
=============================================================================
