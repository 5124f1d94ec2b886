-------------------------- MODULE InstrumentProofs --------------------------
(***************************************************************************)
(* Theorems about Instrument: for every library, every program and every   *)
(* listing, the announcements, the recorded calls and the calls of the     *)
(* running program belong together.                                        *)
(***************************************************************************)
EXTENDS Instrument, TLAPS, NaturalsInduction, WellFoundedInduction

-----------------------------------------------------------------------------
(* The listing and the reader. *)

\* A non-empty set of numbers up to n has a greatest element.
LEMMA GreatestUpTo ==
    ASSUME NEW n \in Nat, NEW S, S \subseteq 0..n, S # {}
    PROVE  \E j \in S : \A k \in S : k <= j
  <1> DEFINE R == {n - i : i \in S}
  <1>a. \A i \in S : i \in 0..n /\ n - i \in Nat
    OBVIOUS
  <1>1. R \subseteq Nat /\ R # {}
    BY <1>a
  <1>2. PICK r \in R : \A k \in R : ~(<<k, r>> \in OpToRel(<, Nat))
    BY <1>1, NatLessThanWellFounded, WFMin
  <1>3. ASSUME NEW k \in R PROVE ~(k < r)
    <2>1. <<k, r>> \in Nat \X Nat /\ <<k, r>>[1] = k /\ <<k, r>>[2] = r
      BY <1>1
    <2> QED
      BY <1>2, <2>1 DEF OpToRel
  <1>4. PICK j \in S : r = n - j
    OBVIOUS
  <1>5. ASSUME NEW k \in S PROVE k <= j
    <2>1. n - k \in R
      OBVIOUS
    <2>2. ~(n - k < n - j)
      BY <1>3, <1>4, <2>1
    <2>3. j \in Int /\ k \in Int
      BY <1>a
    <2> HIDE DEF R
    <2>4. ASSUME NEW x \in Int, NEW y \in Int, ~(n - x < n - y) PROVE x <= y
      BY <2>4
    <2> QED
      BY <2>2, <2>3, <2>4
  <1> QED
    BY <1>5

\* A name is mapped to an index under which it is listed.
LEMMA MapOfListing ==
    ASSUME NEW T \in Seq(Symbol), NEW l \in Listings(T)
    PROVE  /\ DOMAIN MapOf(l) = {l[i] : i \in DOMAIN l}
           /\ \A n \in DOMAIN MapOf(l) : /\ MapOf(l)[n] \in Nat /\ MapOf(l)[n] \in DOMAIN l
                                       /\ l[MapOf(l)[n]] = n
  <1>1. DOMAIN l \subseteq 0..Len(T)
    <2>1. PICK n \in 0..Len(T) : l = Cut(Lines(T), n)
      BY DEF Listings
    <2>2. DOMAIN l \subseteq DOMAIN Lines(T)
      BY <2>1 DEF Cut
    <2>3. DOMAIN Lines(T) \subseteq 1..Len(T)
      BY DEF Lines
    <2> QED
      BY <2>2, <2>3
  <1>2. ASSUME NEW n \in {l[i] : i \in DOMAIN l}
        PROVE  MapOf(l)[n] \in Nat /\ MapOf(l)[n] \in DOMAIN l /\ l[MapOf(l)[n]] = n
    <2> DEFINE S == {i \in DOMAIN l : l[i] = n}
               P(i) == l[i] = n /\ \A j \in DOMAIN l : l[j] = n => j <= i
    <2>1. S \subseteq 0..Len(T) /\ S # {} /\ Len(T) \in Nat
      BY <1>1
    <2>2. PICK i \in S : \A k \in S : k <= i
      BY <2>1, GreatestUpTo
    <2>3. i \in DOMAIN l /\ P(i)
      BY <2>2
    <2>4. (CHOOSE k \in DOMAIN l : P(k)) \in DOMAIN l /\ P(CHOOSE k \in DOMAIN l : P(k))
      BY <2>3
    <2>5. MapOf(l)[n] = (CHOOSE k \in DOMAIN l : P(k))
      BY DEF MapOf, ValueOf
    <2> QED
      BY <1>1, <2>4, <2>5
  <1>3. DOMAIN MapOf(l) = {l[i] : i \in DOMAIN l}
    BY DEF MapOf
  <1> QED
    BY <1>2, <1>3

-----------------------------------------------------------------------------
(* Blocks, and what is placed in them. *)

\* What the compiler guarantees of a block.
LEMMA BlockFacts ==
    ASSUME code \in Modules, NEW f \in DOMAIN code, NEW b \in 1..Len(code[f])
    PROVE  /\ Len(code[f]) \in Nat \ {0} /\ 1 \in 1..Len(code[f])
           /\ code[f][b].code \in Seq(Instruction)
           /\ Len(code[f][b].code) \in Nat \ {0} /\ 1 \in 1..Len(code[f][b].code)
           /\ \A k \in 1..Len(code[f][b].code) : code[f][b].code[k] \in Instruction
           /\ \A k \in 1..Len(code[f][b].code) :
                 code[f][b].code[k].op = "ret" => code[f][b].succ = {} /\ k = Len(code[f][b].code)
           /\ code[f][b].succ \subseteq 2..Len(code[f])
           /\ code[f][b].code[Len(code[f][b].code)].op \notin {"call", "indirect"}
  <1>1. Len(code[f]) \in Nat \ {0} /\ Block(code[f][b], code[f])
    BY InstrumentAssumption
  <1> DEFINE c == code[f][b].code
  <1>2. c \in Seq(Instruction) /\ c # <<>>
    BY <1>1 DEF Block
  <1> HIDE DEF c
  <1>3. Len(c) \in Nat \ {0} /\ 1 \in 1..Len(c) /\ \A k \in 1..Len(c) : c[k] \in Instruction
    BY <1>2
  <1> QED
    BY <1>1, <1>2, <1>3 DEF Block, c

\* Every program has a main.
LEMMA MainFacts ==
    ASSUME code \in Modules
    PROVE  /\ "main" \in DOMAIN code \cap MainLike /\ "main" \notin Skipped
           /\ \A f \in DOMAIN code : Len(code[f]) \in Nat \ {0}
  BY InstrumentAssumption

\* An instruction is none of the system calls.
LEMMA InstructionOps ==
    ASSUME NEW I \in Instruction
    PROVE  I.op \in {"call", "indirect", "other", "ret"} /\ I.op \notin {"dummycall", "init", "cleanup"}
  BY DEF Instruction

\* What is placed before an instruction is a system call.
LEMMA SystemCallOps ==
    ASSUME NEW s \in Seq(SystemCall), NEW i \in 1..Len(s)
    PROVE  s[i].op \in {"dummycall", "init", "cleanup"}
  <1>1. s[i] \in SystemCall
    OBVIOUS
  <1> QED
    BY <1>1 DEF SystemCall

\* One more system call before place i.
LEMMA InsertAtFacts ==
    ASSUME NEW S, NEW s \in Seq(S), NEW e \in S, NEW i \in 1..(Len(s) + 1)
    PROVE  /\ InsertAt(s, i, e) \in Seq(S) /\ Len(InsertAt(s, i, e)) = Len(s) + 1
           /\ \A k \in 1..(Len(s) + 1) :
                 InsertAt(s, i, e)[k] = IF k < i THEN s[k] ELSE IF k = i THEN e ELSE s[k - 1]
  <1> DEFINE u == SubSeq(s, 1, i - 1)
             v == SubSeq(s, i, Len(s))
  <1>1. u \in Seq(S) /\ Len(u) = i - 1 /\ \A k \in 1..(i - 1) : u[k] = s[k]
    OBVIOUS
  <1>2. v \in Seq(S) /\ Len(v) = Len(s) + 1 - i /\ \A k \in 1..(Len(s) + 1 - i) : v[k] = s[i + k - 1]
    OBVIOUS
  <1>3. InsertAt(s, i, e) = u \o <<e>> \o v
    BY DEF InsertAt
  <1> HIDE DEF u, v
  <1>4. /\ u \o <<e>> \in Seq(S) /\ Len(u \o <<e>>) = i
        /\ \A k \in 1..i : (u \o <<e>>)[k] = IF k < i THEN s[k] ELSE e
    BY <1>1
  <1> DEFINE w == u \o <<e>>
  <1> HIDE DEF w
  <1>5. w \in Seq(S) /\ Len(w) = i /\ \A k \in 1..i : w[k] = IF k < i THEN s[k] ELSE e
    BY <1>4 DEF w
  <1>6. /\ w \o v \in Seq(S) /\ Len(w \o v) = Len(s) + 1
        /\ \A k \in 1..(Len(s) + 1) : (w \o v)[k] = IF k <= i THEN w[k] ELSE v[k - i]
    <2>1. v \in Seq(S) /\ w \in Seq(S) /\ Len(w) + Len(v) = Len(s) + 1 /\ Len(w) = i
      BY <1>2, <1>5
    <2>2. /\ w \o v \in Seq(S) /\ Len(w \o v) = Len(w) + Len(v)
          /\ \A k \in 1..(Len(w) + Len(v)) : (w \o v)[k] = IF k <= Len(w) THEN w[k] ELSE v[k - Len(w)]
      BY <2>1
    <2> QED
      BY <2>1, <2>2
  <1>7. \A k \in 1..(Len(s) + 1) : (w \o v)[k] = IF k < i THEN s[k] ELSE IF k = i THEN e ELSE s[k - 1]
    <2> SUFFICES ASSUME NEW k \in 1..(Len(s) + 1)
                 PROVE  (w \o v)[k] = IF k < i THEN s[k] ELSE IF k = i THEN e ELSE s[k - 1]
      OBVIOUS
    <2>1. CASE k <= i
      BY <1>5, <1>6, <2>1
    <2>2. CASE k > i
      <3>1. k - i \in 1..(Len(s) + 1 - i) /\ i + (k - i) - 1 = k - 1
        BY <2>2
      <3>2. v[k - i] = s[k - 1]
        BY <1>2, <3>1
      <3> QED
        BY <1>6, <2>2, <3>2
    <2>3. k <= i \/ k > i
      OBVIOUS
    <2> QED
      BY <2>1, <2>2, <2>3
  <1> QED
    BY <1>3, <1>6, <1>7 DEF w

-----------------------------------------------------------------------------
(* The tool chain. *)

\* One more system call after the others.
LEMMA InsertLast ==
    ASSUME NEW S, NEW s \in Seq(S), NEW e \in S, NEW t, t = InsertAt(s, Len(s) + 1, e)
    PROVE  Len(t) = Len(s) + 1 /\ t[Len(s) + 1] = e /\ \A i \in 1..Len(s) : t[i] = s[i]
  <1>1. PICK n \in Nat : n = Len(s)
    OBVIOUS
  <1>2. n + 1 \in 1..(n + 1)
    OBVIOUS
  <1>3. \A j \in 1..(Len(s) + 1) :
           /\ Len(InsertAt(s, j, e)) = Len(s) + 1
           /\ \A k \in 1..(Len(s) + 1) :
                 InsertAt(s, j, e)[k] = IF k < j THEN s[k] ELSE IF k = j THEN e ELSE s[k - 1]
    BY InsertAtFacts
  <1>4. /\ Len(t) = n + 1
        /\ \A k \in 1..(n + 1) : t[k] = IF k < n + 1 THEN s[k] ELSE IF k = n + 1 THEN e ELSE s[k - 1]
    BY <1>1, <1>2, <1>3
  <1>5. \A i \in 1..n : i \in 1..(n + 1) /\ i < n + 1
    OBVIOUS
  <1> QED
    BY <1>1, <1>2, <1>4, <1>5

\* The tool chain starts with nothing listed, placed or recorded.
LEMMA InitStarts == Init => InstrumentInv
  <1> SUFFICES ASSUME Init PROVE InstrumentInv
    OBVIOUS
  <1>0. "main" \in waiting
    BY MainFacts DEF Init
  <1>1. ReaderInv
    BY DEF Init, ReaderInv
  <1>2. PlacedInv
    <2>1. \A f \in DOMAIN code : \A b \in 1..Len(code[f]) : \A k \in 1..Len(code[f][b].code) :
             inserted[f][b][k] = <<>>
      BY DEF Init
    <2>2. ASSUME NEW f \in DOMAIN code, NEW I PROVE PlacedAt(f, I, <<>>)
      <3>1. <<>> \in Seq(SystemCall) /\ Len(<<>>) = 0
        OBVIOUS
      <3>2. ~(f \notin waiting /\ ListedCall(f, I))
        BY DEF Init, ListedCall
      <3> QED
        BY <3>1, <3>2 DEF PlacedAt, NoneIn
    <2> QED
      BY <2>1, <2>2 DEF Init, PlacedInv, PlacedIn
  <1>3. InitInv /\ CleanupInv
    BY DEF Init, InitInv, CleanupInv
  <1>4. RecordInv
    <2>1. DOMAIN code \ (Skipped \cup waiting) = {}
      BY DEF Init
    <2> QED
      BY <2>1 DEF Init, RecordInv
  <1>5. RunInv /\ StartInv /\ EndInv
    BY DEF Init, RunInv, StartInv, EndInv
  <1> QED
    BY <1>1, <1>2, <1>3, <1>4, <1>5 DEF InstrumentInv

\* Nothing of the running program exists before it is started.
LEMMA BeforeRun ==
    ASSUME InstrumentInv, UNCHANGED process,
           phase \in {"dump", "read", "inject", "init"},
           phase' \in {"read", "inject", "init", "cleanup"},
           phase' # "read" => (phase' = "inject" <=> waiting' # {})
    PROVE  RunInv' /\ StartInv' /\ EndInv' /\ CleanupInv'
  <1>1. stack = <<>> /\ announced = <<>> /\ ~ inited /\ ~ cleaned
    BY DEF InstrumentInv, RunInv
  <1>2. RunInv'
    BY <1>1 DEF process, RunInv
  <1> QED
    BY <1>1, <1>2 DEF process, StartInv, EndInv, CleanupInv

\* extractFunctionNames writes a listing of the library.
LEMMA ExtractStep ==
    ASSUME InstrumentInv, extractFunctionNames
    PROVE  InstrumentInv'
  <1>1. /\ phase = "dump" /\ phase' = "read" /\ listing' \in {listing} \cup Listings(Symbols)
        /\ UNCHANGED <<stringMap, loaded, code, inserted, bbToLibcMap, waiting, process>>
    BY DEF extractFunctionNames, reader, pass
  <1>2. RunInv' /\ StartInv' /\ EndInv' /\ CleanupInv'
    BY <1>1, BeforeRun
  <1>3. ReaderInv'
    BY <1>1 DEF InstrumentInv, ReaderInv
  <1>4. PlacedInv'
    <2>1. ASSUME NEW f \in DOMAIN code, NEW I, NEW before, PlacedAt(f, I, before)
          PROVE  PlacedAt(f, I, before)'
      BY <1>1, <2>1 DEF PlacedAt, ListedCall, isStringInMap, Announcing, Announce, NoneIn
    <2> QED
      BY <1>1, <2>1 DEF InstrumentInv, PlacedInv, PlacedIn
  <1>5. InitInv' /\ RecordInv'
    BY <1>1 DEF InstrumentInv, InitInv, RecordInv, CallsIn, Kind, isStringInMap
  <1> QED
    BY <1>2, <1>3, <1>4, <1>5 DEF InstrumentInv

\* readFileToMap takes the map from the listing, if there is one.
LEMMA ReadStep ==
    ASSUME InstrumentInv, readFileToMap
    PROVE  InstrumentInv'
  <1>1. /\ phase = "read" /\ phase' = "inject"
        /\ UNCHANGED <<listing, code, inserted, bbToLibcMap, waiting, process>>
    BY DEF readFileToMap, pass
  <1>2. waiting = DOMAIN code \ Skipped /\ waiting # {}
    BY <1>1, MainFacts DEF InstrumentInv, ReaderInv, PlacedInv
  <1>3. RunInv' /\ StartInv' /\ EndInv' /\ CleanupInv'
    BY <1>1, <1>2, BeforeRun
  <1>4. ReaderInv'
    <2>1. CASE listing = NULL
      BY <1>1, <2>1 DEF readFileToMap, reader, InstrumentInv, ReaderInv
    <2>2. CASE listing # NULL
      <3>1. PICK T \in {Symbols} \cup OldTables : listing \in Listings(T)
        BY <2>2 DEF InstrumentInv, ReaderInv
      <3>2. T \in Seq(Symbol)
        BY InstrumentAssumption
      <3>3. stringMap' = MapOf(listing)
        BY <2>2 DEF readFileToMap
      <3>4. \A n \in DOMAIN stringMap' : /\ stringMap'[n] \in Nat /\ stringMap'[n] \in DOMAIN listing
                                          /\ listing[stringMap'[n]] = n
        BY <3>1, <3>2, <3>3, MapOfListing
      <3>5. stringMap' \in [DOMAIN stringMap' -> Nat]
        <4>1. stringMap' = [n \in DOMAIN stringMap' |-> stringMap'[n]]
          BY <3>3 DEF MapOf
        <4> QED
          BY <3>4, <4>1
      <3> QED
        BY <1>1, <3>1, <3>4, <3>5 DEF ReaderInv
    <2> QED
      BY <2>1, <2>2
  <1>5. PlacedInv'
    <2>1. ASSUME NEW f \in DOMAIN code, NEW I, NEW before, PlacedAt(f, I, before)
          PROVE  PlacedAt(f, I, before)'
      <3>1. ~(f \notin waiting /\ f \notin Skipped)
        BY <1>2
      <3> QED
        BY <1>1, <2>1, <3>1 DEF PlacedAt, ListedCall, NoneIn
    <2> QED
      BY <1>1, <2>1 DEF InstrumentInv, PlacedInv, PlacedIn
  <1>6. InitInv' /\ RecordInv'
    BY <1>1, <1>2 DEF InstrumentInv, InitInv, RecordInv
  <1> QED
    BY <1>3, <1>4, <1>5, <1>6 DEF InstrumentInv

\* Nothing stands in a function that waits for its visit.
LEMMA NothingPlaced ==
    ASSUME InstrumentInv, phase = "inject", NEW f \in waiting, f \in DOMAIN code,
           NEW b \in 1..Len(code[f]), NEW k \in 1..Len(code[f][b].code)
    PROVE  inserted[f][b][k] = <<>>
  <1> DEFINE s == inserted[f][b][k]
  <1>1. PlacedAt(f, code[f][b].code[k], s)
    BY DEF InstrumentInv, PlacedInv, PlacedIn
  <1> HIDE DEF s
  <1>2. /\ s \in Seq(SystemCall)
        /\ NoneIn(s, "dummycall") /\ NoneIn(s, "init") /\ NoneIn(s, "cleanup")
    BY <1>1 DEF PlacedAt
  <1>3. \A i \in 1..Len(s) : FALSE
    BY <1>2, SystemCallOps DEF NoneIn
  <1>4. Len(s) = 0
    BY <1>2, <1>3
  <1> QED
    BY <1>2, <1>4 DEF s

\* The calls recorded are the calls of the block.
LEMMA RecordedCalls ==
    ASSUME InstrumentInv, phase = "inject", NEW f \in waiting, f \in DOMAIN code,
           NEW b \in 1..Len(code[f])
    PROVE  Recorded(f, b) = CallsIn(code[f][b])
  <1> DEFINE B == code[f][b]
             before == inserted[f][b]
             D == {p \in Places(B, before) : At(B, before, p[1], p[2]).op \notin {"indirect", "other", "ret"}}
             E == {k \in 1..Len(B.code) : B.code[k].op = "call"} \X {1}
  <1>1. \A k \in 1..Len(B.code) : before[k] = <<>> /\ B.code[k] \in Instruction
    <2>1. \A k \in 1..Len(B.code) : before[k] = <<>>
      BY NothingPlaced
    <2>2. \A k \in 1..Len(B.code) : B.code[k] \in Instruction
      BY BlockFacts DEF InstrumentInv, PlacedInv
    <2> QED
      BY <2>1, <2>2
  <1> HIDE DEF B, before
  <1>2. \A k \in 1..Len(B.code) : Len(before[k]) = 0
    BY <1>1
  <1>3. \A k \in 1..Len(B.code) : At(B, before, k, 1) = B.code[k]
    BY <1>2 DEF At
  <1>4. Places(B, before) = (1..Len(B.code)) \X {1}
    <2>1. \A k \in 1..Len(B.code) : 1..(Len(before[k]) + 1) = {1}
      BY <1>2
    <2> QED
      BY <2>1 DEF Places
  <1>5. D = E
    <2>1. ASSUME NEW p \in (1..Len(B.code)) \X {1} PROVE p \in D <=> p \in E
      <3>1. p[1] \in 1..Len(B.code) /\ p[2] = 1 /\ p = <<p[1], 1>>
        OBVIOUS
      <3>2. At(B, before, p[1], p[2]) = B.code[p[1]] /\ B.code[p[1]] \in Instruction
        BY <1>1, <1>3, <3>1
      <3>3. B.code[p[1]].op \notin {"indirect", "other", "ret"} <=> B.code[p[1]].op = "call"
        BY <3>2, InstructionOps
      <3> QED
        BY <1>4, <3>1, <3>2, <3>3
    <2> QED
      BY <1>4, <2>1
  <1>6. \A p \in E : At(B, before, p[1], p[2]) = B.code[p[1]] /\ Callee(B.code[p[1]]) = B.code[p[1]].arg
    BY <1>3 DEF Callee
  <1>7. getLibraryCalls(B, before) =
           [p \in D |-> [kind |-> Kind(Callee(At(B, before, p[1], p[2]))), name |-> Callee(At(B, before, p[1], p[2]))]]
    BY DEF getLibraryCalls
  <1>8. getLibraryCalls(B, before) =
           [p \in E |-> [kind |-> Kind(B.code[p[1]].arg), name |-> B.code[p[1]].arg]]
    BY <1>5, <1>6, <1>7
  <1> QED
    BY <1>8 DEF Recorded, CallsIn, B, before

\* One function of runOnModule: recorded first, then announced.
LEMMA VisitStep ==
    ASSUME InstrumentInv, runOnModule
    PROVE  InstrumentInv'
  <1> DEFINE f == CHOOSE f \in waiting : TRUE
  <1>1. /\ phase = "inject" /\ phase' = (IF waiting' = {} THEN "init" ELSE "inject")
        /\ waiting' = waiting \ {f}
        /\ bbToLibcMap' = [bbToLibcMap EXCEPT ![f] = [b \in 1..Len(code[f]) |-> Recorded(f, b)]]
        /\ inserted' = [inserted EXCEPT ![f] = [b \in 1..Len(code[f]) |-> Injected(f, b)]]
        /\ UNCHANGED <<listing, stringMap, loaded, code, process>>
    BY DEF runOnModule, reader
  <1>2. f \in waiting
    BY <1>1 DEF InstrumentInv, RunInv
  <1> HIDE DEF f
  <1>3. RunInv' /\ StartInv' /\ EndInv' /\ CleanupInv'
    BY <1>1, BeforeRun
  <1>4. ReaderInv'
    BY <1>1 DEF InstrumentInv, ReaderInv
  <1>5. PlacedInv'
    <2>1. code \in Modules /\ inserted = [g \in DOMAIN code |-> inserted[g]]
      BY DEF InstrumentInv, PlacedInv
    <2>2. inserted' = [g \in DOMAIN code |-> inserted'[g]]
      BY <1>1, <2>1
    <2>3. ASSUME NEW g \in DOMAIN code PROVE PlacedIn(g, inserted[g])'
      <3>1. CASE g # f
        <4>1. inserted'[g] = inserted[g] /\ (g \in waiting' <=> g \in waiting)
          BY <1>1, <2>1, <3>1
        <4>2. ASSUME NEW I, NEW before, PlacedAt(g, I, before)
              PROVE  PlacedAt(g, I, before)'
          BY <1>1, <4>1, <4>2 DEF PlacedAt, ListedCall, isStringInMap, Announcing, Announce, NoneIn
        <4>3. PlacedIn(g, inserted[g])
          BY DEF InstrumentInv, PlacedInv
        <4> QED
          BY <1>1, <4>1, <4>2, <4>3 DEF PlacedIn
      <3>2. CASE g = f
        <4>1. inserted'[g] = [b \in 1..Len(code[g]) |-> Injected(g, b)] /\ g \notin waiting'
          BY <1>1, <2>1, <3>2
        <4>2. \A b \in 1..Len(code[g]) :
                 Injected(g, b) = [k \in 1..Len(code[g][b].code) |->
                    IF ListedCall(g, code[g][b].code[k]) THEN <<Announce(code[g][b].code[k])>> ELSE <<>>]
          BY DEF Injected
        <4>3. ASSUME NEW I, NEW before, before = IF ListedCall(g, I) THEN <<Announce(I)>> ELSE <<>>
              PROVE  PlacedAt(g, I, before)'
          <5>1. (ListedCall(g, I)' <=> ListedCall(g, I)) /\ Announce(I)' = Announce(I)
            BY <1>1 DEF ListedCall, isStringInMap, Announce
          <5>2. CASE ListedCall(g, I)
            <6>1. Announce(I) \in SystemCall /\ Announce(I).op = "dummycall"
              BY <5>2 DEF ListedCall, isStringInMap, Announce, SystemCall, InstrumentInv, ReaderInv
            <6>2. before = <<Announce(I)>> /\ before \in Seq(SystemCall)
              BY <4>3, <5>2, <6>1
            <6>3. Len(before) = 1 /\ before[1] = Announce(I) /\ \A i \in 1..Len(before) : i = 1
              BY <6>2
            <6>4. Announcing(before, I)'
              BY <5>1, <6>3 DEF Announcing
            <6>5. NoneIn(before, "init") /\ NoneIn(before, "cleanup")
              BY <6>1, <6>3 DEF NoneIn
            <6> QED
              BY <4>1, <5>1, <5>2, <6>2, <6>4, <6>5 DEF PlacedAt
          <5>3. CASE ~ ListedCall(g, I)
            <6>1. before = <<>> /\ before \in Seq(SystemCall) /\ Len(before) = 0
              BY <4>3, <5>3
            <6>2. NoneIn(before, "dummycall") /\ NoneIn(before, "init") /\ NoneIn(before, "cleanup")
              BY <6>1 DEF NoneIn
            <6> QED
              BY <5>1, <5>3, <6>1, <6>2 DEF PlacedAt
          <5> QED
            BY <5>2, <5>3
        <4>4. ASSUME NEW b \in 1..Len(code[g]), NEW k \in 1..Len(code[g][b].code)
              PROVE  PlacedAt(g, code[g][b].code[k], inserted[g][b][k])'
          <5>1. inserted'[g][b][k] = IF ListedCall(g, code[g][b].code[k])
                                     THEN <<Announce(code[g][b].code[k])>> ELSE <<>>
            BY <4>1, <4>2
          <5> QED
            BY <1>1, <4>3, <5>1
        <4>5. inserted'[g] = [b \in 1..Len(code[g]) |-> inserted'[g][b]]
          BY <4>1
        <4>6. ASSUME NEW b \in 1..Len(code[g])
              PROVE  inserted'[g][b] = [k \in 1..Len(code[g][b].code) |-> inserted'[g][b][k]]
          <5>1. inserted'[g][b] = Injected(g, b)
            BY <4>1
          <5> QED
            BY <4>2, <5>1
        <4> QED
          BY <1>1, <4>4, <4>5, <4>6 DEF PlacedIn
      <3> QED
        BY <3>1, <3>2
    <2> QED
      BY <1>1, <2>1, <2>2, <2>3 DEF PlacedInv
  <1>6. InitInv'
    BY <1>1 DEF InitInv
  <1>7. RecordInv'
    <2>1. bbToLibcMap = [g \in DOMAIN code |-> bbToLibcMap[g]]
      BY DEF InstrumentInv, RecordInv
    <2>2. bbToLibcMap' = [g \in DOMAIN code |-> bbToLibcMap'[g]]
      BY <1>1, <2>1
    <2>3. ASSUME NEW B PROVE CallsIn(B)' = CallsIn(B)
      BY <1>1 DEF CallsIn, Kind, isStringInMap
    <2>4. ASSUME NEW g \in DOMAIN code \ (Skipped \cup waiting'), NEW b \in 1..Len(code[g])
          PROVE  bbToLibcMap'[g][b] = CallsIn(code[g][b])
      <3>1. CASE g = f
        <4>1. bbToLibcMap'[g][b] = Recorded(g, b)
          BY <1>1, <2>1, <3>1
        <4>2. g \in waiting /\ g \in DOMAIN code
          BY <1>2, <3>1
        <4> QED
          BY <1>1, <4>1, <4>2, RecordedCalls
      <3>2. CASE g # f
        <4>1. bbToLibcMap'[g] = bbToLibcMap[g] /\ g \in DOMAIN code \ (Skipped \cup waiting)
          BY <1>1, <2>1, <3>2
        <4> QED
          BY <4>1 DEF InstrumentInv, RecordInv
      <3> QED
        BY <3>1, <3>2
    <2> QED
      BY <1>1, <2>2, <2>3, <2>4 DEF RecordInv
  <1> QED
    BY <1>3, <1>4, <1>5, <1>6, <1>7 DEF InstrumentInv

\* The system calls before one instruction.
LEMMA PlacedHere ==
    ASSUME InstrumentInv, NEW f \in DOMAIN code, NEW b \in 1..Len(code[f]),
           NEW k \in 1..Len(code[f][b].code)
    PROVE  /\ PlacedAt(f, code[f][b].code[k], inserted[f][b][k])
           /\ inserted[f][b][k] \in Seq(SystemCall) /\ Len(inserted[f][b][k]) \in Nat
  <1>1. PlacedAt(f, code[f][b].code[k], inserted[f][b][k])
    BY DEF InstrumentInv, PlacedInv, PlacedIn
  <1>2. inserted[f][b][k] \in Seq(SystemCall)
    BY <1>1 DEF PlacedAt
  <1> QED
    BY <1>1, <1>2

\* Q has a row of system calls for every instruction of f.
Shaped(f, Q) ==
    /\ Q = [c \in 1..Len(code[f]) |-> Q[c]]
    /\ \A c \in 1..Len(code[f]) : Q[c] = [l \in 1..Len(code[f][c].code) |-> Q[c][l]]

\* Q is what was inserted into f, with t at instruction k of block b.
Replaced(f, Q, b, k, t) ==
    \A c \in 1..Len(code[f]) : \A l \in 1..Len(code[f][c].code) :
        Q[c][l] = IF c = b /\ l = k THEN t ELSE inserted[f][c][l]

\* One system call more in a block.
LEMMA PlaceShape ==
    ASSUME InstrumentInv, NEW f \in DOMAIN code, NEW b \in 1..Len(code[f]),
           NEW k \in 1..Len(code[f][b].code), NEW t, NEW Q,
           Q = [inserted[f] EXCEPT ![b][k] = t]
    PROVE  Shaped(f, Q) /\ Replaced(f, Q, b, k, t)
  <1> DEFINE P == inserted[f]
  <1>1. /\ P = [c \in 1..Len(code[f]) |-> P[c]]
        /\ \A c \in 1..Len(code[f]) : P[c] = [l \in 1..Len(code[f][c].code) |-> P[c][l]]
    BY DEF InstrumentInv, PlacedInv, PlacedIn
  <1>2. Q = [P EXCEPT ![b] = [P[b] EXCEPT ![k] = t]]
    OBVIOUS
  <1> HIDE DEF P
  <1>3. /\ Q = [c \in 1..Len(code[f]) |-> Q[c]]
        /\ \A c \in 1..Len(code[f]) : Q[c] = IF c = b THEN [P[b] EXCEPT ![k] = t] ELSE P[c]
    BY <1>1, <1>2
  <1>4. ASSUME NEW c \in 1..Len(code[f])
        PROVE  /\ Q[c] = [l \in 1..Len(code[f][c].code) |-> Q[c][l]]
               /\ \A l \in 1..Len(code[f][c].code) : Q[c][l] = IF c = b /\ l = k THEN t ELSE P[c][l]
    <2>1. CASE c = b
      <3>1. Q[c] = [P[c] EXCEPT ![k] = t]
        BY <1>3, <2>1
      <3>2. P[c] = [l \in 1..Len(code[f][c].code) |-> P[c][l]]
        BY <1>1
      <3>3. PICK D : D = 1..Len(code[f][c].code)
        OBVIOUS
      <3>4. PICK g : g = P[c]
        OBVIOUS
      <3>5. PICK h : h = Q[c]
        OBVIOUS
      <3>6. h = [g EXCEPT ![k] = t] /\ g = [l \in D |-> g[l]]
        BY <3>1, <3>2, <3>3, <3>4, <3>5
      <3>7. h = [l \in D |-> h[l]]
        BY <3>6
      <3>8. \A l \in D : h[l] = IF l = k THEN t ELSE g[l]
        BY <3>6
      <3> QED
        BY <2>1, <3>3, <3>4, <3>5, <3>7, <3>8
    <2>2. CASE c # b
      BY <1>1, <1>3, <2>2
    <2> QED
      BY <2>1, <2>2
  <1> QED
    BY <1>3, <1>4 DEF P, Shaped, Replaced

\* Announcements keep announcing when a handler places its call before them, or
\* the cleanup after them.
LEMMA PlaceSequence ==
    ASSUME NEW f, NEW I, NEW s, PlacedAt(f, I, s), NEW i \in 1..(Len(s) + 1), NEW op,
           UNCHANGED <<stringMap, loaded, waiting>>,
           \/ op = "init" /\ phase = "init" /\ phase' = "cleanup" /\ i = 1
           \/ op = "cleanup" /\ phase = "cleanup" /\ phase' = "run" /\ (ListedCall(f, I) => i = Len(s) + 1)
    PROVE  PlacedAt(f, I, InsertAt(s, i, SysCall(op)))'
  <1> DEFINE t == InsertAt(s, i, SysCall(op))
  <1>1. s \in Seq(SystemCall) /\ SysCall(op) \in SystemCall /\ SysCall(op).op = op
    BY DEF PlacedAt, SysCall, SystemCall
  <1>2. /\ t \in Seq(SystemCall) /\ Len(t) = Len(s) + 1
        /\ \A k \in 1..(Len(s) + 1) : t[k] = IF k < i THEN s[k] ELSE IF k = i THEN SysCall(op) ELSE s[k - 1]
    BY <1>1, InsertAtFacts
  <1>3. Len(s) \in Nat /\ Len(t) \in Nat /\ i \in Nat
    BY <1>1, <1>2
  <1> HIDE DEF t
  <1>4. ASSUME NEW o, o # op, NoneIn(s, o) PROVE NoneIn(t, o)
    <2> SUFFICES ASSUME NEW k \in 1..Len(t) PROVE t[k].op # o
      BY DEF NoneIn
    <2>1. CASE k < i
      BY <1>2, <1>3, <1>4, <2>1 DEF NoneIn
    <2>2. CASE k = i
      BY <1>1, <1>2, <1>3, <1>4, <2>2
    <2>3. CASE k > i
      <3>1. k - 1 \in 1..Len(s) /\ t[k] = s[k - 1]
        BY <1>2, <1>3, <2>3
      <3> QED
        BY <1>4, <3>1 DEF NoneIn
    <2> QED
      BY <1>3, <2>1, <2>2, <2>3
  <1>5. (ListedCall(f, I)' <=> ListedCall(f, I)) /\ Announce(I)' = Announce(I)
    BY DEF ListedCall, isStringInMap, Announce
  <1>6. CASE f \notin waiting /\ ListedCall(f, I)
    <2>1. PICK d \in 1..Len(s) : /\ s[d] = Announce(I)
                                 /\ \A k \in 1..Len(s) : /\ k # d => s[k].op # "dummycall"
                                                         /\ k > d => s[k].op = "cleanup"
      BY <1>6 DEF PlacedAt, Announcing
    <2>2. CASE op = "init"
      <3>1. /\ i = 1 /\ t[1] = SysCall(op) /\ d + 1 \in 1..Len(t)
            /\ \A k \in 2..Len(t) : k - 1 \in 1..Len(s) /\ t[k] = s[k - 1]
        BY <1>2, <1>3, <2>2
      <3>2. t[d + 1] = Announce(I)
        <4>1. d + 1 \in 2..Len(t) /\ (d + 1) - 1 = d
          BY <1>2, <1>3
        <4> QED
          BY <2>1, <3>1, <4>1
      <3>3. ASSUME NEW k \in 1..Len(t)
            PROVE  (k # d + 1 => t[k].op # "dummycall") /\ (k > d + 1 => t[k].op = "cleanup")
        <4>1. CASE k = 1
          BY <1>1, <1>3, <2>2, <3>1, <4>1
        <4>2. CASE k \in 2..Len(t)
          BY <1>3, <2>1, <3>1, <4>2
        <4> QED
          BY <1>3, <4>1, <4>2
      <3>4. Announcing(t, I)'
        BY <1>5, <3>1, <3>2, <3>3 DEF Announcing
      <3>5. NoneIn(t, "cleanup")
        BY <1>4, <2>2 DEF PlacedAt
      <3> QED
        BY <1>2, <1>5, <1>6, <2>2, <3>4, <3>5 DEF PlacedAt, t
    <2>3. CASE op = "cleanup"
      <3>1. /\ i = Len(s) + 1 /\ t[Len(s) + 1] = SysCall(op) /\ d \in 1..Len(t)
            /\ \A k \in 1..Len(s) : t[k] = s[k]
        BY <1>2, <1>3, <1>6, <2>3
      <3>2. t[d] = Announce(I)
        BY <2>1, <3>1
      <3>3. ASSUME NEW k \in 1..Len(t)
            PROVE  (k # d => t[k].op # "dummycall") /\ (k > d => t[k].op = "cleanup")
        <4>1. CASE k = Len(s) + 1
          BY <1>1, <2>3, <3>1, <4>1
        <4>2. CASE k \in 1..Len(s)
          BY <2>1, <3>1, <4>2
        <4> QED
          BY <1>2, <1>3, <4>1, <4>2
      <3>4. Announcing(t, I)'
        BY <1>5, <3>1, <3>2, <3>3 DEF Announcing
      <3> QED
        BY <1>2, <1>5, <1>6, <2>3, <3>4 DEF PlacedAt, t
    <2> QED
      BY <2>2, <2>3
  <1>7. CASE ~(f \notin waiting /\ ListedCall(f, I))
    <2>1. NoneIn(t, "dummycall")
      BY <1>4, <1>7 DEF PlacedAt
    <2>2. op = "init" => NoneIn(t, "cleanup")
      BY <1>4 DEF PlacedAt
    <2> QED
      BY <1>2, <1>5, <1>7, <2>1, <2>2 DEF PlacedAt, t
  <1> QED
    BY <1>6, <1>7

\* SectionAddressHandler puts sandbox_init ahead of everything in each main.
LEMMA SectionStep ==
    ASSUME InstrumentInv, SectionAddressHandler
    PROVE  InstrumentInv'
  <1> DEFINE e == SysCall("init")
  <1>1. /\ phase = "init" /\ phase' = "cleanup"
        /\ UNCHANGED <<listing, stringMap, loaded, code, bbToLibcMap, waiting, process>>
        /\ inserted' = [f \in DOMAIN code |->
                          IF f \in MainLike THEN [inserted[f] EXCEPT ![1][1] = InsertAt(@, 1, e)]
                          ELSE inserted[f]]
    BY DEF SectionAddressHandler, InMains, InitBlock, reader
  <1>2. code \in Modules /\ waiting = {}
    BY <1>1 DEF InstrumentInv, PlacedInv, RunInv
  <1>3. RunInv' /\ StartInv' /\ EndInv' /\ CleanupInv'
    BY <1>1, <1>2, BeforeRun
  <1>4. ReaderInv'
    BY <1>1 DEF InstrumentInv, ReaderInv
  <1>5. ASSUME NEW f \in DOMAIN code, NEW b \in 1..Len(code[f]), NEW k \in 1..Len(code[f][b].code)
        PROVE  /\ PlacedAt(f, code[f][b].code[k], inserted[f][b][k])
               /\ inserted[f][b][k] \in Seq(SystemCall) /\ Len(inserted[f][b][k]) \in Nat
    BY PlacedHere
  <1>6. ASSUME NEW f \in DOMAIN code, f \in MainLike
        PROVE  /\ Shaped(f, inserted'[f])
               /\ Replaced(f, inserted'[f], 1, 1, InsertAt(inserted[f][1][1], 1, e))
    <2>1. 1 \in 1..Len(code[f]) /\ 1 \in 1..Len(code[f][1].code)
      <3>1. 1 \in 1..Len(code[f])
        BY <1>2, MainFacts
      <3> QED
        BY <1>2, <3>1, BlockFacts
    <2>2. inserted'[f] = [inserted[f] EXCEPT ![1][1] = InsertAt(inserted[f][1][1], 1, e)]
      BY <1>1, <1>6, <2>1
    <2> QED
      BY <2>1, <2>2, PlaceShape
  <1>7. ASSUME NEW f \in DOMAIN code \ MainLike PROVE inserted'[f] = inserted[f]
    BY <1>1
  <1>8. ASSUME NEW f, NEW I, NEW before, PlacedAt(f, I, before)
        PROVE  PlacedAt(f, I, before)'
    BY <1>1, <1>8 DEF PlacedAt, ListedCall, isStringInMap, Announcing, Announce, NoneIn
  <1>9. PlacedInv'
    <2>1. inserted' = [f \in DOMAIN code |-> inserted'[f]]
      BY <1>1
    <2>2. ASSUME NEW f \in DOMAIN code PROVE PlacedIn(f, inserted[f])'
      <3>1. CASE f \in MainLike
        <4>1. ASSUME NEW b \in 1..Len(code[f]), NEW k \in 1..Len(code[f][b].code)
              PROVE  PlacedAt(f, code[f][b].code[k], inserted[f][b][k])'
          <5>1. CASE b = 1 /\ k = 1
            <6>1. 1 \in 1..(Len(inserted[f][b][k]) + 1)
              BY <1>5
            <6>2. inserted'[f][b][k] = InsertAt(inserted[f][b][k], 1, SysCall("init"))
              BY <1>6, <3>1, <5>1 DEF Replaced
            <6>3. ASSUME NEW I, NEW s, PlacedAt(f, I, s), 1 \in 1..(Len(s) + 1)
                  PROVE  PlacedAt(f, I, InsertAt(s, 1, SysCall("init")))'
              BY <1>1, <6>3, PlaceSequence
            <6> QED
              BY <1>1, <1>5, <6>1, <6>2, <6>3
          <5>2. CASE ~(b = 1 /\ k = 1)
            <6>1. Replaced(f, inserted'[f], 1, 1, InsertAt(inserted[f][1][1], 1, e))
              BY <1>6, <3>1
            <6>2. inserted'[f][b][k] = inserted[f][b][k]
              BY <5>2, <6>1 DEF Replaced
            <6> QED
              BY <1>1, <1>5, <1>8, <6>2
          <5> QED
            BY <5>1, <5>2
        <4> QED
          BY <1>1, <1>6, <3>1, <4>1 DEF PlacedIn, Shaped
      <3>2. CASE f \notin MainLike
        <4>1. inserted'[f] = inserted[f] /\ PlacedIn(f, inserted[f])
          BY <1>7, <3>2 DEF InstrumentInv, PlacedInv
        <4> QED
          BY <1>1, <1>8, <4>1 DEF PlacedIn
      <3> QED
        BY <3>1, <3>2
    <2> QED
      BY <1>1, <1>2, <2>1, <2>2 DEF PlacedInv
  <1>10. InitInv'
    <2>1. ASSUME NEW f \in DOMAIN code \cap MainLike PROVE InitFirst(inserted'[f][1][1])
      <3>1. 1 \in 1..Len(code[f]) /\ 1 \in 1..Len(code[f][1].code)
        BY <1>2, MainFacts, BlockFacts
      <3> DEFINE s == inserted[f][1][1]
                 t == inserted'[f][1][1]
      <3>2. s \in Seq(SystemCall) /\ Len(s) \in Nat /\ t = InsertAt(s, 1, e)
        BY <1>5, <1>6, <3>1 DEF Replaced
      <3>3. e \in SystemCall /\ e.op = "init"
        BY DEF SysCall, SystemCall
      <3> HIDE DEF s, t, e
      <3>4. Len(t) = Len(s) + 1 /\ t[1] = e
        BY <3>2, <3>3, InsertAtFacts
      <3>5. 1 \in 1..Len(t) /\ t[1].op = "init" /\ \A i \in 1..1 : t[i].op # "dummycall"
        BY <3>2, <3>3, <3>4
      <3> QED
        BY <3>5 DEF InitFirst, t
    <2>2. ASSUME NEW f \in DOMAIN code, NEW b \in 1..Len(code[f]), NEW k \in 1..Len(code[f][b].code),
                 b # 1 \/ k # 1
          PROVE  NoneIn(inserted'[f][b][k], "init")
      <3>1. inserted'[f][b][k] = inserted[f][b][k]
        BY <1>6, <1>7, <2>2 DEF Replaced
      <3> QED
        BY <1>1, <1>5, <3>1 DEF PlacedAt
    <2> QED
      BY <1>1, <2>1, <2>2 DEF InitInv
  <1>11. RecordInv'
    <2>1. ASSUME NEW B PROVE CallsIn(B)' = CallsIn(B)
      BY <1>1 DEF CallsIn, Kind, isStringInMap
    <2> QED
      BY <1>1, <2>1 DEF InstrumentInv, RecordInv
  <1> QED
    BY <1>3, <1>4, <1>9, <1>10, <1>11 DEF InstrumentInv

\* The sandbox_init that was placed before gives every main a last block.
LEMMA LastBlockFacts ==
    ASSUME InstrumentInv, phase = "cleanup", NEW f \in DOMAIN code, f \in MainLike
    PROVE  /\ LastBlock(f) \in 1..Len(code[f]) /\ ~ OnlyReturn(f, LastBlock(f))
           /\ \A c \in (LastBlock(f) + 1)..Len(code[f]) : OnlyReturn(f, c)
  <1> DEFINE S == {b \in 1..Len(code[f]) : ~ OnlyReturn(f, b)}
             P(b) == ~ OnlyReturn(f, b) /\ \A c \in (b + 1)..Len(code[f]) : OnlyReturn(f, c)
  <1>1. Len(code[f]) \in Nat \ {0}
    BY MainFacts DEF InstrumentInv, PlacedInv
  <1>2. InitFirst(inserted[f][1][1])
    BY DEF InstrumentInv, InitInv
  <1>3. inserted[f][1][1] # <<>>
    BY <1>2 DEF InitFirst
  <1>4. S \subseteq 0..Len(code[f]) /\ S # {}
    BY <1>1, <1>3 DEF OnlyReturn
  <1>5. PICK b \in S : \A c \in S : c <= b
    BY <1>1, <1>4, GreatestUpTo
  <1>6. b \in 1..Len(code[f]) /\ P(b)
    BY <1>1, <1>5
  <1> DEFINE L == CHOOSE c \in 1..Len(code[f]) : P(c)
  <1>7. L \in 1..Len(code[f]) /\ P(L)
    BY <1>6
  <1>8. LastBlock(f) = L
    BY DEF LastBlock
  <1> QED
    BY <1>7, <1>8

\* lastInst is at a place of the block; where the instruction of that place is a
\* listed call, lastInst is the call and not what was placed before it.
LEMMA LastInstFacts ==
    ASSUME InstrumentInv, NEW f \in DOMAIN code, NEW b \in 1..Len(code[f]), ~ OnlyReturn(f, b)
    PROVE  LET last == LastInst(code[f][b], inserted[f][b])
           IN  /\ last[1] \in 1..Len(code[f][b].code)
               /\ last[2] \in 1..(Len(inserted[f][b][last[1]]) + 1)
               /\ ListedCall(f, code[f][b].code[last[1]]) => last[2] = Len(inserted[f][b][last[1]]) + 1
  <1> DEFINE B == code[f][b]
             n == Len(B.code)
             before == inserted[f][b]
             k == IF B.code[n].op = "ret" /\ before[n] = <<>> THEN n - 1 ELSE n
             j == IF B.code[k].op = "ret" THEN Len(before[k]) ELSE Len(before[k]) + 1
  <1>1. LastInst(B, before) = <<k, j>>
    BY DEF LastInst
  <1>2. /\ n \in Nat \ {0} /\ \A l \in 1..n : B.code[l].op = "ret" => l = n
        /\ \A l \in 1..n : before[l] \in Seq(SystemCall)
        /\ ~(B.code[1].op = "ret" /\ before[1] = <<>>)
    BY BlockFacts, PlacedHere DEF InstrumentInv, PlacedInv, OnlyReturn
  <1>3. \A I : ListedCall(f, I) => I.op # "ret"
    BY DEF ListedCall
  <1> HIDE DEF B, n, before
  <1>4. k \in 1..n /\ (k # n => B.code[k].op # "ret")
    BY <1>2
  <1>5. before[k] \in Seq(SystemCall) /\ Len(before[k]) \in Nat
    BY <1>2, <1>4
  <1>6. B.code[k].op = "ret" => before[k] # <<>>
    BY <1>2, <1>4
  <1>7. B.code[k].op = "ret" => Len(before[k]) > 0
    BY <1>5, <1>6
  <1>8. j \in 1..(Len(before[k]) + 1) /\ (B.code[k].op # "ret" => j = Len(before[k]) + 1)
    BY <1>5, <1>7
  <1>9. ListedCall(f, B.code[k]) => j = Len(before[k]) + 1
    BY <1>3, <1>8
  <1> HIDE DEF k, j
  <1>10. LastInst(B, before)[1] = k /\ LastInst(B, before)[2] = j
    BY <1>1
  <1> QED
    BY <1>4, <1>8, <1>9, <1>10 DEF B, n, before

\* What MemoryCleanupHandler does to one function.
LEMMA CleanupPlaced ==
    ASSUME InstrumentInv, MemoryCleanupHandler, NEW f \in DOMAIN code, f \in MainLike
    PROVE  LET b == LastBlock(f)
               last == LastInst(code[f][b], inserted[f][b])
           IN  /\ Shaped(f, inserted'[f])
               /\ Replaced(f, inserted'[f], b, last[1],
                           InsertAt(inserted[f][b][last[1]], last[2], SysCall("cleanup")))
  <1> DEFINE b == LastBlock(f)
             k == LastInst(code[f][b], inserted[f][b])[1]
             j == LastInst(code[f][b], inserted[f][b])[2]
  <1>1. phase = "cleanup"
    BY DEF MemoryCleanupHandler
  <1>2. b \in 1..Len(code[f]) /\ k \in 1..Len(code[f][b].code)
    BY <1>1, LastBlockFacts, LastInstFacts
  <1>3. inserted'[f] = [inserted[f] EXCEPT ![b][k] = InsertAt(@, j, SysCall("cleanup"))]
    BY DEF MemoryCleanupHandler, InMains
  <1>4. inserted[f] = [c \in 1..Len(code[f]) |-> inserted[f][c]]
        /\ inserted[f][b] = [l \in 1..Len(code[f][b].code) |-> inserted[f][b][l]]
    BY <1>2 DEF InstrumentInv, PlacedInv, PlacedIn
  <1> HIDE DEF b, k, j
  <1>5. inserted'[f] = [inserted[f] EXCEPT ![b][k] = InsertAt(inserted[f][b][k], j, SysCall("cleanup"))]
    BY <1>2, <1>3, <1>4
  <1>6. /\ Shaped(f, inserted'[f])
        /\ Replaced(f, inserted'[f], b, k, InsertAt(inserted[f][b][k], j, SysCall("cleanup")))
    BY <1>2, <1>5, PlaceShape
  <1> QED
    BY <1>6 DEF b, k, j

\* One more sandbox_cleanup leaves sandbox_init ahead of the announcements.
LEMMA InitFirstKept ==
    ASSUME NEW s \in Seq(SystemCall), InitFirst(s), NEW i \in 1..(Len(s) + 1)
    PROVE  InitFirst(InsertAt(s, i, SysCall("cleanup")))
  <1> DEFINE t == InsertAt(s, i, SysCall("cleanup"))
  <1>1. PICK p \in 1..Len(s) : s[p].op = "init" /\ \A l \in 1..p : s[l].op # "dummycall"
    BY DEF InitFirst
  <1>2. SysCall("cleanup") \in SystemCall /\ SysCall("cleanup").op = "cleanup"
    BY DEF SysCall, SystemCall
  <1>3. /\ Len(t) = Len(s) + 1
        /\ \A k \in 1..(Len(s) + 1) :
              t[k] = IF k < i THEN s[k] ELSE IF k = i THEN SysCall("cleanup") ELSE s[k - 1]
    BY <1>2, InsertAtFacts
  <1> HIDE DEF t
  <1>4. CASE p < i
    <2>1. p \in 1..Len(t) /\ \A l \in 1..p : t[l] = s[l]
      BY <1>3, <1>4
    <2> QED
      BY <1>1, <2>1 DEF InitFirst, t
  <1>5. CASE p >= i
    <2>1. p + 1 \in 1..Len(t) /\ t[p + 1] = s[p]
      <3>1. p + 1 \in 1..(Len(s) + 1) /\ ~(p + 1 < i) /\ p + 1 # i /\ (p + 1) - 1 = p
        BY <1>5
      <3> QED
        BY <1>3, <3>1
    <2>2. ASSUME NEW l \in 1..(p + 1) PROVE t[l].op # "dummycall"
      <3>1. CASE l < i
        BY <1>1, <1>3, <1>5, <3>1
      <3>2. CASE l = i
        BY <1>2, <1>3, <3>2
      <3>3. CASE l > i
        <4>1. l - 1 \in 1..p /\ l \in 1..(Len(s) + 1)
          BY <3>3
        <4>2. t[l] = s[l - 1]
          BY <1>3, <3>3, <4>1
        <4> QED
          BY <1>1, <4>1, <4>2
      <3> QED
        BY <3>1, <3>2, <3>3
    <2> QED
      BY <1>1, <2>1, <2>2 DEF InitFirst, t
  <1> QED
    BY <1>4, <1>5

\* The end of a usual main.
LEMMA UsualMainFacts ==
    ASSUME code \in Modules, UsualMain
    PROVE  /\ "main" \in DOMAIN code /\ \A f \in DOMAIN code \cap MainLike : f = "main"
           /\ End \in 1..Len(code["main"]) /\ Tip \in Nat \ {0}
           /\ Len(code["main"][End].code) = Tip + 1
           /\ code["main"][End].code[Tip + 1].op = "ret" /\ code["main"][End].code[Tip].op # "ret"
           /\ code["main"][End].code[1].op # "ret"
           /\ \A b \in 1..Len(code["main"]) : \A k \in 1..Len(code["main"][b].code) :
                 code["main"][b].code[k].op = "ret" => b = End /\ k = Tip + 1
  <1> DEFINE c == code["main"][End].code
  <1>1. "main" \in DOMAIN code /\ Len(code["main"]) \in Nat \ {0}
    BY MainFacts
  <1>2. End \in 1..Len(code["main"])
    BY <1>1 DEF End
  <1>3. /\ Len(c) \in Nat /\ Len(c) > 1 /\ c[Len(c)].op = "ret"
        /\ \A k \in 1..Len(c) : c[k].op = "ret" => k = Len(c)
    BY <1>1, <1>2, BlockFacts DEF UsualMain, End
  <1>4. ASSUME NEW b \in 1..Len(code["main"]), NEW k \in 1..Len(code["main"][b].code),
               code["main"][b].code[k].op = "ret"
        PROVE  b = End /\ k = Len(code["main"][b].code)
    <2>1. k = Len(code["main"][b].code)
      BY <1>1, <1>4, BlockFacts
    <2> QED
      BY <1>4, <2>1 DEF UsualMain, End
  <1>5. Tip = Len(c) - 1
    BY DEF Tip
  <1> HIDE DEF c
  <1>6. Tip \in Nat \ {0} /\ Len(c) = Tip + 1 /\ c[Tip + 1].op = "ret" /\ c[Tip].op # "ret" /\ c[1].op # "ret"
    BY <1>3, <1>5
  <1>7. \A f \in DOMAIN code \cap MainLike : f = "main"
    BY DEF UsualMain
  <1> QED
    BY <1>1, <1>2, <1>4, <1>6, <1>7 DEF c

\* In a usual main the cleanup comes right before the instruction at the tip.
LEMMA UsualLast ==
    ASSUME InstrumentInv, phase = "cleanup", UsualMain
    PROVE  /\ LastBlock("main") = End
           /\ inserted["main"][End][Tip + 1] = <<>>
           /\ LastInst(code["main"][End], inserted["main"][End]) =
                 <<Tip, Len(inserted["main"][End][Tip]) + 1>>
  <1>1. code \in Modules
    BY DEF InstrumentInv, PlacedInv
  <1>2. /\ "main" \in DOMAIN code /\ "main" \in MainLike
        /\ End \in 1..Len(code["main"]) /\ End = Len(code["main"])
        /\ Tip \in Nat \ {0} /\ Len(code["main"][End].code) = Tip + 1
        /\ code["main"][End].code[Tip + 1].op = "ret" /\ code["main"][End].code[Tip].op # "ret"
        /\ code["main"][End].code[1].op # "ret"
    BY <1>1, UsualMainFacts, MainFacts DEF End
  <1>3. ~ OnlyReturn("main", End)
    BY <1>2 DEF OnlyReturn
  <1>4. LastBlock("main") = End
    <2>1. /\ LastBlock("main") \in 1..Len(code["main"])
          /\ \A c \in (LastBlock("main") + 1)..Len(code["main"]) : OnlyReturn("main", c)
      BY <1>2, LastBlockFacts
    <2> QED
      BY <1>2, <1>3, <2>1
  <1> DEFINE s == inserted["main"][End][Tip + 1]
             I == code["main"][End].code[Tip + 1]
  <1>5. Tip + 1 \in 1..Len(code["main"][End].code) /\ Tip + 1 # 1
    BY <1>2
  <1>6. PlacedAt("main", I, s) /\ s \in Seq(SystemCall) /\ Len(s) \in Nat
    BY <1>2, <1>5, PlacedHere
  <1>7. NoneIn(s, "dummycall") /\ NoneIn(s, "cleanup")
    BY <1>2, <1>6 DEF PlacedAt, ListedCall
  <1>8. NoneIn(s, "init")
    BY <1>2, <1>5 DEF InstrumentInv, InitInv
  <1>9. s = <<>>
    <2> HIDE DEF s
    <2>1. \A i \in 1..Len(s) : FALSE
      BY <1>6, <1>7, <1>8, SystemCallOps DEF NoneIn
    <2>2. Len(s) = 0
      BY <1>6, <2>1
    <2> QED
      BY <1>6, <2>2
  <1>10. (Tip + 1) - 1 = Tip
    BY <1>2
  <1> QED
    BY <1>2, <1>4, <1>9, <1>10 DEF LastInst

\* MemoryCleanupHandler puts sandbox_cleanup before lastInst, and the program starts.
LEMMA CleanupStep ==
    ASSUME InstrumentInv, MemoryCleanupHandler
    PROVE  InstrumentInv'
  <1> DEFINE e == SysCall("cleanup")
             LB(f) == LastBlock(f)
             LK(f) == LastInst(code[f][LB(f)], inserted[f][LB(f)])[1]
             LJ(f) == LastInst(code[f][LB(f)], inserted[f][LB(f)])[2]
  <1>1. /\ phase = "cleanup" /\ phase' = "run" /\ stack' = << <<"main", 1, 1, 1>> >>
        /\ UNCHANGED <<listing, stringMap, loaded, code, bbToLibcMap, waiting, announced, inited, cleaned>>
    BY DEF MemoryCleanupHandler, reader
  <1>2. code \in Modules /\ announced = <<>> /\ ~ inited /\ ~ cleaned /\ waiting = {}
    BY <1>1 DEF InstrumentInv, PlacedInv, RunInv
  <1>3. ASSUME NEW f \in DOMAIN code, f \notin MainLike PROVE inserted'[f] = inserted[f]
    BY <1>3 DEF MemoryCleanupHandler, InMains
  <1>4. ASSUME NEW f \in DOMAIN code, f \in MainLike
        PROVE  /\ LB(f) \in 1..Len(code[f]) /\ LK(f) \in 1..Len(code[f][LB(f)].code)
               /\ LJ(f) \in 1..(Len(inserted[f][LB(f)][LK(f)]) + 1)
               /\ ListedCall(f, code[f][LB(f)].code[LK(f)]) => LJ(f) = Len(inserted[f][LB(f)][LK(f)]) + 1
               /\ Shaped(f, inserted'[f])
               /\ Replaced(f, inserted'[f], LB(f), LK(f), InsertAt(inserted[f][LB(f)][LK(f)], LJ(f), e))
    BY <1>1, <1>4, LastBlockFacts, LastInstFacts, CleanupPlaced
  <1> HIDE DEF LB, LK, LJ
  <1>5. ASSUME NEW f \in DOMAIN code, NEW b \in 1..Len(code[f]), NEW k \in 1..Len(code[f][b].code)
        PROVE  /\ PlacedAt(f, code[f][b].code[k], inserted[f][b][k])
               /\ inserted[f][b][k] \in Seq(SystemCall) /\ Len(inserted[f][b][k]) \in Nat
    BY PlacedHere
  <1>6. ASSUME NEW f, NEW I, NEW before, PlacedAt(f, I, before)
        PROVE  PlacedAt(f, I, before)'
    BY <1>1, <1>6 DEF PlacedAt, ListedCall, isStringInMap, Announcing, Announce, NoneIn
  <1>7. PlacedInv'
    <2>1. inserted' = [f \in DOMAIN code |-> inserted'[f]]
      BY DEF MemoryCleanupHandler, InMains
    <2>2. ASSUME NEW f \in DOMAIN code PROVE PlacedIn(f, inserted[f])'
      <3>1. CASE f \in MainLike
        <4>1. ASSUME NEW b \in 1..Len(code[f]), NEW k \in 1..Len(code[f][b].code)
              PROVE  PlacedAt(f, code[f][b].code[k], inserted[f][b][k])'
          <5>1. CASE b = LB(f) /\ k = LK(f)
            <6>1. /\ LJ(f) \in 1..(Len(inserted[f][b][k]) + 1)
                  /\ ListedCall(f, code[f][b].code[k]) => LJ(f) = Len(inserted[f][b][k]) + 1
              BY <1>4, <3>1, <5>1
            <6>2. inserted'[f][b][k] = InsertAt(inserted[f][b][k], LJ(f), SysCall("cleanup"))
              BY <1>4, <3>1, <5>1 DEF Replaced
            <6>3. ASSUME NEW I, NEW s, NEW j \in 1..(Len(s) + 1), PlacedAt(f, I, s),
                         ListedCall(f, I) => j = Len(s) + 1
                  PROVE  PlacedAt(f, I, InsertAt(s, j, SysCall("cleanup")))'
              BY <1>1, <6>3, PlaceSequence
            <6>4. PICK I, s, j : I = code[f][b].code[k] /\ s = inserted[f][b][k] /\ j = LJ(f)
              OBVIOUS
            <6>5. PlacedAt(f, I, InsertAt(s, j, SysCall("cleanup")))'
              BY <1>5, <6>1, <6>3, <6>4
            <6>6. inserted'[f][b][k] = InsertAt(s, j, SysCall("cleanup")) /\ code'[f][b].code[k] = I
              BY <1>1, <6>2, <6>4
            <6> QED
              BY <6>5, <6>6
          <5>2. CASE ~(b = LB(f) /\ k = LK(f))
            <6>1. inserted'[f][b][k] = inserted[f][b][k]
              BY <1>4, <3>1, <5>2 DEF Replaced
            <6> QED
              BY <1>1, <1>5, <1>6, <6>1
          <5> QED
            BY <5>1, <5>2
        <4> QED
          BY <1>1, <1>4, <3>1, <4>1 DEF PlacedIn, Shaped
      <3>2. CASE f \notin MainLike
        <4>1. inserted'[f] = inserted[f] /\ PlacedIn(f, inserted[f])
          BY <1>3, <3>2 DEF InstrumentInv, PlacedInv
        <4> QED
          BY <1>1, <1>6, <4>1 DEF PlacedIn
      <3> QED
        BY <3>1, <3>2
    <2> QED
      BY <1>1, <1>2, <2>1, <2>2 DEF PlacedInv
  <1>8. InitInv'
    <2>1. ASSUME NEW f \in DOMAIN code, f \in MainLike PROVE InitFirst(inserted'[f][1][1])
      <3>1. 1 \in 1..Len(code[f]) /\ 1 \in 1..Len(code[f][1].code)
        BY <1>2, MainFacts, BlockFacts
      <3>2. inserted[f][1][1] \in Seq(SystemCall) /\ InitFirst(inserted[f][1][1])
        BY <1>1, <1>5, <2>1, <3>1 DEF InstrumentInv, InitInv
      <3>3. CASE 1 = LB(f) /\ 1 = LK(f)
        <4>1. inserted'[f][1][1] = InsertAt(inserted[f][1][1], LJ(f), SysCall("cleanup"))
          BY <1>4, <2>1, <3>1, <3>3 DEF Replaced
        <4>2. LJ(f) \in 1..(Len(inserted[f][1][1]) + 1)
          BY <1>4, <2>1, <3>3
        <4> QED
          BY <3>2, <4>1, <4>2, InitFirstKept
      <3>4. CASE ~(1 = LB(f) /\ 1 = LK(f))
        <4>1. inserted'[f][1][1] = inserted[f][1][1]
          BY <1>4, <2>1, <3>1, <3>4 DEF Replaced
        <4> QED
          BY <3>2, <4>1
      <3> QED
        BY <3>3, <3>4
    <2> QED
      BY <1>1, <2>1 DEF InitInv
  <1>9. RecordInv'
    <2>1. ASSUME NEW B PROVE CallsIn(B)' = CallsIn(B)
      BY <1>1 DEF CallsIn, Kind, isStringInMap
    <2> QED
      BY <1>1, <2>1 DEF InstrumentInv, RecordInv
  <1>10. ReaderInv'
    BY <1>1 DEF InstrumentInv, ReaderInv
  <1>11. (UsualMain' <=> UsualMain) /\ End' = End /\ Tip' = Tip
    BY <1>1 DEF UsualMain, End, Tip
  <1>12. ASSUME UsualMain
         PROVE  /\ CleanedAfter(inserted'["main"][End][Tip]) /\ inserted'["main"][End][Tip + 1] = <<>>
                /\ \A f \in DOMAIN code : \A b \in 1..Len(code[f]) : \A k \in 1..Len(code[f][b].code) :
                      <<f, b, k>> # <<"main", End, Tip>> => NoneIn(inserted'[f][b][k], "cleanup")
    <2>1. /\ "main" \in DOMAIN code /\ "main" \in MainLike /\ \A f \in DOMAIN code \cap MainLike : f = "main"
          /\ End \in 1..Len(code["main"]) /\ Tip \in Nat \ {0} /\ Len(code["main"][End].code) = Tip + 1
      BY <1>2, <1>12, UsualMainFacts, MainFacts
    <2> DEFINE s == inserted["main"][End][Tip]
               t == inserted'["main"][End][Tip]
    <2>2. /\ LB("main") = End /\ LK("main") = Tip /\ LJ("main") = Len(s) + 1
          /\ inserted["main"][End][Tip + 1] = <<>>
      BY <1>1, <1>12, UsualLast DEF LB, LK, LJ
    <2>3. Tip \in 1..Len(code["main"][End].code) /\ Tip + 1 \in 1..Len(code["main"][End].code) /\ Tip + 1 # Tip
      BY <2>1
    <2>4. Replaced("main", inserted'["main"], End, Tip, InsertAt(s, Len(s) + 1, e))
      BY <1>4, <2>1, <2>2
    <2>5. inserted'["main"][End][Tip + 1] = <<>> /\ t = InsertAt(s, Len(s) + 1, e)
      BY <2>1, <2>2, <2>3, <2>4 DEF Replaced
    <2>6. s \in Seq(SystemCall) /\ Len(s) \in Nat /\ NoneIn(s, "cleanup")
      BY <1>1, <1>5, <2>1, <2>3 DEF PlacedAt
    <2>7. e \in SystemCall /\ e.op = "cleanup"
      BY DEF SysCall, SystemCall
    <2> HIDE DEF s, t, e
    <2>8. Len(t) = Len(s) + 1 /\ t[Len(s) + 1] = e /\ \A i \in 1..Len(s) : t[i] = s[i]
      BY <2>5, <2>6, <2>7, InsertLast
    <2>9. CleanedAfter(t)
      <3>1. t # <<>>
        BY <2>6, <2>8
      <3>2. ASSUME NEW i \in 1..Len(t) PROVE t[i].op = "cleanup" <=> i = Len(t)
        <4>1. CASE i = Len(s) + 1
          BY <2>7, <2>8, <4>1
        <4>2. CASE i # Len(s) + 1
          <5>1. i \in 1..Len(s)
            BY <2>6, <2>8, <4>2
          <5> QED
            BY <2>6, <2>8, <4>2, <5>1 DEF NoneIn
        <4> QED
          BY <4>1, <4>2
      <3> QED
        BY <3>1, <3>2 DEF CleanedAfter
    <2>10. ASSUME NEW f \in DOMAIN code, NEW b \in 1..Len(code[f]), NEW k \in 1..Len(code[f][b].code),
                  <<f, b, k>> # <<"main", End, Tip>>
           PROVE  NoneIn(inserted'[f][b][k], "cleanup")
      <3>1. inserted'[f][b][k] = inserted[f][b][k]
        <4>1. CASE f \in MainLike
          BY <2>1, <2>4, <2>10, <4>1 DEF Replaced
        <4>2. CASE f \notin MainLike
          BY <1>3, <4>2
        <4> QED
          BY <4>1, <4>2
      <3> QED
        BY <1>1, <1>5, <3>1 DEF PlacedAt
    <2> QED
      BY <2>5, <2>9, <2>10 DEF t
  <1>13. CleanupInv'
    BY <1>1, <1>11, <1>12 DEF CleanupInv
  <1>14. /\ "main" \in DOMAIN code /\ 1 \in 1..Len(code["main"]) /\ 1 \in 1..Len(code["main"][1].code)
         /\ inserted'["main"][1][1] \in Seq(SystemCall)
    <2>1. "main" \in DOMAIN code /\ 1 \in 1..Len(code["main"]) /\ 1 \in 1..Len(code["main"][1].code)
      BY <1>2, MainFacts, BlockFacts
    <2>2. PlacedIn("main", inserted["main"])'
      BY <1>1, <1>7, <2>1 DEF PlacedInv
    <2> QED
      BY <1>1, <2>1, <2>2 DEF PlacedIn, PlacedAt
  <1> DEFINE s0 == <<"main", 1, 1, 1>>
  <1>15. /\ s0[1] = "main" /\ s0[2] = 1 /\ s0[3] = 1 /\ s0[4] = 1
         /\ Len(stack') = 1 /\ stack'[1] = s0 /\ Frame' = s0 /\ stack' # <<>>
         /\ stack' \in Seq((DOMAIN code) \X Nat \X Nat \X Nat)
    BY <1>1, <1>14 DEF Frame
  <1> HIDE DEF s0
  <1>16. RunInv'
    <2>1. ASSUME NEW s, s = s0 PROVE FrameOK(s)' /\ ~ Pending(s)'
      BY <1>1, <1>14, <1>15, <2>1 DEF FrameOK, Pending, Before, s0
    <2> QED
      BY <1>1, <1>2, <1>15, <2>1 DEF RunInv
  <1>17. StartInv'
    BY <1>1, <1>2, <1>15 DEF StartInv
  <1>18. EndInv'
    <2> SUFFICES ASSUME UsualMain PROVE ~ Past(stack[1])'
      BY <1>1, <1>2, <1>11, <1>15 DEF EndInv
    <2>1. Tip \in Nat \ {0}
      BY <1>2, UsualMainFacts
    <2>2. 1 = End /\ 1 = Tip => inserted'["main"][1][1] # <<>>
      BY <1>12 DEF CleanedAfter
    <2>3. 1 = End /\ 1 = Tip => ~(1 > Len(inserted'["main"][1][1]))
      BY <1>14, <2>2
    <2> QED
      BY <1>1, <1>11, <1>15, <2>1, <2>3 DEF Past, Before
  <1> QED
    BY <1>7, <1>8, <1>9, <1>10, <1>13, <1>16, <1>17, <1>18 DEF InstrumentInv

-----------------------------------------------------------------------------
(* The program runs: a frame, and the frame one place later. *)

Frames == (DOMAIN code) \X Nat \X Nat \X Nat

\* A frame stands before an instruction of the program.
LEMMA FrameFacts ==
    ASSUME InstrumentInv, NEW s, FrameOK(s)
    PROVE  /\ s[1] \in DOMAIN code /\ s[2] \in 1..Len(code[s[1]]) /\ s[2] \in Nat
           /\ s[3] \in 1..Len(code[s[1]][s[2]].code) /\ s[3] \in Nat
           /\ Len(code[s[1]][s[2]].code) \in Nat
           /\ Before(s) \in Seq(SystemCall) /\ Len(Before(s)) \in Nat
           /\ s[4] \in 1..(Len(Before(s)) + 1) /\ s[4] \in Nat
           /\ Code(s) \in Instruction
           /\ PlacedAt(s[1], Code(s), Before(s))
  <1>1. code \in Modules
    BY DEF InstrumentInv, PlacedInv
  <1>2. /\ s[1] \in DOMAIN code /\ s[2] \in 1..Len(code[s[1]])
        /\ s[3] \in 1..Len(code[s[1]][s[2]].code) /\ s[4] \in 1..(Len(Before(s)) + 1)
    BY DEF FrameOK
  <1>3. /\ Len(code[s[1]]) \in Nat /\ Len(code[s[1]][s[2]].code) \in Nat
        /\ code[s[1]][s[2]].code[s[3]] \in Instruction
    BY <1>1, <1>2, BlockFacts
  <1>4. /\ PlacedAt(s[1], Code(s), Before(s))
        /\ Before(s) \in Seq(SystemCall) /\ Len(Before(s)) \in Nat
    BY <1>2, PlacedHere DEF Code, Before
  <1> QED
    BY <1>2, <1>3, <1>4 DEF Code

\* What is announced before an instruction is the call it makes, once.
LEMMA AnnouncedFacts ==
    ASSUME InstrumentInv, phase = "run", NEW s, FrameOK(s)
    PROVE  /\ waiting = {}
           /\ \A d \in 1..Len(Before(s)) : Before(s)[d].op = "dummycall" =>
                 /\ ListedCall(s[1], Code(s)) /\ Before(s)[d] = Announce(Code(s))
                 /\ \A i \in 1..Len(Before(s)) : /\ i # d => Before(s)[i].op # "dummycall"
                                                 /\ i > d => Before(s)[i].op = "cleanup"
           /\ ListedCall(s[1], Code(s)) =>
                 \E d \in 1..Len(Before(s)) : Before(s)[d].op = "dummycall"
  <1>1. waiting = {}
    BY DEF InstrumentInv, RunInv
  <1> DEFINE w == Before(s)
  <1>2. PlacedAt(s[1], Code(s), w)
    BY FrameFacts
  <1> HIDE DEF w
  <1>3. CASE ListedCall(s[1], Code(s))
    <2>1. PICK d \in 1..Len(w) : /\ w[d] = Announce(Code(s))
                                 /\ \A i \in 1..Len(w) : /\ i # d => w[i].op # "dummycall"
                                                         /\ i > d => w[i].op = "cleanup"
      BY <1>1, <1>2, <1>3 DEF PlacedAt, Announcing
    <2>2. w[d].op = "dummycall"
      BY <2>1 DEF Announce
    <2>3. \A c \in 1..Len(w) : w[c].op = "dummycall" => c = d
      BY <2>1
    <2> QED
      BY <1>1, <1>3, <2>1, <2>2, <2>3 DEF w
  <1>4. CASE ~ ListedCall(s[1], Code(s))
    <2>1. NoneIn(w, "dummycall")
      BY <1>2, <1>4 DEF PlacedAt
    <2> QED
      BY <1>1, <1>4, <2>1 DEF NoneIn, w
  <1> QED
    BY <1>3, <1>4

\* Where an announcement is pending, and where it is not.
LEMMA PendingFacts ==
    ASSUME InstrumentInv, phase = "run", NEW s, FrameOK(s)
    PROVE  /\ Pending(s) => ListedCall(s[1], Code(s))
           /\ Pending(s) /\ s[4] <= Len(Before(s)) => Before(s)[s[4]].op = "cleanup"
           /\ ListedCall(s[1], Code(s)) /\ s[4] > Len(Before(s)) => Pending(s)
           /\ s[4] = 1 => ~ Pending(s)
  <1>1. s[4] \in 1..(Len(Before(s)) + 1) /\ Len(Before(s)) \in Nat
    BY FrameFacts
  <1>2. ASSUME Pending(s)
        PROVE  /\ ListedCall(s[1], Code(s)) /\ s[4] # 1
               /\ s[4] <= Len(Before(s)) => Before(s)[s[4]].op = "cleanup"
    <2>1. PICK d \in 1..(s[4] - 1) : Before(s)[d].op = "dummycall"
      BY <1>2 DEF Pending
    <2>2. d \in 1..Len(Before(s)) /\ s[4] > d /\ s[4] # 1
      BY <1>1
    <2> QED
      BY <1>1, <2>1, <2>2, AnnouncedFacts
  <1>3. ASSUME ListedCall(s[1], Code(s)), s[4] > Len(Before(s)) PROVE Pending(s)
    <2>1. PICK d \in 1..Len(Before(s)) : Before(s)[d].op = "dummycall"
      BY <1>3, AnnouncedFacts
    <2>2. d \in 1..(s[4] - 1)
      BY <1>1, <1>3
    <2> QED
      BY <2>1, <2>2 DEF Pending
  <1> QED
    BY <1>2, <1>3

\* The next place in the same block.
LEMMA AfterFacts ==
    ASSUME InstrumentInv, phase = "run", NEW s, FrameOK(s),
           s[4] <= Len(Before(s)) \/ s[3] < Len(code[s[1]][s[2]].code)
    PROVE  /\ FrameOK(After(s)) /\ After(s) \in Frames
           /\ After(s)[1] = s[1] /\ After(s)[2] = s[2]
           /\ s[4] <= Len(Before(s)) =>
                 /\ After(s)[3] = s[3] /\ After(s)[4] = s[4] + 1 /\ Before(After(s)) = Before(s)
                 /\ Code(After(s)) = Code(s)
                 /\ Pending(After(s)) <=> Pending(s) \/ Before(s)[s[4]].op = "dummycall"
           /\ ~(s[4] <= Len(Before(s))) => /\ After(s)[3] = s[3] + 1 /\ After(s)[4] = 1
                                           /\ ~ Pending(After(s))
  <1> DEFINE a == After(s)
  <1>1. /\ s[1] \in DOMAIN code /\ s[2] \in 1..Len(code[s[1]]) /\ s[2] \in Nat
        /\ s[3] \in 1..Len(code[s[1]][s[2]].code) /\ s[3] \in Nat
        /\ Len(code[s[1]][s[2]].code) \in Nat
        /\ Len(Before(s)) \in Nat /\ s[4] \in 1..(Len(Before(s)) + 1) /\ s[4] \in Nat
    BY FrameFacts
  <1>2. CASE s[4] <= Len(Before(s))
    <2>1. a = <<s[1], s[2], s[3], s[4] + 1>>
      BY <1>2 DEF After
    <2> HIDE DEF a
    <2>2. a[1] = s[1] /\ a[2] = s[2] /\ a[3] = s[3] /\ a[4] = s[4] + 1
      BY <2>1
    <2>3. Before(a) = Before(s) /\ Code(a) = Code(s)
      BY <2>2 DEF Before, Code
    <2>4. a[4] \in 1..(Len(Before(a)) + 1)
      BY <1>1, <1>2, <2>2, <2>3
    <2>5. FrameOK(a)
      BY <1>1, <2>1, <2>2, <2>4 DEF FrameOK
    <2>6. a \in Frames
      BY <1>1, <2>1 DEF Frames
    <2>7. Pending(a) <=> Pending(s) \/ Before(s)[s[4]].op = "dummycall"
      <3>1. Pending(a) <=> \E d \in 1..s[4] : Before(s)[d].op = "dummycall"
        BY <1>1, <2>2, <2>3 DEF Pending
      <3>2. \A d \in 1..s[4] : d = s[4] \/ d \in 1..(s[4] - 1)
        BY <1>1
      <3>3. \A d \in 1..(s[4] - 1) : d \in 1..s[4]
        BY <1>1
      <3>4. s[4] \in 1..s[4]
        BY <1>1
      <3> QED
        BY <3>1, <3>2, <3>3, <3>4 DEF Pending
    <2> QED
      BY <1>2, <2>2, <2>3, <2>5, <2>6, <2>7 DEF a
  <1>3. CASE ~(s[4] <= Len(Before(s)))
    <2>1. a = <<s[1], s[2], s[3] + 1, 1>>
      BY <1>3 DEF After
    <2> HIDE DEF a
    <2>2. a[1] = s[1] /\ a[2] = s[2] /\ a[3] = s[3] + 1 /\ a[4] = 1
      BY <2>1
    <2>3. a[3] \in 1..Len(code[a[1]][a[2]].code)
      <3>1. s[3] < Len(code[s[1]][s[2]].code)
        BY <1>3
      <3>2. ASSUME NEW n \in Nat, NEW k \in 1..n, k < n PROVE k + 1 \in 1..n
        BY <3>2
      <3>3. s[3] + 1 \in 1..Len(code[s[1]][s[2]].code)
        BY <1>1, <3>1, <3>2
      <3> QED
        BY <2>2, <3>3
    <2>4. Len(Before(a)) \in Nat
      BY <1>1, <2>2, <2>3, PlacedHere DEF Before
    <2>5. FrameOK(a)
      BY <1>1, <2>1, <2>2, <2>3, <2>4 DEF FrameOK
    <2>6. a \in Frames
      BY <1>1, <2>1 DEF Frames
    <2>7. ~ Pending(a)
      BY <2>2, <2>5, PendingFacts
    <2> QED
      BY <1>3, <2>2, <2>5, <2>6, <2>7 DEF a
  <1> QED
    BY <1>2, <1>3

\* The running program changes neither itself nor what the pass found.
LEMMA ProgramKept ==
    ASSUME InstrumentInv, Running, UNCHANGED <<listing, reader, code, pass>>, phase' \in {"run", "over"}
    PROVE  ReaderInv' /\ PlacedInv' /\ InitInv' /\ CleanupInv' /\ RecordInv'
  <1>1. /\ listing' = listing /\ stringMap' = stringMap /\ loaded' = loaded /\ code' = code
        /\ inserted' = inserted /\ bbToLibcMap' = bbToLibcMap /\ waiting' = waiting /\ phase = "run"
    BY DEF reader, pass, Running
  <1>2. ReaderInv'
    BY <1>1 DEF InstrumentInv, ReaderInv
  <1>3. PlacedInv'
    <2>1. ASSUME NEW f, NEW I, NEW w, PlacedAt(f, I, w) PROVE PlacedAt(f, I, w)'
      BY <1>1, <2>1 DEF PlacedAt, Announcing, Announce, ListedCall, isStringInMap, NoneIn
    <2> QED
      BY <1>1, <2>1 DEF InstrumentInv, PlacedInv, PlacedIn
  <1>4. InitInv'
    BY <1>1 DEF InstrumentInv, InitInv, InitFirst
  <1>5. CleanupInv'
    <2>1. (UsualMain' <=> UsualMain) /\ End' = End /\ Tip' = Tip
      BY <1>1 DEF UsualMain, End, Tip
    <2> QED
      BY <1>1, <2>1 DEF InstrumentInv, CleanupInv
  <1>6. RecordInv'
    <2>1. ASSUME NEW B PROVE CallsIn(B)' = CallsIn(B)
      BY <1>1 DEF CallsIn, Kind, isStringInMap
    <2> QED
      BY <1>1, <2>1 DEF InstrumentInv, RecordInv
  <1> QED
    BY <1>2, <1>3, <1>4, <1>5, <1>6

\* The frame on top, and what the program does next.
LEMMA CurrentFacts ==
    ASSUME InstrumentInv, Running
    PROVE  /\ stack \in Seq(Frames) /\ Len(stack) \in Nat \ {0}
           /\ phase = "run" /\ waiting = {} /\ FrameOK(Frame)
           /\ announced = IF Pending(Frame) THEN <<stringMap[Code(Frame).arg]>> ELSE <<>>
           /\ Frame[4] <= Len(Before(Frame)) => /\ Current = Before(Frame)[Frame[4]]
                                                /\ Current.op \in {"dummycall", "init", "cleanup"}
           /\ ~(Frame[4] <= Len(Before(Frame))) => /\ Current = Code(Frame)
                                                   /\ Current.op \in {"call", "indirect", "other", "ret"}
  <1>1. /\ stack \in Seq(Frames) /\ stack # <<>>
        /\ phase = "run" /\ waiting = {}
        /\ announced = IF Pending(Frame) THEN <<stringMap[Code(Frame).arg]>> ELSE <<>>
    BY DEF InstrumentInv, RunInv, Running, Frames
  <1>2. Len(stack) \in Nat \ {0}
    BY <1>1
  <1>3. FrameOK(Frame)
    <2>1. Len(stack) \in 1..Len(stack)
      BY <1>2
    <2> QED
      BY <1>1, <2>1 DEF InstrumentInv, RunInv, Frame
  <1>4. /\ Before(Frame) \in Seq(SystemCall) /\ Len(Before(Frame)) \in Nat
        /\ Frame[4] \in 1..(Len(Before(Frame)) + 1) /\ Code(Frame) \in Instruction
    BY <1>3, FrameFacts
  <1>5. Current = IF Frame[4] <= Len(Before(Frame)) THEN Before(Frame)[Frame[4]] ELSE Code(Frame)
    BY DEF Current, At, Before, Code
  <1>6. CASE Frame[4] <= Len(Before(Frame))
    <2>1. Frame[4] \in 1..Len(Before(Frame))
      BY <1>4, <1>6
    <2> QED
      BY <1>1, <1>2, <1>3, <1>4, <1>5, <1>6, <2>1, SystemCallOps
  <1>7. CASE ~(Frame[4] <= Len(Before(Frame)))
    BY <1>1, <1>2, <1>3, <1>4, <1>5, <1>7, InstructionOps
  <1> QED
    BY <1>6, <1>7

\* The invariant of the running program, from what a step does to the stack.
LEMMA RunKept ==
    ASSUME InstrumentInv, Running, UNCHANGED <<listing, reader, code, pass>>, phase' \in {"run", "over"},
           stack' \in Seq(Frames),
           \A i \in 1..Len(stack') : FrameOK(stack'[i]) /\ (i < Len(stack') => stack'[i][4] = 1),
           announced' = IF stack' # <<>> /\ Pending(stack'[Len(stack')])
                        THEN <<stringMap[Code(stack'[Len(stack')]).arg]>> ELSE <<>>
    PROVE  RunInv'
  <1>1. /\ stringMap' = stringMap /\ code' = code /\ inserted' = inserted /\ waiting' = waiting
        /\ waiting = {}
    BY CurrentFacts DEF reader, pass
  <1>2. ASSUME NEW s PROVE (FrameOK(s)' <=> FrameOK(s)) /\ (Pending(s)' <=> Pending(s)) /\ Code(s)' = Code(s)
    BY <1>1 DEF FrameOK, Pending, Before, Code
  <1>3. PICK S : S = stack'
    OBVIOUS
  <1>4. /\ \A i \in 1..Len(S) : FrameOK(S[i])' /\ (i < Len(S) => S[i][4] = 1)
        /\ announced' = IF S # <<>> /\ Pending(S[Len(S)])'
                        THEN <<stringMap[Code(S[Len(S)])'.arg]>> ELSE <<>>
    BY <1>2, <1>3
  <1>5. phase' \notin {"dump", "read", "inject", "init", "cleanup"}
    OBVIOUS
  <1> QED
    BY <1>1, <1>3, <1>4, <1>5 DEF RunInv, Frame, Frames

Topped(x) == [stack EXCEPT ![Len(stack)] = x]

\* The frame on top is replaced.
LEMMA TopReplaced ==
    ASSUME InstrumentInv, Running, NEW x \in Frames, FrameOK(x), NEW S, S = Topped(x)
    PROVE  /\ S \in Seq(Frames) /\ Len(S) = Len(stack) /\ S # <<>>
           /\ S[Len(stack)] = x
           /\ \A i \in 1..Len(stack) : /\ FrameOK(S[i])
                                       /\ i < Len(stack) => S[i] = stack[i] /\ S[i][4] = 1
  <1>1. stack \in Seq(Frames) /\ Len(stack) \in Nat \ {0}
    BY CurrentFacts
  <1>2. \A i \in 1..Len(stack) : FrameOK(stack[i]) /\ (i < Len(stack) => stack[i][4] = 1)
    BY DEF InstrumentInv, RunInv, Running
  <1>5. S \in Seq(Frames) /\ Len(S) = Len(stack)
    BY <1>1 DEF Topped
  <1>6. S # <<>>
    BY <1>1, <1>5
  <1>7. S[Len(stack)] = x /\ \A i \in 1..Len(stack) : i < Len(stack) => S[i] = stack[i]
    BY <1>1 DEF Topped
  <1>8. ASSUME NEW i \in 1..Len(stack)
        PROVE  FrameOK(S[i]) /\ (i < Len(stack) => S[i][4] = 1)
    <2>1. CASE i = Len(stack)
      BY <1>1, <1>7, <2>1
    <2>2. CASE i # Len(stack)
      <3>1. i < Len(stack)
        BY <1>1, <2>2
      <3> QED
        BY <1>2, <1>7, <3>1
    <2> QED
      BY <2>1, <2>2
  <1> QED
    BY <1>5, <1>6, <1>7, <1>8

\* A call uses up its announcement.
LEMMA CallDone ==
    ASSUME InstrumentInv, Running, NEW n \in Targets(Current)
    PROVE  /\ Unannounced(n) = <<>> /\ Current = Code(Frame)
           /\ ~(Frame[4] <= Len(Before(Frame)))
           /\ Frame[3] < Len(code[Frame[1]][Frame[2]].code)
  <1>0. Current.op \in {"call", "indirect"} /\ (Current.op = "call" => n = Current.arg)
    BY DEF Targets
  <1>1. /\ Current = Code(Frame) /\ ~(Frame[4] <= Len(Before(Frame))) /\ FrameOK(Frame) /\ phase = "run"
        /\ announced = IF Pending(Frame) THEN <<stringMap[Code(Frame).arg]>> ELSE <<>>
    BY <1>0, CurrentFacts
  <1>2. Unannounced(n) = <<>>
    <2>1. CASE Pending(Frame)
      <3>1. isStringInMap(n)
        BY <1>0, <1>1, <2>1, PendingFacts DEF ListedCall
      <3>2. announced = <<stringMap[Code(Frame).arg]>>
        BY <1>1, <2>1
      <3> QED
        BY <3>1, <3>2 DEF Unannounced
    <2>2. CASE ~ Pending(Frame)
      BY <1>1, <2>2 DEF Unannounced
    <2> QED
      BY <2>1, <2>2
  <1>3. Frame[3] < Len(code[Frame[1]][Frame[2]].code)
    <2>1. /\ Frame[1] \in DOMAIN code /\ Frame[2] \in 1..Len(code[Frame[1]])
          /\ Frame[3] \in 1..Len(code[Frame[1]][Frame[2]].code)
          /\ Len(code[Frame[1]][Frame[2]].code) \in Nat
      BY <1>1, FrameFacts
    <2>2. code[Frame[1]][Frame[2]].code[Len(code[Frame[1]][Frame[2]].code)].op \notin {"call", "indirect"}
      BY <2>1, BlockFacts DEF InstrumentInv, PlacedInv
    <2>3. Frame[3] # Len(code[Frame[1]][Frame[2]].code)
      BY <1>0, <1>1, <2>2 DEF Code
    <2> QED
      BY <2>1, <2>3
  <1> QED
    BY <1>1, <1>2, <1>3

\* Before sandbox_init the program is on its way to it.
LEMMA NotStarted ==
    ASSUME InstrumentInv, Running, ~ inited
    PROVE  /\ Len(stack) = 1 /\ Frame = stack[1]
           /\ Frame[1] = "main" /\ Frame[2] = 1 /\ Frame[3] = 1
           /\ Frame[4] <= Len(Before(Frame)) /\ Current.op # "dummycall"
           /\ \A i \in 1..(Frame[4] - 1) : Before(Frame)[i].op # "init"
  <1>1. /\ Len(stack) = 1 /\ Frame = stack[1]
        /\ Frame[1] = "main" /\ Frame[2] = 1 /\ Frame[3] = 1
        /\ \A i \in 1..(Frame[4] - 1) : Before(Frame)[i].op # "init"
    BY DEF InstrumentInv, StartInv, Running, Frame
  <1> DEFINE w == Before(Frame)
  <1>2. InitFirst(w)
    <2>1. code \in Modules
      BY DEF InstrumentInv, PlacedInv
    <2>2. InitFirst(inserted["main"][1][1])
      BY <2>1, MainFacts DEF InstrumentInv, InitInv, Running
    <2> QED
      BY <1>1, <2>2 DEF Before
  <1>3. FrameOK(Frame)
    BY CurrentFacts
  <1>4. Frame[4] \in 1..(Len(w) + 1) /\ Len(w) \in Nat
    BY <1>3, FrameFacts
  <1>5. \A i \in 1..(Frame[4] - 1) : w[i].op # "init"
    BY <1>1
  <1>6. Frame[4] <= Len(w) => Current = w[Frame[4]]
    BY CurrentFacts
  <1> HIDE DEF w
  <1>7. PICK p \in 1..Len(w) : w[p].op = "init" /\ \A i \in 1..p : w[i].op # "dummycall"
    BY <1>2 DEF InitFirst
  <1>8. ~(p \in 1..(Frame[4] - 1))
    BY <1>5, <1>7
  <1>9. Frame[4] \in 1..p /\ Frame[4] <= Len(w)
    BY <1>4, <1>8
  <1> QED
    BY <1>1, <1>6, <1>7, <1>9 DEF w

-----------------------------------------------------------------------------
(* The end of a usual main. *)

\* Which system calls a place of a program with a usual main has before it.
LEMMA CleanupPlace ==
    ASSUME InstrumentInv, phase = "run", UsualMain, NEW s, FrameOK(s)
    PROVE  /\ End \in 1..Len(code["main"]) /\ Tip \in Nat \ {0} /\ Len(code["main"][End].code) = Tip + 1
           /\ s[1] = "main" /\ s[2] = End /\ s[3] = Tip => CleanedAfter(Before(s))
           /\ s[1] = "main" /\ s[2] = End /\ s[3] = Tip + 1 => Before(s) = <<>>
           /\ ~(s[1] = "main" /\ s[2] = End /\ s[3] = Tip) => NoneIn(Before(s), "cleanup")
  <1>1. End \in 1..Len(code["main"]) /\ Tip \in Nat \ {0} /\ Len(code["main"][End].code) = Tip + 1
    BY UsualMainFacts DEF InstrumentInv, PlacedInv
  <1>2. /\ CleanedAfter(inserted["main"][End][Tip]) /\ inserted["main"][End][Tip + 1] = <<>>
        /\ \A f \in DOMAIN code : \A b \in 1..Len(code[f]) : \A k \in 1..Len(code[f][b].code) :
              <<f, b, k>> # <<"main", End, Tip>> => NoneIn(inserted[f][b][k], "cleanup")
    BY DEF InstrumentInv, CleanupInv
  <1>3. /\ s[1] \in DOMAIN code /\ s[2] \in 1..Len(code[s[1]])
        /\ s[3] \in 1..Len(code[s[1]][s[2]].code)
    BY DEF FrameOK
  <1>4. ASSUME ~(s[1] = "main" /\ s[2] = End /\ s[3] = Tip) PROVE NoneIn(Before(s), "cleanup")
    <2>1. <<s[1], s[2], s[3]>> # <<"main", End, Tip>>
      BY <1>4
    <2> QED
      BY <1>2, <1>3, <2>1 DEF Before
  <1> QED
    BY <1>1, <1>2, <1>4 DEF Before

\* Past the cleanup, step by step.
LEMMA PastFacts ==
    ASSUME InstrumentInv, phase = "run", UsualMain, NEW s, FrameOK(s), s[1] = "main"
    PROVE  /\ s[4] <= Len(Before(s)) =>
                 ~ Past(s) /\ (Past(After(s)) <=> Before(s)[s[4]].op = "cleanup")
           /\ ~(s[4] <= Len(Before(s))) /\ s[3] < Len(code["main"][s[2]].code) =>
                 (Past(After(s)) <=> Past(s))
           /\ s[3] = 1 /\ s[4] = 1 => ~ Past(s)
  <1>1. /\ End \in 1..Len(code["main"]) /\ Tip \in Nat \ {0} /\ Len(code["main"][End].code) = Tip + 1
        /\ s[2] = End /\ s[3] = Tip => CleanedAfter(Before(s))
        /\ s[2] = End /\ s[3] = Tip + 1 => Before(s) = <<>>
        /\ ~(s[2] = End /\ s[3] = Tip) => NoneIn(Before(s), "cleanup")
    BY CleanupPlace
  <1>2. /\ s[3] \in 1..Len(code["main"][s[2]].code) /\ s[3] \in Nat
        /\ Before(s) \in Seq(SystemCall) /\ Len(Before(s)) \in Nat
        /\ s[4] \in 1..(Len(Before(s)) + 1) /\ s[4] \in Nat
    BY FrameFacts
  <1>3. ASSUME s[4] <= Len(Before(s))
        PROVE  ~ Past(s) /\ (Past(After(s)) <=> Before(s)[s[4]].op = "cleanup")
    <2>1. ~(s[2] = End /\ s[3] = Tip + 1)
      BY <1>1, <1>2, <1>3
    <2>2. ~ Past(s)
      BY <1>2, <1>3, <2>1 DEF Past
    <2>3. /\ After(s)[2] = s[2] /\ After(s)[3] = s[3] /\ After(s)[4] = s[4] + 1
          /\ Before(After(s)) = Before(s)
      BY <1>3, AfterFacts
    <2>4. Past(After(s)) <=> s[2] = End /\ s[3] = Tip /\ s[4] + 1 > Len(Before(s))
      BY <2>1, <2>3 DEF Past
    <2>5. s[4] + 1 > Len(Before(s)) <=> s[4] = Len(Before(s))
      BY <1>2, <1>3
    <2>6. s[4] \in 1..Len(Before(s))
      BY <1>2, <1>3
    <2>7. CASE s[2] = End /\ s[3] = Tip
      <3>1. Before(s)[s[4]].op = "cleanup" <=> s[4] = Len(Before(s))
        BY <1>1, <2>6, <2>7 DEF CleanedAfter
      <3> QED
        BY <2>2, <2>4, <2>5, <2>7, <3>1
    <2>8. CASE ~(s[2] = End /\ s[3] = Tip)
      <3>1. Before(s)[s[4]].op # "cleanup"
        BY <1>1, <2>6, <2>8 DEF NoneIn
      <3> QED
        BY <2>2, <2>4, <2>8, <3>1
    <2> QED
      BY <2>7, <2>8
  <1>4. ASSUME ~(s[4] <= Len(Before(s))), s[3] < Len(code["main"][s[2]].code)
        PROVE  Past(After(s)) <=> Past(s)
    <2> DEFINE a == After(s)
    <2>1. a[1] = s[1] /\ a[2] = s[2] /\ a[3] = s[3] + 1 /\ a[4] = 1 /\ FrameOK(a)
      BY <1>4, AfterFacts
    <2> HIDE DEF a
    <2>2. /\ a[2] = End /\ a[3] = Tip => CleanedAfter(Before(a))
          /\ Len(Before(a)) \in Nat /\ Before(a) \in Seq(SystemCall)
      BY <2>1, CleanupPlace, FrameFacts
    <2>3. a[2] = End /\ a[3] = Tip => ~(1 > Len(Before(a)))
      BY <2>2 DEF CleanedAfter
    <2>4. Past(a) <=> s[2] = End /\ s[3] + 1 = Tip + 1
      BY <2>1, <2>3 DEF Past
    <2>5. s[4] > Len(Before(s))
      BY <1>2, <1>4
    <2>6. s[2] = End => s[3] < Tip + 1
      BY <1>1, <1>4
    <2>7. Past(s) <=> s[2] = End /\ s[3] = Tip
      BY <1>1, <1>2, <2>5, <2>6 DEF Past
    <2> QED
      BY <1>1, <1>2, <2>4, <2>7 DEF a
  <1>5. ASSUME s[3] = 1, s[4] = 1 PROVE ~ Past(s)
    <2>1. ~(s[3] = Tip + 1)
      BY <1>1, <1>5
    <2>2. s[2] = End /\ s[3] = Tip => ~(s[4] > Len(Before(s)))
      BY <1>1, <1>2, <1>5 DEF CleanedAfter
    <2> QED
      BY <2>1, <2>2 DEF Past
  <1> QED
    BY <1>3, <1>4, <1>5

\* The end of a usual main, from what a step does to the stack.
LEMMA EndKept ==
    ASSUME InstrumentInv, Running, UNCHANGED <<listing, reader, code, pass>>, phase' \in {"run", "over"},
           UsualMain => /\ \A i \in 1..Len(stack') : stack'[i][1] = "main" <=> i = 1
                        /\ stack' = <<>> => cleaned'
                        /\ stack' # <<>> => (cleaned' <=> Past(stack'[1]))
                        /\ cleaned' => Len(stack') <= 1
    PROVE  EndInv'
  <1>1. code' = code /\ inserted' = inserted
    BY DEF pass
  <1>2. (UsualMain' <=> UsualMain) /\ End' = End /\ Tip' = Tip
    BY <1>1 DEF UsualMain, End, Tip
  <1>3. ASSUME NEW s PROVE Past(s)' <=> Past(s)
    BY <1>1, <1>2 DEF Past, Before
  <1>4. PICK S : S = stack'
    OBVIOUS
  <1>5. UsualMain => /\ \A i \in 1..Len(S) : S[i][1] = "main" <=> i = 1
                     /\ S = <<>> => cleaned'
                     /\ S # <<>> => (cleaned' <=> Past(S[1])')
                     /\ cleaned' => Len(S) <= 1
    BY <1>3, <1>4
  <1> QED
    BY <1>2, <1>4, <1>5 DEF EndInv

\* How far a usual main is, and what that says of the stack.
LEMMA EndFacts ==
    ASSUME InstrumentInv, Running, UsualMain
    PROVE  /\ \A i \in 1..Len(stack) : stack[i][1] = "main" <=> i = 1
           /\ Frame[1] = "main" <=> Len(stack) = 1
           /\ Len(stack) = 1 => Frame = stack[1]
           /\ cleaned <=> Past(stack[1])
           /\ cleaned => Len(stack) = 1
           /\ code \in Modules
  <1>1. /\ \A i \in 1..Len(stack) : stack[i][1] = "main" <=> i = 1
        /\ cleaned <=> Past(stack[1])
        /\ cleaned => Len(stack) <= 1
    BY DEF InstrumentInv, EndInv, Running
  <1>2. Len(stack) \in Nat \ {0}
    BY CurrentFacts
  <1>3. Len(stack) \in 1..Len(stack)
    BY <1>2
  <1>4. Frame[1] = "main" <=> Len(stack) = 1
    BY <1>1, <1>3 DEF Frame
  <1>5. Len(stack) = 1 => Frame = stack[1]
    BY DEF Frame
  <1>6. Len(stack) <= 1 => Len(stack) = 1
    <2>1. ASSUME NEW m \in Nat \ {0}, m <= 1 PROVE m = 1
      BY <2>1
    <2> QED
      BY <1>2, <2>1
  <1> QED
    BY <1>1, <1>4, <1>5, <1>6 DEF InstrumentInv, PlacedInv

\* A frame of the same function on top leaves the order of the functions.
LEMMA TopSame ==
    ASSUME InstrumentInv, Running, UsualMain, NEW x, x[1] = Frame[1], NEW S,
           Len(S) = Len(stack), S[Len(stack)] = x,
           \A i \in 1..Len(stack) : i < Len(stack) => S[i] = stack[i]
    PROVE  /\ \A i \in 1..Len(S) : S[i][1] = "main" <=> i = 1
           /\ S[1] = IF Len(stack) = 1 THEN x ELSE stack[1]
  <1>2. Len(stack) \in Nat \ {0}
    BY CurrentFacts
  <1>3. \A i \in 1..Len(stack) : stack[i][1] = "main" <=> i = 1
    BY EndFacts
  <1>4. ASSUME NEW i \in 1..Len(stack) PROVE S[i][1] = "main" <=> i = 1
    <2>1. CASE i = Len(stack)
      BY <1>3, <2>1 DEF Frame
    <2>2. CASE i # Len(stack)
      BY <1>2, <1>3, <2>2
    <2> QED
      BY <2>1, <2>2
  <1>5. S[1] = IF Len(stack) = 1 THEN x ELSE stack[1]
    <2>1. 1 \in 1..Len(stack) /\ (Len(stack) # 1 => 1 < Len(stack))
      BY <1>2
    <2> QED
      BY <2>1
  <1> QED
    BY <1>4, <1>5

\* sandbox_init, sandbox_cleanup and the announcements.
LEMMA SystemCallStep ==
    ASSUME InstrumentInv, system_call
    PROVE  InstrumentInv'
  <1> DEFINE s == Frame
             x == After(Frame)
             w == Before(Frame)
             n == Len(stack)
  <1>1. /\ Running /\ Current.op \in {"dummycall", "init", "cleanup"} /\ stack' = Resume
        /\ announced' = IF Current.op = "dummycall" THEN Append(announced, Current.arg) ELSE announced
        /\ inited' = (inited \/ Current.op = "init") /\ cleaned' = (cleaned \/ Current.op = "cleanup")
        /\ UNCHANGED <<listing, reader, code, pass>> /\ phase = "run" /\ phase' = "run"
        /\ inserted' = inserted
    BY DEF system_call, Running, pass
  <1>2. /\ FrameOK(s) /\ s[4] <= Len(w) /\ Current = w[s[4]] /\ n \in Nat \ {0}
        /\ announced = IF Pending(s) THEN <<stringMap[Code(s).arg]>> ELSE <<>>
    BY <1>1, CurrentFacts
  <1>3. s[4] \in 1..Len(w) /\ s[4] \in Nat /\ Len(w) \in Nat
    BY <1>2, FrameFacts
  <1>4. /\ FrameOK(x) /\ x \in Frames
        /\ x[1] = s[1] /\ x[2] = s[2] /\ x[3] = s[3] /\ x[4] = s[4] + 1
        /\ Before(x) = w /\ Code(x) = Code(s)
        /\ Pending(x) <=> Pending(s) \/ Current.op = "dummycall"
    BY <1>1, <1>2, AfterFacts
  <1>5. stack' = Topped(x)
    BY <1>1 DEF Resume, Frame, Topped
  <1>6. /\ stack' \in Seq(Frames) /\ Len(stack') = n /\ stack' # <<>>
        /\ stack'[n] = x
        /\ \A i \in 1..n : FrameOK(stack'[i]) /\ (i < n => stack'[i] = stack[i] /\ stack'[i][4] = 1)
    BY <1>1, <1>4, <1>5, TopReplaced
  <1>7. announced' = IF Pending(x) THEN <<stringMap[Code(x).arg]>> ELSE <<>>
    <2>1. CASE Current.op = "dummycall"
      <3>1. ~ Pending(s)
        <4>1. Pending(s) => w[s[4]].op = "cleanup"
          BY <1>1, <1>2, PendingFacts
        <4> QED
          BY <1>2, <2>1, <4>1
      <3>2. Current = Announce(Code(s))
        BY <1>1, <1>2, <1>3, <2>1, AnnouncedFacts
      <3>3. announced = <<>> /\ Current.arg = stringMap[Code(s).arg]
        BY <1>2, <3>1, <3>2 DEF Announce
      <3>4. announced' = <<stringMap[Code(s).arg]>>
        BY <1>1, <2>1, <3>3
      <3> QED
        BY <1>4, <2>1, <3>4
    <2>2. CASE Current.op # "dummycall"
      BY <1>1, <1>2, <1>4, <2>2
    <2> QED
      BY <2>1, <2>2
  <1>8. RunInv'
    BY <1>1, <1>6, <1>7, RunKept
  <1>9. StartInv'
    <2>1. CASE inited
      BY <1>1, <2>1 DEF StartInv
    <2>2. CASE Current.op = "init"
      BY <1>1, <2>2 DEF StartInv
    <2>3. CASE ~ inited /\ Current.op # "init"
      <3>1. /\ n = 1 /\ s[1] = "main" /\ s[2] = 1 /\ s[3] = 1 /\ Current.op # "dummycall"
            /\ \A i \in 1..(s[4] - 1) : w[i].op # "init"
        BY <1>1, <2>3, NotStarted
      <3>2. announced' = <<>>
        BY <1>1, <2>3, <3>1 DEF InstrumentInv, StartInv
      <3>3. x[4] - 1 = s[4]
        BY <1>3, <1>4
      <3>4. ASSUME NEW i \in 1..(x[4] - 1) PROVE w[i].op # "init"
        <4>1. i = s[4] \/ i \in 1..(s[4] - 1)
          BY <1>3, <3>3
        <4> QED
          BY <1>2, <2>3, <3>1, <4>1
      <3>5. \A i \in 1..(x[4] - 1) : Before(x)[i].op # "init"
        BY <1>4, <3>4
      <3>6. stack'[1] = x /\ Len(stack') = 1
        BY <1>6, <3>1
      <3>7. PICK y : y = x
        OBVIOUS
      <3>8. /\ y[1] = "main" /\ y[2] = 1 /\ y[3] = 1 /\ stack'[1] = y
            /\ \A i \in 1..(y[4] - 1) : Before(y)[i].op # "init"
        BY <1>4, <3>1, <3>5, <3>6, <3>7
      <3>9. Before(y)' = Before(y)
        BY <1>1 DEF Before
      <3>10. \A i \in 1..(stack'[1][4] - 1) : Before(stack[1])'[i].op # "init"
        BY <1>1, <3>8 DEF Before
      <3> QED
        BY <3>2, <3>6, <3>8, <3>10 DEF StartInv
    <2> QED
      BY <2>1, <2>2, <2>3
  <1>10. EndInv'
    <2>1. ASSUME UsualMain
          PROVE  /\ \A i \in 1..Len(stack') : stack'[i][1] = "main" <=> i = 1
                 /\ cleaned' <=> Past(stack'[1])
                 /\ cleaned' => Len(stack') <= 1
      <3>1. /\ \A i \in 1..Len(stack') : stack'[i][1] = "main" <=> i = 1
            /\ Len(stack') = n /\ stack'[1] = IF n = 1 THEN x ELSE stack[1]
        BY <1>1, <1>4, <1>6, <2>1, TopSame
      <3>2. /\ s[1] = "main" <=> n = 1
            /\ n = 1 => s = stack[1]
            /\ cleaned <=> Past(stack[1])
            /\ cleaned => n = 1
        BY <1>1, <2>1, EndFacts
      <3>3. CASE n = 1
        <4>1. ~ Past(s) /\ (Past(x) <=> Current.op = "cleanup")
          BY <1>1, <1>2, <2>1, <3>2, <3>3, PastFacts
        <4>2. ~ cleaned
          BY <3>2, <3>3, <4>1
        <4>3. cleaned' <=> Current.op = "cleanup"
          BY <1>1, <4>2
        <4>4. stack'[1] = x
          BY <3>1, <3>3
        <4> HIDE DEF x
        <4>5. cleaned' <=> Past(stack'[1])
          BY <4>1, <4>3, <4>4
        <4> QED
          BY <3>1, <3>3, <4>5
      <3>4. CASE n # 1
        <4>1. NoneIn(w, "cleanup")
          BY <1>1, <1>2, <2>1, <3>2, <3>4, CleanupPlace
        <4>2. Current.op # "cleanup"
          BY <1>2, <1>3, <4>1 DEF NoneIn
        <4> QED
          BY <1>1, <3>1, <3>2, <3>4, <4>2
      <3> QED
        BY <3>3, <3>4
    <2> QED
      BY <1>1, <1>6, <2>1, EndKept
  <1>11. ReaderInv' /\ PlacedInv' /\ InitInv' /\ CleanupInv' /\ RecordInv'
    BY <1>1, ProgramKept
  <1> QED
    BY <1>8, <1>9, <1>10, <1>11 DEF InstrumentInv

\* An instruction is done that is not the last of its block.
LEMMA ResumeStep ==
    ASSUME InstrumentInv, Running, ~(Frame[4] <= Len(Before(Frame))),
           Frame[3] < Len(code[Frame[1]][Frame[2]].code),
           stack' = Resume, announced' = <<>>, UNCHANGED <<inited, cleaned>>,
           UNCHANGED <<listing, reader, code, pass>>, phase' \in {"run", "over"}
    PROVE  InstrumentInv'
  <1> DEFINE x == After(Frame)
  <1>1. FrameOK(Frame) /\ phase = "run"
    BY CurrentFacts
  <1>2. /\ FrameOK(x) /\ x \in Frames /\ x[1] = Frame[1] /\ x[2] = Frame[2] /\ x[4] = 1
        /\ ~ Pending(x)
    BY <1>1, AfterFacts
  <1>3. stack' = Topped(x)
    BY DEF Resume, Frame, Topped
  <1>4. /\ stack' \in Seq(Frames) /\ Len(stack') = Len(stack) /\ stack' # <<>> /\ stack'[Len(stack)] = x
        /\ \A i \in 1..Len(stack) : /\ FrameOK(stack'[i])
                                    /\ i < Len(stack) => stack'[i] = stack[i] /\ stack'[i][4] = 1
    BY <1>2, <1>3, TopReplaced
  <1>5. RunInv'
    BY <1>2, <1>4, RunKept
  <1>6. StartInv'
    <2>1. inited
      BY NotStarted
    <2> QED
      BY <2>1 DEF StartInv
  <1>7. EndInv'
    <2>1. ASSUME UsualMain
          PROVE  /\ \A i \in 1..Len(stack') : stack'[i][1] = "main" <=> i = 1
                 /\ cleaned <=> Past(stack'[1])
                 /\ cleaned => Len(stack') <= 1
      <3>1. /\ \A i \in 1..Len(stack') : stack'[i][1] = "main" <=> i = 1
            /\ stack'[1] = IF Len(stack) = 1 THEN x ELSE stack[1]
        BY <1>2, <1>4, <2>1, TopSame
      <3>2. /\ Frame[1] = "main" <=> Len(stack) = 1
            /\ Len(stack) = 1 => Frame = stack[1]
            /\ cleaned <=> Past(stack[1])
            /\ cleaned => Len(stack) = 1
        BY <2>1, EndFacts
      <3>3. Len(stack) = 1 => (Past(x) <=> Past(Frame))
        BY <1>1, <2>1, <3>2, PastFacts
      <3>4. Past(stack'[1]) <=> Past(stack[1])
        <4> HIDE DEF x
        <4> QED
          BY <3>1, <3>2, <3>3
      <3>5. Len(stack') = 1 => Len(stack') <= 1
        OBVIOUS
      <3> QED
        BY <1>4, <3>1, <3>2, <3>4, <3>5
    <2> QED
      BY <1>4, <2>1, EndKept
  <1>8. ReaderInv' /\ PlacedInv' /\ InitInv' /\ CleanupInv' /\ RecordInv'
    BY ProgramKept
  <1> QED
    BY <1>5, <1>6, <1>7, <1>8 DEF InstrumentInv

\* A function of the library is called.
LEMMA ExternalCallStep ==
    ASSUME InstrumentInv, external_call
    PROVE  InstrumentInv'
  <1>1. PICK n \in Targets(Current) : announced' = Unannounced(n)
    BY DEF external_call
  <1>2. /\ Running
        /\ stack' = Resume /\ phase' \in {"run", "over"} /\ UNCHANGED <<inited, cleaned>>
        /\ UNCHANGED <<listing, reader, code, pass>>
    BY DEF external_call
  <1>3. /\ Unannounced(n) = <<>> /\ ~(Frame[4] <= Len(Before(Frame)))
        /\ Frame[3] < Len(code[Frame[1]][Frame[2]].code)
    BY <1>2, CallDone
  <1> QED
    BY <1>1, <1>2, <1>3, ResumeStep

\* The first place of a block.
LEMMA BlockStart ==
    ASSUME InstrumentInv, phase = "run", NEW f \in DOMAIN code, NEW b \in 1..Len(code[f]), NEW x,
           x = <<f, b, 1, 1>>
    PROVE  /\ x \in Frames /\ FrameOK(x) /\ ~ Pending(x)
           /\ x[1] = f /\ x[2] = b /\ x[3] = 1 /\ x[4] = 1
  <1>1. x[1] = f /\ x[2] = b /\ x[3] = 1 /\ x[4] = 1
    OBVIOUS
  <1>2. code \in Modules
    BY DEF InstrumentInv, PlacedInv
  <1>3. 1 \in 1..Len(code[f][b].code) /\ Len(code[f]) \in Nat
    BY <1>2, BlockFacts
  <1>4. Len(inserted[f][b][1]) \in Nat
    BY <1>3, PlacedHere
  <1>5. 1 \in 1..(Len(inserted[f][b][1]) + 1)
    BY <1>4
  <1>6. FrameOK(x)
    BY <1>1, <1>3, <1>5 DEF FrameOK, Before
  <1>7. x \in Frames
    <2>1. b \in Nat
      BY <1>3
    <2> QED
      BY <2>1 DEF Frames
  <1>8. ~ Pending(x)
    BY <1>1, <1>6, PendingFacts
  <1> QED
    BY <1>1, <1>6, <1>7, <1>8

\* A branch at the end of a block.
LEMMA BranchStep ==
    ASSUME InstrumentInv, Running, ~(Frame[4] <= Len(Before(Frame))),
           Frame[3] = Len(code[Frame[1]][Frame[2]].code),
           code[Frame[1]][Frame[2]].succ # {},
           NEW x \in Frames, FrameOK(x), ~ Pending(x), x[1] = Frame[1], x[3] = 1, x[4] = 1,
           stack' = Topped(x),
           announced' = <<>>, UNCHANGED <<inited, cleaned>>,
           UNCHANGED <<listing, reader, code, pass>>, phase' = "run"
    PROVE  InstrumentInv'
  <1>1. FrameOK(Frame) /\ phase = "run" /\ code \in Modules
    BY CurrentFacts DEF InstrumentInv, PlacedInv
  <1>8. /\ stack' \in Seq(Frames) /\ Len(stack') = Len(stack) /\ stack' # <<>> /\ stack'[Len(stack)] = x
        /\ \A i \in 1..Len(stack) : /\ FrameOK(stack'[i])
                                    /\ i < Len(stack) => stack'[i] = stack[i] /\ stack'[i][4] = 1
    BY TopReplaced
  <1>9. RunInv'
    BY <1>8, RunKept
  <1>10. StartInv'
    <2>1. inited
      BY NotStarted
    <2> QED
      BY <2>1 DEF StartInv
  <1>11. EndInv'
    <2>1. ASSUME UsualMain
          PROVE  /\ \A i \in 1..Len(stack') : stack'[i][1] = "main" <=> i = 1
                 /\ cleaned <=> Past(stack'[1])
                 /\ cleaned => Len(stack') <= 1
      <3>1. /\ \A i \in 1..Len(stack') : stack'[i][1] = "main" <=> i = 1
            /\ stack'[1] = IF Len(stack) = 1 THEN x ELSE stack[1]
        BY <1>8, <2>1, TopSame
      <3>2. /\ Frame[1] = "main" <=> Len(stack) = 1
            /\ Len(stack) = 1 => Frame = stack[1]
            /\ cleaned <=> Past(stack[1])
            /\ cleaned => Len(stack) = 1
        BY <2>1, EndFacts
      <3>3. Len(stack) = 1 => ~ Past(x)
        BY <1>1, <2>1, <3>2, PastFacts
      <3>4. Len(stack) = 1 => ~ Past(Frame)
        <4> SUFFICES ASSUME Len(stack) = 1 PROVE Frame[2] # End
          BY DEF Past
        <4>1. Frame[1] = "main"
          BY <3>2
        <4>2. /\ "main" \in DOMAIN code /\ End \in 1..Len(code["main"]) /\ Tip \in Nat \ {0}
              /\ Len(code["main"][End].code) = Tip + 1 /\ code["main"][End].code[Tip + 1].op = "ret"
          BY <1>1, <2>1, UsualMainFacts
        <4>3. Tip + 1 \in 1..Len(code["main"][End].code)
          BY <4>2
        <4>4. code["main"][End].succ = {}
          BY <1>1, <4>2, <4>3, BlockFacts
        <4> QED
          BY <4>1, <4>4
      <3>5. Past(stack'[1]) <=> Past(stack[1])
        BY <3>1, <3>2, <3>3, <3>4
      <3>6. Len(stack') = 1 => Len(stack') <= 1
        OBVIOUS
      <3> QED
        BY <1>8, <3>1, <3>2, <3>5, <3>6
    <2> QED
      BY <1>8, <2>1, EndKept
  <1>12. ReaderInv' /\ PlacedInv' /\ InitInv' /\ CleanupInv' /\ RecordInv'
    BY ProgramKept
  <1> QED
    BY <1>9, <1>10, <1>11, <1>12 DEF InstrumentInv

\* A function of the program is entered: the caller goes on behind the call.
LEMMA EnterStep ==
    ASSUME InstrumentInv, enter
    PROVE  InstrumentInv'
  <1>0. PICK g \in Targets(Current) : /\ g \in DOMAIN code /\ announced' = Unannounced(g)
                                      /\ stack' = Append(Resume, <<g, 1, 1, 1>>)
    BY DEF enter
  <1>1. /\ Running
        /\ UNCHANGED <<inited, cleaned>> /\ UNCHANGED <<listing, reader, code, pass>> /\ phase' = phase
    BY DEF enter
  <1>2. /\ announced' = <<>> /\ Current = Code(Frame) /\ ~(Frame[4] <= Len(Before(Frame)))
        /\ Frame[3] < Len(code[Frame[1]][Frame[2]].code)
    BY <1>0, <1>1, CallDone
  <1>3. /\ FrameOK(Frame) /\ phase = "run" /\ Len(stack) \in Nat \ {0} /\ code \in Modules
    BY <1>1, CurrentFacts DEF InstrumentInv, PlacedInv
  <1>4. PICK x : x = After(Frame)
    OBVIOUS
  <1>5. /\ FrameOK(x) /\ x \in Frames /\ x[1] = Frame[1] /\ x[4] = 1
    BY <1>2, <1>3, <1>4, AfterFacts
  <1>6. PICK R : R = Topped(x)
    OBVIOUS
  <1>7. Resume = R
    BY <1>4, <1>6 DEF Resume, Frame, Topped
  <1>8. /\ R \in Seq(Frames) /\ Len(R) = Len(stack) /\ R[Len(stack)] = x
        /\ \A i \in 1..Len(stack) : FrameOK(R[i]) /\ (i < Len(stack) => R[i] = stack[i] /\ R[i][4] = 1)
    BY <1>1, <1>5, <1>6, TopReplaced
  <1>9. PICK y : y = <<g, 1, 1, 1>>
    OBVIOUS
  <1>10. y \in Frames /\ FrameOK(y) /\ ~ Pending(y) /\ y[1] = g
    <2>1. 1 \in 1..Len(code[g])
      BY <1>0, <1>3, MainFacts
    <2> QED
      BY <1>0, <1>3, <1>9, <2>1, BlockStart
  <1>11. stack' = Append(R, y)
    BY <1>0, <1>7, <1>9
  <1>12. PICK n \in Nat \ {0} : n = Len(stack)
    BY <1>3
  <1>13. /\ R \in Seq(Frames) /\ Len(R) = n /\ R[n] = x
         /\ \A i \in 1..n : FrameOK(R[i]) /\ (i < n => R[i] = stack[i] /\ R[i][4] = 1)
    BY <1>8, <1>12
  <1>14. /\ stack' \in Seq(Frames) /\ Len(stack') = n + 1 /\ stack'[n + 1] = y
         /\ \A i \in 1..n : stack'[i] = R[i]
    BY <1>10, <1>11, <1>13
  <1>15. ASSUME NEW i \in 1..(n + 1)
         PROVE  FrameOK(stack'[i]) /\ (i < n + 1 => stack'[i][4] = 1)
    <2>1. CASE i = n + 1
      BY <1>10, <1>14, <2>1
    <2>2. CASE i = n
      BY <1>5, <1>13, <1>14, <2>2
    <2>3. CASE i # n + 1 /\ i # n
      <3>1. i \in 1..n /\ i < n
        BY <2>3
      <3> QED
        BY <1>13, <1>14, <3>1
    <2> QED
      BY <2>1, <2>2, <2>3
  <1>16. RunInv'
    <2>1. \A i \in 1..Len(stack') : FrameOK(stack'[i]) /\ (i < Len(stack') => stack'[i][4] = 1)
      BY <1>14, <1>15
    <2>2. ~ Pending(stack'[Len(stack')])
      BY <1>10, <1>14
    <2> QED
      BY <1>1, <1>2, <1>3, <1>14, <2>1, <2>2, RunKept
  <1>17. StartInv'
    <2>1. inited
      BY <1>1, <1>2, NotStarted
    <2> QED
      BY <1>1, <2>1 DEF StartInv
  <1>18. EndInv'
    <2>1. ASSUME UsualMain
          PROVE  /\ \A i \in 1..Len(stack') : stack'[i][1] = "main" <=> i = 1
                 /\ ~ cleaned /\ ~ Past(stack'[1]) /\ stack' # <<>>
      <3>1. /\ \A i \in 1..Len(R) : R[i][1] = "main" <=> i = 1
            /\ R[1] = IF Len(stack) = 1 THEN x ELSE stack[1]
        BY <1>1, <1>5, <1>8, <2>1, TopSame
      <3>2. /\ Frame[1] = "main" <=> Len(stack) = 1
            /\ Len(stack) = 1 => Frame = stack[1]
            /\ cleaned <=> Past(stack[1])
            /\ cleaned => Len(stack) = 1
        BY <1>1, <2>1, EndFacts
      <3>3. y[1] # "main"
        <4>1. "main" \notin Targets(Code(Frame))
          BY <1>3, <2>1, FrameFacts DEF UsualMain, Code
        <4> QED
          BY <1>0, <1>2, <1>10, <4>1
      <3>4. ASSUME NEW i \in 1..(n + 1) PROVE stack'[i][1] = "main" <=> i = 1
        <4>1. CASE i = n + 1
          BY <1>14, <3>3, <4>1
        <4>2. CASE i # n + 1
          BY <1>13, <1>14, <3>1, <4>2
        <4> QED
          BY <4>1, <4>2
      <3>5. ASSUME Len(stack) = 1 PROVE ~ Past(Frame) /\ ~ Past(x)
        <4>1. Frame[1] = "main"
          BY <3>2, <3>5
        <4>2. Past(x) <=> Past(Frame)
          BY <1>2, <1>3, <1>4, <2>1, <4>1, PastFacts
        <4>3. /\ Tip \in Nat \ {0} /\ Len(code["main"][End].code) = Tip + 1
          BY <1>3, <2>1, UsualMainFacts
        <4>4. ~(Frame[2] = End /\ Frame[3] = Tip + 1)
          BY <1>2, <4>1, <4>3
        <4>5. ~(Frame[2] = End /\ Frame[3] = Tip)
          <5>1. Targets(code["main"][End].code[Tip]) \cap DOMAIN code = {}
            BY <2>1 DEF UsualMain, End, Tip
          <5> QED
            BY <1>0, <1>2, <4>1, <5>1 DEF Code
        <4> QED
          BY <4>2, <4>4, <4>5 DEF Past
      <3>6. stack'[1] = R[1] /\ stack' # <<>>
        BY <1>14
      <3>7. ~ cleaned
        BY <3>2, <3>5
      <3>8. ~ Past(R[1])
        BY <3>1, <3>2, <3>5, <3>7
      <3> QED
        BY <1>14, <3>4, <3>6, <3>7, <3>8
    <2> QED
      BY <1>1, <1>3, <2>1, EndKept
  <1>19. ReaderInv' /\ PlacedInv' /\ InitInv' /\ CleanupInv' /\ RecordInv'
    BY <1>1, <1>3, ProgramKept
  <1> QED
    BY <1>16, <1>17, <1>18, <1>19 DEF InstrumentInv

\* A function returns to its caller, or main to nobody.
LEMMA ReturnStep ==
    ASSUME InstrumentInv, Running, ~(Frame[4] <= Len(Before(Frame))), Code(Frame).op = "ret",
           stack' = Front(stack), announced' = <<>>, UNCHANGED <<inited, cleaned>>,
           UNCHANGED <<listing, reader, code, pass>>, phase' = "run"
    PROVE  InstrumentInv'
  <1>1. /\ FrameOK(Frame) /\ phase = "run" /\ stack \in Seq(Frames) /\ Len(stack) \in Nat \ {0}
        /\ code \in Modules
    BY CurrentFacts DEF InstrumentInv, PlacedInv
  <1>2. \A i \in 1..Len(stack) : FrameOK(stack[i]) /\ (i < Len(stack) => stack[i][4] = 1)
    BY DEF InstrumentInv, RunInv, Running
  <1>3. PICK n \in Nat : Len(stack) = n + 1
    BY <1>1
  <1>4. stack' \in Seq(Frames) /\ Len(stack') = n /\ \A i \in 1..n : stack'[i] = stack[i]
    BY <1>1, <1>3 DEF Front
  <1>5. \A i \in 1..n : FrameOK(stack'[i]) /\ stack'[i][4] = 1
    BY <1>2, <1>3, <1>4
  <1>6. stack' # <<>> => n \in 1..n
    BY <1>4
  <1>7. RunInv'
    <2>1. stack' # <<>> => ~ Pending(stack'[Len(stack')])
      BY <1>1, <1>4, <1>5, <1>6, PendingFacts
    <2>2. \A i \in 1..Len(stack') : FrameOK(stack'[i]) /\ (i < Len(stack') => stack'[i][4] = 1)
      BY <1>4, <1>5
    <2> QED
      BY <1>4, <2>1, <2>2, RunKept
  <1>8. StartInv'
    <2>1. inited
      BY NotStarted
    <2> QED
      BY <2>1 DEF StartInv
  <1>9. EndInv'
    <2>1. ASSUME UsualMain
          PROVE  /\ \A i \in 1..Len(stack') : stack'[i][1] = "main" <=> i = 1
                 /\ stack' = <<>> => cleaned
                 /\ stack' # <<>> => (cleaned <=> Past(stack'[1]))
                 /\ cleaned => Len(stack') <= 1
      <3>1. /\ \A i \in 1..Len(stack) : stack[i][1] = "main" <=> i = 1
            /\ Frame[1] = "main" <=> Len(stack) = 1
            /\ Len(stack) = 1 => Frame = stack[1]
            /\ cleaned <=> Past(stack[1])
            /\ cleaned => Len(stack) = 1
        BY <2>1, EndFacts
      <3>2. \A i \in 1..Len(stack') : stack'[i][1] = "main" <=> i = 1
        BY <1>3, <1>4, <3>1
      <3>3. ASSUME stack' = <<>> PROVE cleaned
        <4>1. Len(stack) = 1
          BY <1>3, <1>4, <3>3
        <4>2. /\ Frame[2] \in 1..Len(code["main"]) /\ Frame[3] \in 1..Len(code["main"][Frame[2]].code)
              /\ code["main"][Frame[2]].code[Frame[3]].op = "ret"
          BY <1>1, <3>1, <4>1, FrameFacts DEF Code
        <4>3. Frame[2] = End /\ Frame[3] = Tip + 1
          BY <1>1, <2>1, <4>2, UsualMainFacts
        <4>4. Past(Frame)
          BY <4>3 DEF Past
        <4> QED
          BY <3>1, <4>1, <4>4
      <3>4. stack' # <<>> => 1 \in 1..n /\ Len(stack) # 1
        BY <1>3, <1>4
      <3>5. stack' # <<>> => stack'[1] = stack[1] /\ ~ cleaned
        BY <1>4, <3>1, <3>4
      <3>6. Len(stack) = 1 => Len(stack') <= 1
        <4>1. n + 1 = 1 => n <= 1
          OBVIOUS
        <4> QED
          BY <1>3, <1>4, <4>1
      <3> QED
        BY <3>1, <3>2, <3>3, <3>5, <3>6
    <2> QED
      BY <2>1, EndKept
  <1>10. ReaderInv' /\ PlacedInv' /\ InitInv' /\ CleanupInv' /\ RecordInv'
    BY ProgramKept
  <1> QED
    BY <1>7, <1>8, <1>9, <1>10 DEF InstrumentInv

\* An instruction of no interest, a branch or a return.
LEMMA LocalStep ==
    ASSUME InstrumentInv, local
    PROVE  InstrumentInv'
  <1>1. /\ Running /\ Current.op \in {"other", "ret"}
        /\ UNCHANGED <<listing, reader, code, pass>> /\ phase' = phase
        /\ announced' = announced /\ UNCHANGED <<inited, cleaned>>
    BY DEF local
  <1>2. /\ FrameOK(Frame) /\ phase = "run" /\ phase' = "run" /\ code \in Modules
        /\ ~(Frame[4] <= Len(Before(Frame))) /\ Current = Code(Frame)
        /\ announced = IF Pending(Frame) THEN <<stringMap[Code(Frame).arg]>> ELSE <<>>
    BY <1>1, CurrentFacts DEF InstrumentInv, PlacedInv
  <1>3. announced' = <<>>
    <2>1. ~ Pending(Frame)
      BY <1>1, <1>2, PendingFacts DEF ListedCall
    <2> QED
      BY <1>1, <1>2, <2>1
  <1>4. CASE Frame[3] < Len(code[Frame[1]][Frame[2]].code) /\ stack' = Resume
    BY <1>1, <1>2, <1>3, <1>4, ResumeStep
  <1>5. CASE /\ Frame[3] = Len(code[Frame[1]][Frame[2]].code)
             /\ \E b \in code[Frame[1]][Frame[2]].succ :
                   stack' = [stack EXCEPT ![Len(stack)] = <<Frame[1], b, 1, 1>>]
    <2>1. PICK b \in code[Frame[1]][Frame[2]].succ :
              stack' = [stack EXCEPT ![Len(stack)] = <<Frame[1], b, 1, 1>>]
      BY <1>5
    <2>2. PICK x : x = <<Frame[1], b, 1, 1>>
      OBVIOUS
    <2>3. stack' = Topped(x)
      BY <2>1, <2>2 DEF Topped
    <2>4. /\ Frame[1] \in DOMAIN code /\ Frame[2] \in 1..Len(code[Frame[1]])
      BY <1>2, FrameFacts
    <2>5. b \in 2..Len(code[Frame[1]]) /\ Len(code[Frame[1]]) \in Nat
      BY <1>2, <2>4, BlockFacts
    <2>6. b \in 1..Len(code[Frame[1]])
      BY <2>5
    <2>7. x \in Frames /\ FrameOK(x) /\ ~ Pending(x) /\ x[1] = Frame[1] /\ x[3] = 1 /\ x[4] = 1
      BY <1>2, <2>2, <2>4, <2>6, BlockStart
    <2>8. code[Frame[1]][Frame[2]].succ # {}
      BY <2>1
    <2> QED
      BY <1>1, <1>2, <1>3, <1>5, <2>3, <2>7, <2>8, BranchStep
  <1>6. CASE Current.op = "ret" /\ stack' = Front(stack)
    BY <1>1, <1>2, <1>3, <1>6, ReturnStep
  <1> QED
    BY <1>4, <1>5, <1>6 DEF local

-----------------------------------------------------------------------------
(* The theorems. *)

\* Nothing changes.
LEMMA InstrumentStutter ==
    ASSUME InstrumentInv, UNCHANGED vars
    PROVE  InstrumentInv'
  <1>1. /\ listing' = listing /\ stringMap' = stringMap /\ loaded' = loaded /\ code' = code
        /\ inserted' = inserted /\ bbToLibcMap' = bbToLibcMap /\ waiting' = waiting /\ phase' = phase
        /\ stack' = stack /\ announced' = announced /\ inited' = inited /\ cleaned' = cleaned
    BY DEF vars, reader, pass, process
  <1>2. ReaderInv'
    BY <1>1 DEF InstrumentInv, ReaderInv
  <1>3. PlacedInv'
    <2>1. ASSUME NEW f, NEW I, NEW w, PlacedAt(f, I, w) PROVE PlacedAt(f, I, w)'
      BY <1>1, <2>1 DEF PlacedAt, Announcing, Announce, ListedCall, isStringInMap, NoneIn
    <2> QED
      BY <1>1, <2>1 DEF InstrumentInv, PlacedInv, PlacedIn
  <1>4. InitInv'
    BY <1>1 DEF InstrumentInv, InitInv, InitFirst, NoneIn
  <1>5. (UsualMain' <=> UsualMain) /\ End' = End /\ Tip' = Tip
    BY <1>1 DEF UsualMain, End, Tip
  <1>6. CleanupInv'
    BY <1>1, <1>5 DEF InstrumentInv, CleanupInv
  <1>7. RecordInv'
    <2>1. ASSUME NEW B PROVE CallsIn(B)' = CallsIn(B)
      BY <1>1 DEF CallsIn, Kind, isStringInMap
    <2> QED
      BY <1>1, <2>1 DEF InstrumentInv, RecordInv
  <1>8. ASSUME NEW s PROVE /\ FrameOK(s)' <=> FrameOK(s)
                           /\ Pending(s)' <=> Pending(s)
                           /\ Past(s)' <=> Past(s)
                           /\ Code(s)' = Code(s) /\ Before(s)' = Before(s)
    BY <1>1, <1>5 DEF FrameOK, Pending, Past, Before, Code
  <1>9. RunInv'
    BY <1>1, <1>8 DEF InstrumentInv, RunInv, Frame
  <1>10. StartInv'
    BY <1>1, <1>8 DEF InstrumentInv, StartInv
  <1>11. EndInv'
    BY <1>1, <1>5, <1>8 DEF InstrumentInv, EndInv
  <1> QED
    BY <1>2, <1>3, <1>4, <1>6, <1>7, <1>9, <1>10, <1>11 DEF InstrumentInv


\* The invariant implies the properties.
LEMMA InstrumentSafe ==
    ASSUME InstrumentInv
    PROVE  AnnouncedBeforeCall /\ RecordedMatchesAnnounced /\ InitBeforeAnnounce /\ CleanupLast
  <1>2. AnnouncedBeforeCall
    <2> SUFFICES ASSUME Running
                 PROVE  /\ announced = <<>> =>
                              \A n \in Targets(Current) :
                                 isStringInMap(n) => Current.op = "indirect" \/ Frame[1] \in Skipped
                        /\ announced # <<>> =>
                              \/ Current.op = "cleanup"
                              \/ \E i \in DOMAIN listing : announced = <<i>> /\ Targets(Current) = {listing[i]}
      BY DEF AnnouncedBeforeCall
    <2>1. /\ phase = "run" /\ FrameOK(Frame)
          /\ announced = IF Pending(Frame) THEN <<stringMap[Code(Frame).arg]>> ELSE <<>>
          /\ Frame[4] <= Len(Before(Frame)) => /\ Current = Before(Frame)[Frame[4]]
                                               /\ Current.op \in {"dummycall", "init", "cleanup"}
          /\ ~(Frame[4] <= Len(Before(Frame))) => Current = Code(Frame)
      BY CurrentFacts
    <2>2. /\ Pending(Frame) => ListedCall(Frame[1], Code(Frame))
          /\ Pending(Frame) /\ Frame[4] <= Len(Before(Frame)) => Before(Frame)[Frame[4]].op = "cleanup"
          /\ ListedCall(Frame[1], Code(Frame)) /\ Frame[4] > Len(Before(Frame)) => Pending(Frame)
          /\ Frame[4] \in Nat /\ Len(Before(Frame)) \in Nat
      BY <2>1, PendingFacts, FrameFacts
    <2>3. CASE Frame[4] <= Len(Before(Frame))
      <3>1. Targets(Current) = {}
        BY <2>1, <2>3 DEF Targets
      <3>2. announced # <<>> => Current.op = "cleanup"
        BY <2>1, <2>2, <2>3
      <3> QED
        BY <3>1, <3>2
    <2>4. CASE ~(Frame[4] <= Len(Before(Frame)))
      <3>1. Frame[4] > Len(Before(Frame))
        BY <2>2, <2>4
      <3>2. Current = Code(Frame) /\ (Pending(Frame) <=> ListedCall(Frame[1], Current))
        BY <2>1, <2>2, <2>4, <3>1
      <3>3. CASE Pending(Frame)
        <4>1. Targets(Current) = {Current.arg} /\ Current.arg \in DOMAIN stringMap
          BY <3>2, <3>3 DEF ListedCall, isStringInMap, Targets
        <4>2. stringMap[Current.arg] \in DOMAIN listing /\ listing[stringMap[Current.arg]] = Current.arg
          BY <4>1 DEF InstrumentInv, ReaderInv
        <4>3. announced = <<stringMap[Current.arg]>> /\ announced # <<>>
          BY <2>1, <3>2, <3>3
        <4> QED
          BY <4>1, <4>2, <4>3
      <3>4. CASE ~ Pending(Frame)
        <4>1. announced = <<>> /\ ~ ListedCall(Frame[1], Current)
          BY <2>1, <3>2, <3>4
        <4>2. ASSUME NEW n \in Targets(Current), isStringInMap(n)
              PROVE  Current.op = "indirect" \/ Frame[1] \in Skipped
          BY <4>1, <4>2 DEF ListedCall, Targets
        <4> QED
          BY <4>1, <4>2
      <3> QED
        BY <3>3, <3>4
    <2> QED
      BY <2>3, <2>4
  <1>3. RecordedMatchesAnnounced
    <2> SUFFICES ASSUME NEW f \in DOMAIN code \ (Skipped \cup waiting), NEW b \in 1..Len(code[f]),
                        NEW k \in 1..Len(code[f][b].code)
                 PROVE  LET calls  == bbToLibcMap[f][b]
                            before == inserted[f][b][k]
                            libc   == {p \in DOMAIN calls : p[1] = k /\ calls[p].kind = "libc"}
                            dummys == {j \in 1..Len(before) : before[j].op = "dummycall"}
                        IN  \/ libc = {} /\ dummys = {}
                            \/ \E p \in libc, j \in dummys : /\ libc = {p} /\ dummys = {j}
                                                             /\ stringMap[calls[p].name] = before[j].arg
      BY DEF RecordedMatchesAnnounced
    <2> DEFINE I == code[f][b].code[k]
               calls == bbToLibcMap[f][b]
               before == inserted[f][b][k]
               libc == {p \in DOMAIN calls : p[1] = k /\ calls[p].kind = "libc"}
               dummys == {j \in 1..Len(before) : before[j].op = "dummycall"}
    <2>1. PlacedAt(f, I, before)
      BY PlacedHere
    <2>2. calls = CallsIn(code[f][b])
      BY DEF InstrumentInv, RecordInv
    <2>3. \A p : p \in libc <=> p = <<k, 1>> /\ I.op = "call" /\ isStringInMap(I.arg)
      <3>1. \A p : p \in DOMAIN calls <=> p \in {l \in 1..Len(code[f][b].code) : code[f][b].code[l].op = "call"} \X {1}
        BY <2>2 DEF CallsIn
      <3>2. \A p \in DOMAIN calls : calls[p].kind = Kind(code[f][b].code[p[1]].arg)
        BY <2>2 DEF CallsIn
      <3>3. \A p \in DOMAIN calls : p[1] = k => p = <<k, 1>>
        BY <3>1
      <3>4. <<k, 1>> \in DOMAIN calls <=> I.op = "call"
        BY <3>1
      <3>5. Kind(I.arg) = "libc" <=> isStringInMap(I.arg)
        BY DEF Kind
      <3>6. <<k, 1>>[1] = k
        OBVIOUS
      <3> HIDE DEF calls
      <3> QED
        BY <3>2, <3>3, <3>4, <3>5, <3>6
    <2>4. I.op = "call" /\ isStringInMap(I.arg) <=> ListedCall(f, I)
      BY DEF ListedCall
    <2> HIDE DEF I, libc, calls, before
    <2>5. CASE ListedCall(f, I)
      <3>1. PICK d \in 1..Len(before) : /\ before[d] = Announce(I)
                                        /\ \A i \in 1..Len(before) : i # d => before[i].op # "dummycall"
        BY <2>1, <2>5 DEF PlacedAt, Announcing
      <3>2. before[d].op = "dummycall" /\ before[d].arg = stringMap[I.arg]
        BY <3>1 DEF Announce
      <3>3. dummys = {d} /\ d \in dummys
        BY <3>1, <3>2
      <3>4. <<k, 1>> \in libc /\ libc = {<<k, 1>>}
        BY <2>3, <2>4, <2>5
      <3>5. calls[<<k, 1>>].name = I.arg
        <4>1. I.op = "call"
          BY <2>4, <2>5
        <4>2. <<k, 1>> \in {l \in 1..Len(code[f][b].code) : code[f][b].code[l].op = "call"} \X {1}
          BY <4>1 DEF I
        <4> QED
          BY <2>2, <4>2 DEF CallsIn, I
      <3> HIDE DEF dummys
      <3>6. \E p \in libc, j \in dummys : /\ libc = {p} /\ dummys = {j}
                                          /\ stringMap[calls[p].name] = before[j].arg
        BY <3>2, <3>3, <3>4, <3>5
      <3> QED
        BY <3>6 DEF libc, dummys, calls, before
    <2>6. CASE ~ ListedCall(f, I)
      <3>1. dummys = {}
        BY <2>1, <2>6 DEF PlacedAt, NoneIn
      <3>2. libc = {}
        BY <2>3, <2>4, <2>6
      <3> QED
        BY <3>1, <3>2 DEF libc, calls, before
    <2> QED
      BY <2>5, <2>6
  <1>4. InitBeforeAnnounce
    BY DEF InstrumentInv, StartInv, InitBeforeAnnounce
  <1>5. CleanupLast
    <2>1. ASSUME UsualMain, cleaned, Running PROVE Current.op # "dummycall"
      <3>1. /\ phase = "run" /\ FrameOK(Frame)
            /\ ~(Frame[4] <= Len(Before(Frame))) => Current.op \in {"call", "indirect", "other", "ret"}
        BY <2>1, CurrentFacts
      <3>2. Frame[1] = "main" /\ Past(Frame)
        BY <2>1, EndFacts
      <3>3. ~(Frame[4] <= Len(Before(Frame)))
        BY <2>1, <3>1, <3>2, PastFacts
      <3> QED
        BY <3>1, <3>3
    <2>2. UsualMain /\ phase = "run" /\ stack = <<>> => cleaned
      BY DEF InstrumentInv, EndInv
    <2> QED
      BY <2>1, <2>2 DEF CleanupLast
  <1> QED
    BY <1>2, <1>3, <1>4, <1>5

\* The invariant behind the properties of the tool chain: what each pass has
\* placed where, and what the running program has announced and still to call.
THEOREM InstrumentInductive == Spec => []InstrumentInv
  <1>1. Init => InstrumentInv
    BY InitStarts
  <1>2. InstrumentInv /\ [Next]_vars => InstrumentInv'
    <2> SUFFICES ASSUME InstrumentInv, [Next]_vars PROVE InstrumentInv'
      OBVIOUS
    <2>1. CASE extractFunctionNames
      BY <2>1, ExtractStep
    <2>2. CASE readFileToMap
      BY <2>2, ReadStep
    <2>3. CASE runOnModule
      BY <2>3, VisitStep
    <2>4. CASE SectionAddressHandler
      BY <2>4, SectionStep
    <2>5. CASE MemoryCleanupHandler
      BY <2>5, CleanupStep
    <2>6. CASE enter
      BY <2>6, EnterStep
    <2>7. CASE external_call
      BY <2>7, ExternalCallStep
    <2>8. CASE system_call
      BY <2>8, SystemCallStep
    <2>9. CASE local
      BY <2>9, LocalStep
    <2>10. CASE UNCHANGED vars
      BY <2>10, InstrumentStutter
    <2> QED
      BY <2>1, <2>2, <2>3, <2>4, <2>5, <2>6, <2>7, <2>8, <2>9, <2>10 DEF Next
  <1> QED
    BY <1>1, <1>2, PTL DEF Spec

\* In every instrumented program, whichever part of whichever listing was read,
\* what is announced is an index of the listing and the function listed there is
\* called next; a listed function is called unannounced only through a pointer or
\* by a function the pass skips: readFileToMap, injectDummySyscall and the two
\* handlers of main together.
THEOREM AnnounceCorrect == Spec => []AnnouncedBeforeCall
  <1>1. InstrumentInv => AnnouncedBeforeCall
    BY InstrumentSafe
  <1> QED
    BY <1>1, InstrumentInductive, PTL

\* The calls runOnModule records for the graph are the ones it announces.
THEOREM RecordCorrect == Spec => []RecordedMatchesAnnounced
  <1>1. InstrumentInv => RecordedMatchesAnnounced
    BY InstrumentSafe
  <1> QED
    BY <1>1, InstrumentInductive, PTL

\* SectionAddressHandler puts sandbox_init ahead of every announcement.
THEOREM InitCorrect == Spec => []InitBeforeAnnounce
  <1>1. InstrumentInv => InitBeforeAnnounce
    BY InstrumentSafe
  <1> QED
    BY <1>1, InstrumentInductive, PTL

\* In a program with a usual main MemoryCleanupHandler places sandbox_cleanup
\* where every return passes it and no announcement follows it.
THEOREM CleanupCorrect == Spec => []CleanupLast
  <1>1. InstrumentInv => CleanupLast
    BY InstrumentSafe
  <1> QED
    BY <1>1, InstrumentInductive, PTL

=============================================================================
