------------------------- MODULE SettingsStoreProofs -------------------------
(***************************************************************************)
(* The settings and their file, for any cards, any SettingsQRs and any     *)
(* number of changes, card moves and power cuts.                           *)
(*                                                                         *)
(* Four invariants, each above the one before:                             *)
(*   Sound      the types, and which thread is where when it has work left *)
(*   Keeps      the file of the card holds the settings, or something      *)
(*              waits that will write it or turn persistence off           *)
(*   Means      the calls a SettingsQR left to make lead to what it means  *)
(*   Remembers  a card that is not being started from has the file that is *)
(*              remembered of it, and a start leads to what is remembered  *)
(*                                                                         *)
(* Settings.update makes one call of set_value for each setting, in the    *)
(* order of a dict; that there is an i-th one for every i is proved from   *)
(* the cardinalities of the sets of those that come before.                *)
(***************************************************************************)
EXTENDS SettingsStore, FiniteSetTheorems, SequenceTheorems, WellFoundedInduction, TLAPS

-----------------------------------------------------------------------------
(* The least and the greatest of some numbers. *)

LEMMA LeastNumber ==
  ASSUME NEW U \in SUBSET Nat, U # {}
  PROVE  \E m \in U : \A k \in U : m <= k
<1> DEFINE T == {0 .. n : n \in U}
<1>1. T \subseteq FiniteSubsetsOf(Nat) /\ T # {}
  <2>1. \A n \in U : 0 .. n \in SUBSET Nat /\ IsFiniteSet(0 .. n)
    BY FS_Interval
  <2> QED BY <2>1 DEF FiniteSubsetsOf
<1>2. IsWellFoundedOn(StrictSubsetOrdering(Nat), FiniteSubsetsOf(Nat))
  BY FS_StrictSubsetOrderingWellFounded
<1>3. PICK x \in T : \A y \in T : ~ (<<y, x>> \in StrictSubsetOrdering(Nat))
  <2> HIDE DEF T
  <2> QED BY <1>1, <1>2, WFMin
<1>4. PICK m \in U : x = 0 .. m
  OBVIOUS
<1>5. \A k \in U : m <= k
  <2> SUFFICES ASSUME NEW k \in U, k < m PROVE FALSE
    OBVIOUS
  <2>1. 0 .. k \in T /\ 0 .. k \subseteq 0 .. m /\ m \in 0 .. m /\ m \notin 0 .. k
    OBVIOUS
  <2>2. <<0 .. k, x>> \in StrictSubsetOrdering(Nat)
    BY <1>1, <1>4, <2>1 DEF StrictSubsetOrdering, FiniteSubsetsOf
  <2> QED BY <1>3, <2>1, <2>2
<1> QED BY <1>5

LEMMA GreatestNumber ==
  ASSUME NEW n \in Nat, NEW U \in SUBSET (0 .. n), U # {}
  PROVE  \E m \in U : \A k \in U : k <= m
<1> DEFINE V == {n - k : k \in U}
<1>1. V \in SUBSET Nat /\ V # {}
  <2>1. \A k \in U : n - k \in Nat
    OBVIOUS
  <2> QED BY <2>1
<1>2. PICK v \in V : \A w \in V : v <= w
  <2> HIDE DEF V
  <2> QED BY <1>1, LeastNumber
<1>3. PICK m \in U : v = n - m
  OBVIOUS
<1>4. \A k \in U : n - m <= n - k
  BY <1>2, <1>3
<1>5. \A k \in U : k <= m
  BY <1>4
<1> QED BY <1>5

-----------------------------------------------------------------------------
(* The settings there are. *)

\* The definition has four entries, each for another setting.
LEMMA TheSettings ==
  /\ Attrs = {P, "sig_types", Timer, "qr_brightness"}
  /\ Len(Entries) = 4 /\ DOMAIN Entries = 1 .. 4
  /\ IsFiniteSet(Attrs) /\ Cardinality(Attrs) = 4
  /\ P \in Attrs
<1>1. Len(Entries) = 4 /\ DOMAIN Entries = 1 .. 4
  BY DEF Entries
<1>2. Attrs = {P, "sig_types", Timer, "qr_brightness"}
  <2>1. \A i \in 1 .. 4 : i = 1 \/ i = 2 \/ i = 3 \/ i = 4
    OBVIOUS
  <2> QED BY <1>1, <2>1 DEF Attrs, Range, Entries, P, Timer
<1>3. IsFiniteSet({P}) /\ Cardinality({P}) = 1
  BY FS_Singleton
<1>4. IsFiniteSet({P, "sig_types"}) /\ Cardinality({P, "sig_types"}) = 2
  BY <1>3, FS_AddElement, {P} \union {"sig_types"} = {P, "sig_types"} DEF P
<1>5. IsFiniteSet({P, "sig_types", Timer}) /\ Cardinality({P, "sig_types", Timer}) = 3
  BY <1>4, FS_AddElement, {P, "sig_types"} \union {Timer} = {P, "sig_types", Timer} DEF P, Timer
<1>6. /\ IsFiniteSet({P, "sig_types", Timer, "qr_brightness"})
      /\ Cardinality({P, "sig_types", Timer, "qr_brightness"}) = 4
  BY <1>5, FS_AddElement,
     {P, "sig_types", Timer} \union {"qr_brightness"} = {P, "sig_types", Timer, "qr_brightness"}
     DEF P, Timer
<1> QED BY <1>1, <1>2, <1>6

\* The defaults are settings, and settings do not persist by default.
LEMMA Defaults ==
  /\ \A a \in Attrs : Default(a) \in Values(a)
  /\ get_defaults \in Settings
  /\ get_defaults[P] = Disabled /\ Enabled # Disabled
  /\ Enabled \in Values(P) /\ Disabled \in Values(P)
<1>1. \A a \in Attrs : Default(a) \in Values(a)
  BY TheSettings DEF Default, Values, Options, P, Timer, Enabled, Disabled
<1>2. get_defaults \in Settings
  BY <1>1 DEF get_defaults, Settings
<1>3. get_defaults[P] = Disabled /\ Enabled # Disabled
  <2>1. P \in Attrs
    BY TheSettings
  <2>2. Default(P) = Disabled
    BY DEF Default, P, Timer
  <2> QED BY <2>1, <2>2 DEF get_defaults, Enabled, Disabled
<1>4. Enabled \in Values(P) /\ Disabled \in Values(P)
  BY DEF Values, Enabled, Disabled
<1> QED BY <1>1, <1>2, <1>3, <1>4

\* A setting put in place of another of its kind.
LEMMA SettingsExcept ==
  ASSUME NEW d \in Settings, NEW a \in Attrs, NEW v \in Values(a)
  PROVE  [d EXCEPT ![a] = v] \in Settings
  BY DEF Settings

\* A dict that need not be whole.
IsGiven(given) == DOMAIN given \subseteq Attrs /\ \A a \in DOMAIN given : given[a] \in Values(a)

\* Whatever is given, the outcome is a value for every setting.
LEMMA CompleteTyped ==
  ASSUME NEW given, IsGiven(given), NEW d \in Settings
  PROVE  Complete(given, d) \in Settings
<1>1. \A a \in Attrs : Complete(given, d)[a] \in Values(a)
  BY Defaults DEF Complete, IsGiven, Settings
<1> QED BY <1>1 DEF Complete, Settings

\* Places that tell the settings apart.
IsPlace(place) == place \in [Attrs -> Nat] /\ \A a, b \in Attrs : place[a] = place[b] => a = b

Before(place, b) == {c \in Attrs : place[c] < place[b]}

\* The i-th call is that of the setting with i - 1 others before it: there is one.
LEMMA Ranks ==
  ASSUME NEW place, IsPlace(place)
  PROVE  /\ \A i \in 1 .. 4 : \E b \in Attrs : Cardinality(Before(place, b)) = i - 1
         /\ \A b \in Attrs : Cardinality(Before(place, b)) + 1 \in 1 .. 4
         /\ \A b, c \in Attrs : Cardinality(Before(place, b)) = Cardinality(Before(place, c)) => b = c
<1>1. \A b \in Attrs : IsFiniteSet(Before(place, b)) /\ Cardinality(Before(place, b)) \in Nat
  <2>1. \A b \in Attrs : Before(place, b) \in SUBSET Attrs
    BY DEF Before
  <2> QED BY <2>1, TheSettings, FS_Subset, FS_CardinalityType
<1>2. \A b, c \in Attrs : place[b] < place[c] => Cardinality(Before(place, b)) < Cardinality(Before(place, c))
  <2> SUFFICES ASSUME NEW b \in Attrs, NEW c \in Attrs, place[b] < place[c]
               PROVE  Cardinality(Before(place, b)) < Cardinality(Before(place, c))
    OBVIOUS
  <2>1. Before(place, b) \in SUBSET Before(place, c) /\ b \in Before(place, c) /\ b \notin Before(place, b)
    BY DEF Before, IsPlace
  <2>2. Before(place, b) # Before(place, c)
    BY <2>1
  <2>3. /\ Cardinality(Before(place, b)) <= Cardinality(Before(place, c))
        /\ Cardinality(Before(place, b)) # Cardinality(Before(place, c))
    BY <1>1, <2>1, <2>2, FS_Subset
  <2> QED BY <1>1, <2>3
<1>3. \A b, c \in Attrs : Cardinality(Before(place, b)) = Cardinality(Before(place, c)) => b = c
  <2> SUFFICES ASSUME NEW b \in Attrs, NEW c \in Attrs, b # c
               PROVE  Cardinality(Before(place, b)) # Cardinality(Before(place, c))
    OBVIOUS
  <2>1. place[b] \in Nat /\ place[c] \in Nat /\ place[b] # place[c]
    BY DEF IsPlace
  <2>2. place[b] < place[c] \/ place[c] < place[b]
    BY <2>1
  <2> QED BY <1>1, <1>2, <2>2
<1>4. \A b \in Attrs : Cardinality(Before(place, b)) < 4
  <2> SUFFICES ASSUME NEW b \in Attrs PROVE Cardinality(Before(place, b)) < 4
    OBVIOUS
  <2>1. Before(place, b) \in SUBSET Attrs /\ Before(place, b) # Attrs
    BY DEF Before, IsPlace
  <2>2. /\ Cardinality(Before(place, b)) <= Cardinality(Attrs)
        /\ Cardinality(Before(place, b)) # Cardinality(Attrs)
    BY <2>1, TheSettings, FS_Subset
  <2> QED BY <1>1, <2>2, TheSettings
<1> DEFINE rank == [b \in Attrs |-> Cardinality(Before(place, b))]
<1>5. rank \in Injection(Attrs, 0 .. 3)
  BY <1>1, <1>3, <1>4 DEF Injection, IsInjective
<1>6. IsFiniteSet(0 .. 3) /\ Cardinality(0 .. 3) = 4
  <2>1. IsFiniteSet(0 .. 3) /\ Cardinality(0 .. 3) = IF 0 > 3 THEN 0 ELSE 3 - 0 + 1
    BY FS_Interval, 0 \in Int, 3 \in Int
  <2> QED BY <2>1
<1>7. rank \in Surjection(Attrs, 0 .. 3)
  <2> HIDE DEF rank
  <2> QED BY <1>5, <1>6, TheSettings, FS_Injection
<1>8. \A i \in 1 .. 4 : \E b \in Attrs : rank[b] = i - 1
  <2> HIDE DEF rank
  <2>1. \A n \in 0 .. 3 : \E b \in Attrs : rank[b] = n
    BY <1>7 DEF Surjection
  <2>2. \A i \in 1 .. 4 : i - 1 \in 0 .. 3
    OBVIOUS
  <2> QED BY <2>1, <2>2
<1> QED BY <1>1, <1>3, <1>4, <1>8

\* Every setting is called once, with what it is to be.
LEMMA Updates ==
  ASSUME NEW place, IsPlace(place), NEW given, IsGiven(given), NEW d \in Settings
  PROVE  LET calls == UpdateCalls(place, given, d) IN
         /\ calls \in Seq(Calls) /\ Len(calls) = 4
         /\ \A i \in 1 .. 4 : calls[i][1] \in Attrs /\ calls[i] = <<calls[i][1], Complete(given, d)[calls[i][1]]>>
         /\ \A a \in Attrs : \E i \in 1 .. 4 : calls[i][1] = a
         /\ \A i, j \in 1 .. 4 : calls[i][1] = calls[j][1] => i = j
<1> DEFINE At(i) == CHOOSE b \in Attrs : Cardinality({c \in Attrs : place[c] < place[b]}) = i - 1
           calls == UpdateCalls(place, given, d)
<1>1. \A i \in 1 .. 4 : At(i) \in Attrs /\ Cardinality(Before(place, At(i))) = i - 1
  BY Ranks DEF Before
<1>2. \A a \in Attrs : At(Cardinality(Before(place, a)) + 1) = a /\ Cardinality(Before(place, a)) + 1 \in 1 .. 4
  <2> SUFFICES ASSUME NEW a \in Attrs
               PROVE  At(Cardinality(Before(place, a)) + 1) = a /\ Cardinality(Before(place, a)) + 1 \in 1 .. 4
    OBVIOUS
  <2> DEFINE i == Cardinality(Before(place, a)) + 1
  <2>1. i \in 1 .. 4
    BY Ranks
  <2>2. Cardinality(Before(place, At(i))) = i - 1 /\ At(i) \in Attrs
    BY <1>1, <2>1
  <2>3. Cardinality(Before(place, At(i))) = Cardinality(Before(place, a))
    <3>1. \A n \in Int : (n + 1) - 1 = n
      OBVIOUS
    <3>2. Before(place, a) \in SUBSET Attrs
      BY DEF Before
    <3>3. Cardinality(Before(place, a)) \in Int
      BY <3>2, TheSettings, FS_Subset, FS_CardinalityType
    <3> QED BY <2>2, <3>1, <3>3
  <2> HIDE DEF i, At
  <2>4. At(i) = a
    BY <2>2, <2>3, Ranks
  <2> QED BY <2>1, <2>4 DEF i
<1>3. calls = [i \in 1 .. 4 |-> <<At(i), Complete(given, d)[At(i)]>>]
  BY TheSettings DEF UpdateCalls
<1> HIDE DEF At, calls
<1>4. \A i \in 1 .. 4 : calls[i][1] = At(i) /\ calls[i] = <<At(i), Complete(given, d)[At(i)]>>
  BY <1>3
<1>5. \A i \in 1 .. 4 : calls[i] \in Calls
  <2> SUFFICES ASSUME NEW i \in 1 .. 4 PROVE calls[i] \in Calls
    OBVIOUS
  <2>1. Complete(given, d)[At(i)] \in Values(At(i))
    BY <1>1, CompleteTyped DEF Settings
  <2> QED BY <1>1, <1>4, <2>1 DEF Calls
<1>6. calls \in Seq(Calls) /\ Len(calls) = 4
  BY <1>3, <1>5
<1>7. \A i, j \in 1 .. 4 : calls[i][1] = calls[j][1] => i = j
  BY <1>1, <1>4
<1>8. \A a \in Attrs : \E i \in 1 .. 4 : calls[i][1] = a
  BY <1>2, <1>4
<1> QED BY <1>1, <1>4, <1>6, <1>7, <1>8 DEF calls

-----------------------------------------------------------------------------
(* The places of the keys, in the file and in a SettingsQR. *)

\* Each setting has its own place among the entries.
LEMMA EntryPlaces ==
  IsPlace(EntryPlace) /\ \A a \in Attrs : EntryPlace[a] \in 1 .. 4
<1>1. \A a \in Attrs : \E i \in DOMAIN Entries : Entries[i] = a
  BY DEF Attrs, Range
<1>2. \A a \in Attrs : EntryPlace[a] \in DOMAIN Entries /\ Entries[EntryPlace[a]] = a
  BY <1>1 DEF EntryPlace
<1>3. EntryPlace \in [Attrs -> Nat]
  <2>1. EntryPlace = [a \in Attrs |-> EntryPlace[a]]
    BY DEF EntryPlace
  <2>2. \A a \in Attrs : EntryPlace[a] \in Nat
    BY <1>2, TheSettings
  <2> QED BY <2>1, <2>2
<1> QED BY <1>2, <1>3, TheSettings DEF IsPlace

\* Where the setting is given there is a first and a latest entry for it.
LEMMA FirstAndLatest ==
  ASSUME NEW qr, qr \in Seq(Range(qr)), NEW a, \E i \in DOMAIN qr : qr[i].attr = a
  PROVE  /\ First(qr, a) \in DOMAIN qr /\ qr[First(qr, a)].attr = a
         /\ Latest(qr, a) \in DOMAIN qr /\ qr[Latest(qr, a)].attr = a
         /\ \A j \in DOMAIN qr : qr[j].attr = a => j <= Latest(qr, a)
<1> DEFINE U == {i \in DOMAIN qr : qr[i].attr = a}
<1>1. Len(qr) \in Nat /\ DOMAIN qr = 1 .. Len(qr) /\ U # {}
  OBVIOUS
<1>2. U \in SUBSET Nat /\ U \in SUBSET (0 .. Len(qr))
  BY <1>1
<1>3. \E m \in U : \A k \in U : m <= k
  <2> HIDE DEF U
  <2> QED BY <1>1, <1>2, LeastNumber
<1>4. \E m \in U : \A k \in U : k <= m
  <2> HIDE DEF U
  <2> QED BY <1>1, <1>2, GreatestNumber
<1>5. First(qr, a) \in DOMAIN qr /\ qr[First(qr, a)].attr = a
  BY <1>3 DEF First
<1>6. /\ Latest(qr, a) \in DOMAIN qr /\ qr[Latest(qr, a)].attr = a
      /\ \A j \in DOMAIN qr : qr[j].attr = a => j <= Latest(qr, a)
  BY <1>4 DEF Latest
<1> QED BY <1>5, <1>6

\* Each setting has its own place in the dict made of a SettingsQR.
LEMMA QrPlaces ==
  ASSUME NEW qr, qr \in Seq(Range(qr)) PROVE IsPlace(QrPlace(qr))
<1>1. Len(qr) \in Nat /\ DOMAIN qr = 1 .. Len(qr)
  OBVIOUS
<1>2. \A a \in Given(qr) : First(qr, a) \in 1 .. Len(qr) /\ qr[First(qr, a)].attr = a
  BY <1>1, FirstAndLatest DEF Given
<1>3. \A a \in Attrs : EntryPlace[a] \in 1 .. 4
  BY EntryPlaces
<1>4. \A a \in Attrs \ Given(qr) : QrPlace(qr)[a] = Len(qr) + EntryPlace[a]
  BY DEF QrPlace
<1>5. \A a \in Attrs \intersect Given(qr) : QrPlace(qr)[a] = First(qr, a)
  BY DEF QrPlace
<1>6. QrPlace(qr) \in [Attrs -> Nat]
  BY <1>1, <1>2, <1>3 DEF QrPlace
<1>7. \A a, b \in Attrs : QrPlace(qr)[a] = QrPlace(qr)[b] => a = b
  <2> SUFFICES ASSUME NEW a \in Attrs, NEW b \in Attrs, QrPlace(qr)[a] = QrPlace(qr)[b] PROVE a = b
    OBVIOUS
  <2>1. CASE a \in Given(qr) /\ b \in Given(qr)
    BY <1>2, <1>5, <2>1
  <2>2. CASE a \notin Given(qr) /\ b \notin Given(qr)
    <3>1. EntryPlace[a] = EntryPlace[b]
      BY <1>1, <1>3, <1>4, <2>2
    <3> QED BY <3>1, EntryPlaces DEF IsPlace
  <2>3. CASE a \in Given(qr) /\ b \notin Given(qr)
    BY <1>1, <1>2, <1>3, <1>4, <1>5, <2>3
  <2>4. CASE a \notin Given(qr) /\ b \in Given(qr)
    BY <1>1, <1>2, <1>3, <1>4, <1>5, <2>4
  <2> QED BY <2>1, <2>2, <2>3, <2>4
<1> QED BY <1>6, <1>7 DEF IsPlace

\* What a SettingsQR gives, if it is not refused; and where persistence cannot be
\* enabled it is not.
LEMMA QrGiven ==
  ASSUME NEW qr, qr \in Seq(Range(qr)), NEW opts \in {BothOptions, OnlyDisabled}, NEW d \in Settings,
         \A i \in DOMAIN qr : ~EntryRaises(qr[i], opts)
  PROVE  /\ IsGiven(Parsed(qr, opts))
         /\ opts = OnlyDisabled => Complete(Parsed(qr, opts), d)[P] = Disabled
<1>1. Range(OnlyDisabled) = {"D"} /\ Range(BothOptions) = {"E", "D"}
  <2>1. DOMAIN OnlyDisabled = {1} /\ DOMAIN BothOptions = {1, 2}
    BY DEF OnlyDisabled, BothOptions
  <2> QED BY <2>1 DEF Range, OnlyDisabled, BothOptions
<1>2. \A a \in Given(qr) : Latest(qr, a) \in DOMAIN qr /\ qr[Latest(qr, a)].attr = a
  BY FirstAndLatest DEF Given
<1>3. ASSUME NEW a \in Given(qr) PROVE Parsed(qr, opts)[a] \in Values(a)
  <2>1. CASE CannotEnable(qr[Latest(qr, a)], opts)
    <3>1. a = P
      BY <1>2, <2>1 DEF CannotEnable
    <3> QED BY <2>1, <3>1, Defaults DEF Parsed
  <2>2. CASE ~CannotEnable(qr[Latest(qr, a)], opts)
    <3> DEFINE e == qr[Latest(qr, a)]
    <3>1. e.attr = a /\ a \in Attrs /\ ~EntryRaises(e, opts)
      BY <1>2 DEF Given
    <3>2. e.value \subseteq IF a = P THEN Range(opts) ELSE Options(a)
      BY <2>2, <3>1 DEF EntryRaises
    <3>3. e.value \in Values(a)
      BY <1>1, <3>2 DEF Values
    <3> QED BY <2>2, <3>3 DEF Parsed
  <2> QED BY <2>1, <2>2
<1>4. IsGiven(Parsed(qr, opts))
  <2>1. DOMAIN Parsed(qr, opts) = Given(qr) /\ Given(qr) \subseteq Attrs
    BY DEF Parsed, Given
  <2> QED BY <1>3, <2>1 DEF IsGiven
<1>5. ASSUME opts = OnlyDisabled PROVE Complete(Parsed(qr, opts), d)[P] = Disabled
  <2>1. ~IsMultiselect(P) /\ ~IsHidden(P) /\ Default(P) = Disabled /\ P \in Attrs
    BY TheSettings DEF IsMultiselect, IsHidden, Default, P, Timer
  <2>2. CASE P \in Given(qr)
    <3> DEFINE e == qr[Latest(qr, P)]
    <3>1. e.attr = P /\ ~EntryRaises(e, opts)
      BY <1>2, <2>2
    <3>2. CannotEnable(e, opts) \/ e.value = Disabled
      BY <1>1, <1>5, <2>1, <3>1 DEF EntryRaises, Disabled
    <3>3. Parsed(qr, opts)[P] = Disabled /\ P \in DOMAIN Parsed(qr, opts)
      BY <2>2, <3>2 DEF Parsed
    <3> QED BY <2>1, <3>3 DEF Complete
  <2>3. CASE P \notin Given(qr)
    <3>1. P \notin DOMAIN Parsed(qr, opts)
      BY <2>3 DEF Parsed
    <3> QED BY <2>1, <3>1 DEF Complete
  <2> QED BY <2>2, <2>3
<1> QED BY <1>4, <1>5

-----------------------------------------------------------------------------
(* Types. *)

\* The main thread is somewhere in a set_value only when it has one to make, and
\* the MicroSD thread is in save only when it says so.
Busy ==
  /\ saver["main"] # "idle" => todo # << >>
  /\ saver["main"] = "assign" => Head(todo) = <<P, Disabled>>
  /\ saver["sd"] # "assign" /\ (saver["sd"] # "idle" <=> sd = "saving")
  /\ power \notin {"on", "booting"} => todo = << >>
  /\ power = "booting" => todo # << >>
  /\ power = "on" <=> sd # "off"

\* A call is a setting and a value it may have.
LEMMA CallTypes ==
  ASSUME NEW call \in Calls
  PROVE  call[1] \in Attrs /\ call[2] \in Values(call[1]) /\ call = <<call[1], call[2]>>
  BY DEF Calls

\* What is left to do is a part of what there was.
LEMMA TailTypes ==
  ASSUME TypeOK, todo # << >>
  PROVE  /\ Tail(todo) \in Seq(Calls) /\ Head(todo) \in Calls
         /\ Len(todo) > 1 <=> Tail(todo) # << >>
         /\ \A x \in Range(Tail(todo)) : x \in Range(todo)
<1>1. todo \in Seq(Calls)
  BY DEF TypeOK
<1>2. /\ Tail(todo) \in Seq(Calls) /\ Head(todo) \in Calls /\ Len(Tail(todo)) = Len(todo) - 1
      /\ \A i \in 1 .. Len(todo) - 1 : Tail(todo)[i] = todo[i + 1]
  BY <1>1, HeadTailProperties
<1>3. Len(todo) > 1 <=> Tail(todo) # << >>
  <2>1. \A seq \in Seq(Calls) : seq # << >> => Len(seq) \in Nat \ {0}
    BY EmptySeq
  <2>2. Tail(todo) = << >> => Len(Tail(todo)) = 0
    <3>1. Len(<< >>) = 0
      OBVIOUS
    <3> QED BY <3>1
  <2>3. Len(todo) \in Nat \ {0} /\ (Tail(todo) # << >> => Len(Tail(todo)) \in Nat \ {0})
    BY <1>1, <1>2, <2>1
  <2> QED BY <1>2, <2>2, <2>3
<1>4. \A x \in Range(Tail(todo)) : x \in Range(todo)
  BY <1>1, <1>2 DEF Range
<1> QED BY <1>2, <1>3, <1>4

\* The View that comes next shows a setting the user may choose.
LEMMA AfterSetTypes ==
  ASSUME TypeOK
  PROVE  /\ AfterSet.name \in {"menu", "entry", "required", "blocked"}
         /\ AfterSet.name \in {"entry", "required"} => AfterSet.attr \in Attrs /\ ~IsHidden(AfterSet.attr)
         /\ AfterSet.name = "entry" => AfterSet.initial \in Values(AfterSet.attr)
  BY DEF AfterSet, TypeOK, ViewOK, EntryView, Menu, Blocked, Settings

Sound == TypeOK /\ Busy

\* When a set_value returns the next is due, or the boot or the View is over.
LEMMA ReturnsSound ==
  ASSUME Sound, saver["main"] \in {"check", "write"}, Returns,
         UNCHANGED <<data, persistOptions, inserted, fifo, fifoMade, unheard, crossed>>,
         file' \in [Cards -> Settings \union {NoFile, Torn}], handle' \in [Threads -> Cards \union {NoCard}]
  PROVE  Sound'
<1>1. todo # << >> /\ todo' = Tail(todo) /\ saver' = [saver EXCEPT !["main"] = "idle"]
  BY DEF Sound, Busy, Returns
<1>2. /\ todo' \in Seq(Calls) /\ (Len(todo) > 1 <=> todo' # << >>)
  BY <1>1, TailTypes DEF Sound
<1>3. power' \in {"on", power} /\ sd' \in {"start", sd} /\ view' \in {view, AfterSet}
  BY DEF Returns
<1>4. ViewOK'
  BY <1>3, AfterSetTypes DEF Sound, TypeOK, ViewOK
<1>5. TypeOK'
  BY <1>1, <1>2, <1>3, <1>4 DEF Sound, TypeOK, Threads
<1>6. Busy'
  BY <1>1, <1>2 DEF Sound, TypeOK, Busy, Threads, Returns
<1> QED BY <1>5, <1>6 DEF Sound

\* A save that raises ends what its thread was doing.
LEMMA RaisesSound ==
  ASSUME Sound, NEW t \in Threads, saver[t] # "idle", Raises(t),
         UNCHANGED <<data, persistOptions, inserted, file, fifo, fifoMade, unheard, crossed>>
  PROVE  Sound'
<1>1. CASE t = "sd"
  BY <1>1 DEF Sound, TypeOK, Busy, Threads, Raises, ViewOK
<1>2. CASE t = "main"
  <2>1. << >> \in Seq(Calls)
    OBVIOUS
  <2> QED BY <1>2, <2>1 DEF Sound, TypeOK, Busy, Threads, Raises, ViewOK, Menu
<1> QED BY <1>1, <1>2 DEF Threads

\* What is dropped when the FIFO is closed was an event that is not heard then.
LEMMA Drops ==
  ASSUME TypeOK, Handled
  PROVE  /\ sd' = IF fifoMade THEN "waiting" ELSE "fifo"
         /\ fifo' \in Seq({"add", "remove"}) /\ unheard' \in BOOLEAN
         /\ ~unheard' => UNCHANGED <<fifo, unheard>>
<1>1. fifo \in Seq({"add", "remove"}) /\ unheard \in BOOLEAN
  BY DEF TypeOK
<1>2. ASSUME NEW n \in 1 .. Len(fifo) PROVE SubSeq(fifo, n + 1, Len(fifo)) \in Seq({"add", "remove"})
  <2>1. \A i \in (n + 1) .. Len(fifo) : fifo[i] \in {"add", "remove"}
    BY <1>1
  <2> QED BY <1>1, <2>1, SubSeqProperties
<1> QED BY <1>1, <1>2 DEF Handled

\* Each step of save, of either thread.
LEMMA SaveSound ==
  ASSUME Sound, NEW t \in Threads, SaveCheck(t) \/ SaveOpen(t) \/ SaveWrite(t)
  PROVE  Sound'
<1> USE DEF Threads
<1>1. data \in Settings /\ file \in [Cards -> Settings \union {NoFile, Torn}]
      /\ handle \in [Threads -> Cards \union {NoCard}] /\ inserted \in Cards \union {NoCard}
  BY DEF Sound, TypeOK
<1>2. CASE SaveCheck(t)
  <2>1. CASE data[P] = Enabled /\ inserted # NoCard
    BY <1>2, <2>1 DEF SaveCheck, Sound, TypeOK, Busy, ViewOK
  <2>2. CASE ~(data[P] = Enabled /\ inserted # NoCard) /\ t = "main"
    <3>1. Returns /\ saver["main"] = "check"
          /\ UNCHANGED <<data, persistOptions, inserted, file, handle, fifo, fifoMade, unheard,
                         crossed>>
      BY <1>2, <2>2 DEF SaveCheck
    <3> QED BY <1>1, <3>1, ReturnsSound
  <2>3. CASE ~(data[P] = Enabled /\ inserted # NoCard) /\ t # "main"
    <3>1. /\ Handled /\ saver[t] = "check" /\ saver' = [saver EXCEPT ![t] = "idle"]
          /\ UNCHANGED <<power, data, persistOptions, inserted, file, todo, handle, view, job,
                         fifoMade, crossed>>
      BY <1>2, <2>3 DEF SaveCheck
    <3> QED BY <2>3, <3>1, Drops DEF Sound, TypeOK, Busy, ViewOK
  <2> QED BY <2>1, <2>2, <2>3
<1>3. CASE SaveOpen(t)
  <2>1. CASE inserted = NoCard
    <3>1. /\ saver[t] # "idle" /\ Raises(t)
          /\ UNCHANGED <<data, persistOptions, inserted, file, fifo, fifoMade, unheard,
                         crossed>>
      BY <1>3, <2>1 DEF SaveOpen
    <3> QED BY <3>1, RaisesSound
  <2>2. CASE inserted # NoCard
    BY <1>1, <1>3, <2>2 DEF SaveOpen, Sound, TypeOK, Busy, ViewOK
  <2> QED BY <2>1, <2>2
<1>4. CASE SaveWrite(t)
  <2>1. CASE handle[t] = NoCard
    <3>1. /\ saver[t] # "idle" /\ Raises(t)
          /\ UNCHANGED <<data, persistOptions, inserted, file, fifo, fifoMade, unheard,
                         crossed>>
      BY <1>4, <2>1 DEF SaveWrite
    <3> QED BY <3>1, RaisesSound
  <2>2. CASE handle[t] # NoCard
    <3>1. PICK content \in {data} \union IF crossed THEN {Torn} ELSE {} :
                file' = [file EXCEPT ![handle[t]] = content]
      BY <1>4, <2>2 DEF SaveWrite
    <3>2. /\ file' \in [Cards -> Settings \union {NoFile, Torn}]
          /\ handle' = [handle EXCEPT ![t] = NoCard]
          /\ handle' \in [Threads -> Cards \union {NoCard}]
          /\ saver[t] = "write"
          /\ UNCHANGED <<data, persistOptions, inserted, fifoMade, crossed>>
      BY <1>1, <1>4, <2>2, <3>1 DEF SaveWrite
    <3>3. CASE t = "main"
      <4>1. Returns /\ UNCHANGED <<fifo, unheard>>
        BY <1>4, <2>2, <3>3 DEF SaveWrite
      <4> QED BY <3>2, <3>3, <4>1, ReturnsSound
    <3>4. CASE t # "main"
      <4>1. /\ Handled /\ saver' = [saver EXCEPT ![t] = "idle"]
            /\ UNCHANGED <<power, todo, view, job>>
        BY <1>4, <2>2, <3>4 DEF SaveWrite
      <4> QED BY <3>2, <3>4, <4>1, Drops DEF Sound, TypeOK, Busy, ViewOK
    <3> QED BY <3>3, <3>4
  <2> QED BY <2>1, <2>2
<1> QED BY <1>2, <1>3, <1>4

\* The main thread assigns what its first call says.
LEMMA MainSound ==
  ASSUME Sound, MainStep PROVE Sound'
<1> USE DEF Threads
<1>1. CASE RemoveFile
  BY <1>1 DEF RemoveFile, Sound, TypeOK, Busy, ViewOK, sdVars
<1>2. CASE Assign
  <2>1. Head(todo) \in Calls /\ todo # << >>
    BY <1>2, TailTypes DEF Assign, Sound
  <2>2. data' \in Settings
    BY <1>2, <2>1, CallTypes, SettingsExcept DEF Assign, Sound, TypeOK
  <2> QED BY <1>2, <2>1, <2>2 DEF Assign, Sound, TypeOK, Busy, ViewOK, sdVars
<1>3. CASE SaveCheck("main") \/ SaveOpen("main") \/ SaveWrite("main")
  BY <1>3, SaveSound
<1> QED BY <1>1, <1>2, <1>3 DEF MainStep

\* The MicroSD thread only ever turns persistence on or off.
LEMMA SdSound ==
  ASSUME Sound, SdStep PROVE Sound'
<1> USE DEF Threads
<1>1. [data EXCEPT ![P] = Disabled] \in Settings /\ [data EXCEPT ![P] = Enabled] \in Settings
  BY TheSettings, Defaults, SettingsExcept DEF Sound, TypeOK
<1>2. CASE SdStart
  BY <1>1, <1>2 DEF SdStart, Inserted, Removed, Sound, TypeOK, Busy, ViewOK, mainVars
<1>3. CASE SdMakesFifo
  <2>1. << >> \in Seq({"add", "remove"})
    OBVIOUS
  <2> QED BY <1>3, <2>1 DEF SdMakesFifo, Sound, TypeOK, Busy, ViewOK, mainVars
<1>4. CASE SdReads
  <2>1. PICK n \in 1 .. Len(fifo) :
          /\ fifo' = SubSeq(fifo, n + 1, Len(fifo))
          /\ unheard' = (unheard \/ n > 1)
          /\ \/ n = 1 /\ fifo[1] = "add" /\ Inserted
             \/ fifo[1] = "remove" /\ Removed
             \/ n > 1 /\ sd' = "dead" /\ UNCHANGED <<data, persistOptions, crossed>>
    BY <1>4 DEF SdReads
  <2>2. fifo \in Seq({"add", "remove"}) /\ fifo' \in Seq({"add", "remove"})
    <3>1. fifo \in Seq({"add", "remove"})
      BY DEF Sound, TypeOK
    <3>2. \A i \in (n + 1) .. Len(fifo) : fifo[i] \in {"add", "remove"}
      BY <3>1
    <3> QED BY <2>1, <3>1, <3>2, SubSeqProperties
  <2>3. sd = "waiting" /\ UNCHANGED <<power, inserted, file, mainVars, fifoMade>>
    BY <1>4 DEF SdReads
  <2> QED BY <1>1, <2>1, <2>2, <2>3 DEF Inserted, Removed, Sound, TypeOK, Busy, ViewOK, mainVars
<1>5. CASE SdLooksForFile
  <2>1. /\ sd = "exists" /\ ((sd' = "enable" /\ UNCHANGED <<fifo, unheard>>) \/ Handled)
        /\ UNCHANGED <<power, data, persistOptions, inserted, file, mainVars, fifoMade, crossed>>
    BY <1>5 DEF SdLooksForFile
  <2> QED BY <2>1, Drops DEF Sound, TypeOK, Busy, ViewOK, mainVars
<1>6. CASE SdEnables
  BY <1>1, <1>6 DEF SdEnables, Sound, TypeOK, Busy, ViewOK
<1>7. CASE SaveCheck("sd") \/ SaveOpen("sd") \/ SaveWrite("sd")
  BY <1>7, SaveSound
<1> QED BY <1>2, <1>3, <1>4, <1>5, <1>6, <1>7 DEF SdStep

\* A View's own change is one call.
LEMMA OneCall ==
  ASSUME NEW a \in Attrs, NEW v \in Values(a)
  PROVE  <<<<a, v>>>> \in Seq(Calls) /\ <<<<a, v>>>> # << >> /\ Range(<<<<a, v>>>>) = {<<a, v>>}
<1>1. <<a, v>> \in Calls
  BY DEF Calls
<1>2. <<<<a, v>>>> \in Seq(Calls) /\ Len(<<<<a, v>>>>) = 1 /\ <<<<a, v>>>>[1] = <<a, v>>
  BY <1>1
<1>3. <<<<a, v>>>> # << >>
  BY <1>2
<1>4. Range(<<<<a, v>>>>) = {<<a, v>>}
  BY <1>2 DEF Range
<1> QED BY <1>2, <1>3, <1>4

\* A sequence of one.
LEMMA Singles ==
  ASSUME NEW x PROVE Range(<<x>>) = {x}
  BY DEF Range

\* A button stands for an option; where persistence cannot be enabled, none enables it.
LEMMA Buttons ==
  ASSUME NEW a \in Attrs, ~IsHidden(a), NEW opts \in {BothOptions, OnlyDisabled},
         NEW i \in DOMAIN OptionList(a, opts)
  PROVE  /\ OptionList(a, opts)[i] \in IF a = P THEN {"E", "D"} ELSE Options(a)
         /\ a = P /\ opts = OnlyDisabled => OptionList(a, opts)[i] = "D"
<1>1. CASE a = P
  <2>1. OptionList(a, opts) = opts
    BY <1>1 DEF OptionList, P, Timer
  <2>2. opts = BothOptions => i \in {1, 2} /\ opts[i] \in {"E", "D"}
    BY <2>1 DEF BothOptions
  <2>3. opts = OnlyDisabled => i = 1 /\ opts[i] = "D"
    BY <2>1 DEF OnlyDisabled
  <2> QED BY <1>1, <2>1, <2>2, <2>3 DEF BothOptions, OnlyDisabled
<1>2. CASE a = "sig_types"
  <2>1. OptionList(a, opts) = <<"ss", "ms">> /\ Options(a) = {"ss", "ms"} /\ a # P
    BY <1>2 DEF OptionList, Options, P, Timer
  <2> QED BY <2>1
<1>3. CASE a = Timer
  <2>1. OptionList(a, opts) = <<"5s", "inf">> /\ Options(a) = {"5s", "inf"} /\ a # P
    BY <1>3 DEF OptionList, Options, P, Timer
  <2> QED BY <2>1
<1> QED BY <1>1, <1>2, <1>3, TheSettings DEF IsHidden

\* What the user picks or scans becomes calls of set_value.
LEMMA UserSound ==
  ASSUME Sound, UserStep PROVE Sound'
<1>1. ASSUME UNCHANGED todo, MainIsFree, Untouched, ViewOK' PROVE Sound'
  BY <1>1 DEF Untouched, Sound, TypeOK, Busy, sdVars
<1>2. ASSUME todo' \in Seq(Calls), todo' # << >>, MainIsFree, Untouched, UNCHANGED view PROVE Sound'
  BY <1>2 DEF Untouched, MainIsFree, Sound, TypeOK, Busy, ViewOK, sdVars
<1>3. \A a \in Attrs : data[a] \in Values(a)
  BY DEF Sound, TypeOK, Settings
<1>4. ASSUME NEW a \in {b \in Attrs : ~IsHidden(b)}, OpenEntry(a) PROVE Sound'
  BY <1>1, <1>3, <1>4 DEF OpenEntry, ViewOK, EntryView
<1>5. ASSUME NEW i \in 1 .. 2, Pick(i) PROVE Sound'
  <2> DEFINE a == view.attr
             opts == OptionList(a, persistOptions)
             v == IF IsMultiselect(a) THEN Toggled(a, opts[i]) ELSE {opts[i]}
  <2>1. /\ MainIsFree /\ Untouched /\ view.name = "entry"
        /\ \/ view' = Menu /\ UNCHANGED todo
           \/ i \in DOMAIN opts /\ todo' = <<<<a, v>>>> /\ UNCHANGED view
    BY <1>5 DEF Pick
  <2>2. a \in Attrs /\ ~IsHidden(a) /\ view.initial \in Values(a) /\ persistOptions \in {BothOptions, OnlyDisabled}
    BY <2>1 DEF Sound, TypeOK, ViewOK
  <2>3. CASE view' = Menu /\ UNCHANGED todo
    BY <1>1, <2>1, <2>3 DEF ViewOK, Menu
  <2>4. CASE i \in DOMAIN opts /\ todo' = <<<<a, v>>>> /\ UNCHANGED view
    <3>1. opts[i] \in IF a = P THEN {"E", "D"} ELSE Options(a)
      BY <2>2, <2>4, Buttons
    <3>2. v \in Values(a)
      BY <2>2, <3>1 DEF Toggled, Values
    <3> HIDE DEF v, a, opts
    <3>3. todo' \in Seq(Calls) /\ todo' # << >>
      BY <2>2, <2>4, <3>2, OneCall
    <3> QED BY <1>2, <2>1, <2>4, <3>3
  <2> QED BY <2>1, <2>3, <2>4
<1>6. CASE BackFromEntry
  BY <1>1, <1>6 DEF BackFromEntry, ViewOK, Required, Blocked, Menu, Sound, TypeOK
<1>7. CASE ReturnToSetting
  BY <1>1, <1>3, <1>7 DEF ReturnToSetting, ViewOK, EntryView, Sound, TypeOK
<1>8. CASE Continue
  BY <1>1, <1>8 DEF Continue, ViewOK, Menu
<1>9. CASE SettingsOfBlocked
  <2>1. Timer \in Attrs /\ ~IsHidden(Timer)
    BY TheSettings DEF IsHidden, Timer
  <2> QED BY <1>1, <1>3, <1>9, <2>1 DEF SettingsOfBlocked, ViewOK, EntryView
<1>10. ASSUME NEW v \in Options("qr_brightness"), SaveBrightness(v) PROVE Sound'
  <2>1. "qr_brightness" \in Attrs /\ {v} \in Values("qr_brightness")
    BY TheSettings DEF Values, P
  <2>2. todo' \in Seq(Calls) /\ todo' # << >>
    BY <1>10, <2>1, OneCall DEF SaveBrightness
  <2> QED BY <1>2, <1>10, <2>2 DEF SaveBrightness
<1>11. ASSUME NEW qr \in SettingsQRs, ScanSettingsQR(qr) PROVE Sound'
  <2>1. MainIsFree /\ Untouched /\ UNCHANGED view
    BY <1>11 DEF ScanSettingsQR
  <2>2. CASE \E i \in DOMAIN qr : EntryRaises(qr[i], persistOptions)
    <3>1. UNCHANGED todo /\ ViewOK'
      BY <1>11, <2>2, <2>1 DEF ScanSettingsQR, Sound, TypeOK, ViewOK
    <3> QED BY <1>1, <2>1, <3>1
  <2>3. CASE ~\E i \in DOMAIN qr : EntryRaises(qr[i], persistOptions)
    <3>1. todo' = UpdateCalls(QrPlace(qr), Parsed(qr, persistOptions), data)
      BY <1>11, <2>3 DEF ScanSettingsQR
    <3>2. qr \in Seq(Range(qr)) /\ data \in Settings /\ persistOptions \in {BothOptions, OnlyDisabled}
      BY SettingsAssumption DEF Sound, TypeOK
    <3>3. IsPlace(QrPlace(qr)) /\ IsGiven(Parsed(qr, persistOptions))
      BY <2>3, <3>2, QrPlaces, QrGiven
    <3>4. todo' \in Seq(Calls) /\ Len(todo') = 4
      BY <3>1, <3>2, <3>3, Updates
    <3>5. todo' # << >>
      BY <3>4
    <3> QED BY <1>2, <2>1, <3>4, <3>5
  <2> QED BY <2>2, <2>3
<1> QED BY <1>4, <1>5, <1>6, <1>7, <1>8, <1>9, <1>10, <1>11 DEF UserStep

\* A boot from a card takes the whole file.
LEMMA WorldSound ==
  ASSUME Sound, WorldStep PROVE Sound'
<1> USE DEF Threads
<1>1. ASSUME NEW event \in {"add", "remove"}, Tells(event)
      PROVE  fifo' \in Seq({"add", "remove"}) /\ unheard' \in BOOLEAN
  <2>1. fifo \in Seq({"add", "remove"})
    BY DEF Sound, TypeOK
  <2>2. Append(fifo, event) \in Seq({"add", "remove"})
    BY <2>1, AppendProperties
  <2>3. fifo' \in {fifo, Append(fifo, event)} /\ unheard' \in {TRUE, unheard}
    BY <1>1 DEF Tells
  <2> QED BY <2>1, <2>2, <2>3 DEF Sound, TypeOK
<1>2. ASSUME NEW c \in Cards, InsertCard(c) PROVE Sound'
  <2>1. fifo' \in Seq({"add", "remove"}) /\ unheard' \in BOOLEAN
    BY <1>1, <1>2 DEF InsertCard
  <2> QED BY <1>2, <2>1 DEF InsertCard, CardMoves, Sound, TypeOK, Busy, ViewOK
<1>3. CASE PullCard
  <2>1. fifo' \in Seq({"add", "remove"}) /\ unheard' \in BOOLEAN
    BY <1>1, <1>3 DEF PullCard
  <2> QED BY <1>3, <2>1 DEF PullCard, CardMoves, Sound, TypeOK, Busy, ViewOK
<1>4. CASE Boot
  <2> DEFINE content == IF inserted = NoCard THEN NoFile ELSE file[inserted]
  <2>1. /\ power = "off" /\ data' = get_defaults /\ persistOptions' = BothOptions
        /\ view' = Menu /\ unheard' = FALSE /\ crossed' = FALSE
        /\ UNCHANGED <<inserted, file, saver, handle, fifoMade, fifo>>
        /\ \/ power' = "failed" /\ UNCHANGED <<todo, sd>>
           \/ power' = "on" /\ sd' = "start" /\ UNCHANGED todo
           \/ /\ content \notin {Torn, NoFile} /\ power' = "booting" /\ UNCHANGED sd
              /\ todo' = UpdateCalls(EntryPlace, content, get_defaults)
    BY <1>4 DEF Boot
  <2>2. saver["main"] = "idle" /\ saver["sd"] = "idle" /\ sd = "off" /\ todo = << >>
    BY <2>1 DEF Sound, TypeOK, Busy
  <2>3. ViewOK'
    BY <2>1 DEF ViewOK, Menu
  <2>4. power' = "booting" => todo' \in Seq(Calls) /\ todo' # << >>
    <3> SUFFICES ASSUME power' = "booting" PROVE todo' \in Seq(Calls) /\ todo' # << >>
      OBVIOUS
    <3>1. content \in Settings /\ todo' = UpdateCalls(EntryPlace, content, get_defaults)
      BY <2>1 DEF Sound, TypeOK
    <3> HIDE DEF content
    <3>2. IsGiven(content)
      BY <3>1 DEF IsGiven, Settings
    <3>3. todo' \in Seq(Calls) /\ Len(todo') = 4
      BY <3>1, <3>2, EntryPlaces, Defaults, Updates
    <3> QED BY <3>3
  <2> HIDE DEF content
  <2> QED BY <2>1, <2>2, <2>3, <2>4, Defaults DEF Sound, TypeOK, Busy
<1>5. CASE CutPower
  <2>1. << >> \in Seq({"add", "remove"}) /\ << >> \in Seq(Calls)
    OBVIOUS
  <2> QED BY <1>5, <2>1, Defaults DEF CutPower, Sound, TypeOK, Busy, ViewOK, Menu
<1> QED BY <1>2, <1>3, <1>4, <1>5 DEF WorldStep

\* At first the power is off.
LEMMA InitSound ==
  ASSUME Init PROVE Sound
<1>1. << >> \in Seq({"add", "remove"}) /\ << >> \in Seq(Calls)
  OBVIOUS
<1> QED BY <1>1, Defaults DEF Init, Sound, TypeOK, Busy, ViewOK, Menu, Threads

\* Every step keeps the types.
LEMMA NextSound ==
  ASSUME Sound, [Next]_vars PROVE Sound'
<1>1. CASE UNCHANGED vars
  BY <1>1 DEF vars, mainVars, sdVars, Sound, TypeOK, Busy, ViewOK
<1> QED BY <1>1, MainSound, SdSound, UserSound, WorldSound DEF Next

-----------------------------------------------------------------------------
(* What the file holds. *)

\* Something is still to happen that writes the file, or turns persistence off.
Pending ==
  \/ "remove" \in Range(fifo)
  \/ fifo # << >> /\ ~fifoMade
  \/ \E t \in Threads : \/ saver[t] \in {"assign", "check", "open"}
                        \/ saver[t] = "write" /\ handle[t] = inserted

\* Settings that persist are on the card, or on their way there.
HoldsOrWill ==
  power = "on" /\ inserted # NoCard /\ data[P] = Enabled /\ ~unheard /\ ~crossed =>
    file[inserted] = data \/ Pending

\* The last event that waits says whether a card is in.
LastSaysSo ==
  /\ power = "on" /\ ~unheard /\ fifo # << >> =>
       fifo[Len(fifo)] = IF inserted = NoCard THEN "remove" ELSE "add"
  /\ power # "on" => fifo = << >>

\* Once the MicroSD thread knows that no card is in, nothing persists and nothing
\* is about to turn persistence on.
NoCardNoPersistence ==
  power = "on" /\ ~unheard /\ fifo = << >> /\ inserted = NoCard /\ sd # "start" =>
    /\ persistOptions = OnlyDisabled
    /\ sd \notin {"exists", "enable"}
    /\ ~crossed => data[P] # Enabled /\ <<P, Enabled>> \notin Range(todo)

\* An open file is on the card that is in; the FIFO is made once, before the
\* MicroSD thread waits on it.
Handles ==
  /\ \A t \in Threads : handle[t] \in {NoCard, inserted}
  /\ sd \in {"start", "fifo"} \/ power # "on" => ~fifoMade
  /\ sd = "waiting" => fifoMade

Keeps == HoldsOrWill /\ LastSaysSo /\ NoCardNoPersistence /\ Handles

\* A set_value returns: of what is pending, only its own save is over.
LEMMA ReturnsKeeps ==
  ASSUME Sound, Keeps, saver["main"] \in {"check", "write"}, Returns,
         UNCHANGED <<data, persistOptions, inserted, fifo, fifoMade, unheard, crossed>>,
         \A t \in Threads : handle'[t] \in {NoCard, handle[t]},
         handle'["sd"] = handle["sd"],
         inserted # NoCard /\ data[P] = Enabled /\ ~crossed => file'[inserted] = data
  PROVE  Keeps'
<1>1. /\ todo # << >> /\ todo' = Tail(todo) /\ saver' = [saver EXCEPT !["main"] = "idle"]
      /\ power' \in {"on", power} /\ sd' \in {"start", sd}
      /\ power' # power => power = "booting" /\ sd' = "start"
      /\ sd' # sd => power = "booting"
  BY DEF Sound, TypeOK, Busy, Returns
<1>2. \A x \in Range(todo') : x \in Range(todo)
  BY <1>1, TailTypes DEF Sound
<1>3. power = "booting" => sd = "off" /\ fifo = << >> /\ ~fifoMade
  BY DEF Sound, TypeOK, Busy, Keeps, LastSaysSo, Handles
<1>4. HoldsOrWill'
  BY DEF HoldsOrWill
<1>5. LastSaysSo'
  BY <1>1, <1>3 DEF Keeps, LastSaysSo
<1>6. NoCardNoPersistence'
  BY <1>1, <1>2, <1>3 DEF Keeps, NoCardNoPersistence, Sound, TypeOK, Busy
<1>7. Handles'
  <2>1. /\ sd' \in {"start", "fifo"} \/ power' # "on" => ~fifoMade'
        /\ sd' = "waiting" => fifoMade'
    BY <1>1, <1>3 DEF Keeps, Handles, Sound, TypeOK, Busy
  <2>2. \A t \in Threads : handle'[t] \in {NoCard, inserted'}
    BY DEF Keeps, Handles
  <2> QED BY <2>1, <2>2 DEF Handles
<1> QED BY <1>4, <1>5, <1>6, <1>7 DEF Keeps

\* Where a thread raises there is no card, or it was pulled in the meantime.
LEMMA RaisesKeeps ==
  ASSUME Sound, Keeps, NEW t \in Threads, Raises(t),
         \/ saver[t] = "open" /\ inserted = NoCard
         \/ saver[t] = "write" /\ handle[t] = NoCard,
         UNCHANGED <<data, persistOptions, inserted, file, fifo, fifoMade, unheard, crossed>>
  PROVE  Keeps'
<1> USE DEF Threads
<1>1. /\ saver' = [saver EXCEPT ![t] = "idle"] /\ handle' = [handle EXCEPT ![t] = NoCard]
      /\ t = "sd" => sd' = "dead" /\ UNCHANGED <<power, todo>>
      /\ t = "main" => todo' = << >> /\ UNCHANGED sd
      /\ power' \in {power, "failed"}
      /\ power' # power => power = "booting"
  BY DEF Raises
<1>2. /\ saver \in [Threads -> {"idle", "assign", "check", "open", "write"}]
      /\ handle \in [Threads -> Cards \union {NoCard}]
      /\ power = "booting" => fifo = << >> /\ ~fifoMade
      /\ t = "sd" => sd = "saving"
  BY DEF Sound, TypeOK, Busy, Keeps, LastSaysSo, Handles
<1>3. HoldsOrWill'
  <2> SUFFICES ASSUME power' = "on", inserted' # NoCard, data'[P] = Enabled, ~unheard', ~crossed'
               PROVE  file'[inserted'] = data' \/ Pending'
    BY DEF HoldsOrWill
  <2>1. power = "on" /\ handle[t] = NoCard /\ saver[t] = "write"
    BY <1>1
  <2>2. file[inserted] = data \/ Pending
    BY <2>1 DEF Keeps, HoldsOrWill
  <2>3. ASSUME NEW u \in Threads, saver[u] \in {"assign", "check", "open"} \/ (saver[u] = "write" /\ handle[u] = inserted)
        PROVE  saver'[u] \in {"assign", "check", "open"} \/ (saver'[u] = "write" /\ handle'[u] = inserted')
    <3>1. u # t
      BY <2>1, <2>3
    <3> QED BY <1>1, <1>2, <2>3, <3>1
  <2> QED BY <2>2, <2>3 DEF Pending
<1>4. LastSaysSo'
  BY <1>1, <1>2 DEF Keeps, LastSaysSo
<1>5. NoCardNoPersistence'
  BY <1>1, <1>2, TheSettings DEF Keeps, NoCardNoPersistence, Range
<1>6. Handles'
  BY <1>1, <1>2 DEF Keeps, Handles
<1> QED BY <1>3, <1>4, <1>5, <1>6 DEF Keeps

\* A save that is due checks, opens and writes; only its end leaves nothing pending.
LEMMA SaveKeeps ==
  ASSUME Sound, Keeps, NEW t \in Threads, SaveCheck(t) \/ SaveOpen(t) \/ SaveWrite(t)
  PROVE  Keeps'
<1> USE DEF Threads
<1>1. /\ saver \in [Threads -> {"idle", "assign", "check", "open", "write"}]
      /\ handle \in [Threads -> Cards \union {NoCard}]
      /\ file \in [Cards -> Settings \union {NoFile, Torn}]
      /\ inserted \in Cards \union {NoCard} /\ NoCard \notin Cards
      /\ saver["sd"] # "idle" => sd = "saving" /\ power = "on"
  BY SettingsAssumption DEF Sound, TypeOK, Busy
<1>2. CASE SaveCheck(t)
  <2>1. CASE data[P] = Enabled /\ inserted # NoCard
    <3>1. /\ saver[t] = "check" /\ saver' = [saver EXCEPT ![t] = "open"]
          /\ UNCHANGED <<power, todo, sd, data, persistOptions, inserted, file, handle,
                         fifoMade, fifo, unheard, crossed>>
      BY <1>2, <2>1 DEF SaveCheck
    <3>2. Pending'
      BY <1>1, <3>1 DEF Pending
    <3> QED BY <3>1, <3>2 DEF Keeps, HoldsOrWill, LastSaysSo, NoCardNoPersistence, Handles
  <2>2. CASE ~(data[P] = Enabled /\ inserted # NoCard) /\ t = "main"
    <3>1. Returns /\ saver["main"] = "check"
          /\ UNCHANGED <<data, persistOptions, inserted, file, handle, fifo, fifoMade, unheard,
                         crossed>>
      BY <1>2, <2>2 DEF SaveCheck
    <3> QED BY <2>2, <3>1, ReturnsKeeps
  <2>3. CASE ~(data[P] = Enabled /\ inserted # NoCard) /\ t = "sd"
    <3>1. /\ sd = "saving" /\ power = "on" /\ sd' = IF fifoMade THEN "waiting" ELSE "fifo"
          /\ ~unheard' => UNCHANGED <<fifo, unheard>>
          /\ UNCHANGED <<power, todo, data, persistOptions, inserted, file, handle, fifoMade, crossed>>
      BY <1>1, <1>2, <2>3, Drops DEF SaveCheck, Sound
    <3>2. HoldsOrWill'
      BY <2>3, <3>1 DEF HoldsOrWill
    <3> QED BY <1>1, <3>1, <3>2 DEF Keeps, LastSaysSo, NoCardNoPersistence, Handles
  <2> QED BY <2>1, <2>2, <2>3
<1>3. CASE SaveOpen(t)
  <2>1. CASE inserted = NoCard
    <3>1. /\ saver[t] = "open" /\ Raises(t)
          /\ UNCHANGED <<data, persistOptions, inserted, file, fifo, fifoMade, unheard,
                         crossed>>
      BY <1>3, <2>1 DEF SaveOpen
    <3> QED BY <2>1, <3>1, RaisesKeeps
  <2>2. CASE inserted # NoCard
    <3>1. /\ handle' = [handle EXCEPT ![t] = inserted] /\ saver' = [saver EXCEPT ![t] = "write"]
          /\ UNCHANGED <<power, todo, sd, data, persistOptions, inserted, fifoMade, fifo,
                         unheard>>
      BY <1>3, <2>2 DEF SaveOpen
    <3>2. Pending'
      BY <1>1, <3>1 DEF Pending
    <3> QED BY <1>1, <2>2, <3>1, <3>2
               DEF Keeps, HoldsOrWill, LastSaysSo, NoCardNoPersistence, Handles
  <2> QED BY <2>1, <2>2
<1>4. CASE SaveWrite(t)
  <2>1. CASE handle[t] = NoCard
    <3>1. /\ saver[t] = "write" /\ Raises(t)
          /\ UNCHANGED <<data, persistOptions, inserted, file, fifo, fifoMade, unheard,
                         crossed>>
      BY <1>4, <2>1 DEF SaveWrite
    <3> QED BY <2>1, <3>1, RaisesKeeps
  <2>2. CASE handle[t] # NoCard
    <3>1. PICK content \in {data} \union IF crossed THEN {Torn} ELSE {} :
                file' = [file EXCEPT ![handle[t]] = content]
      BY <1>4, <2>2 DEF SaveWrite
    <3>2. handle[t] = inserted /\ inserted \in Cards
      BY <1>1, <2>2 DEF Keeps, Handles
    <3>3. ~crossed => file'[inserted] = data
      BY <1>1, <3>1, <3>2
    <3>4. /\ handle' = [handle EXCEPT ![t] = NoCard] /\ saver[t] = "write"
          /\ UNCHANGED <<data, persistOptions, inserted, fifoMade, crossed>>
      BY <1>4, <2>2 DEF SaveWrite
    <3>5. CASE t = "main"
      <4>1. Returns /\ UNCHANGED <<fifo, unheard>>
        BY <1>4, <2>2, <3>5 DEF SaveWrite
      <4>2. handle'["sd"] = handle["sd"] /\ \A u \in Threads : handle'[u] \in {NoCard, handle[u]}
        BY <1>1, <3>4, <3>5
      <4> QED BY <3>3, <3>4, <3>5, <4>1, <4>2, ReturnsKeeps
    <3>6. CASE t = "sd"
      <4>1. /\ sd = "saving" /\ power = "on" /\ sd' = IF fifoMade THEN "waiting" ELSE "fifo"
            /\ ~unheard' => UNCHANGED <<fifo, unheard>>
            /\ UNCHANGED <<power, todo>>
        BY <1>1, <1>4, <2>2, <3>6, <3>4, Drops DEF SaveWrite, Sound
      <4>2. HoldsOrWill'
        BY <3>3, <3>4 DEF HoldsOrWill
      <4> QED BY <1>1, <3>4, <4>1, <4>2 DEF Keeps, LastSaysSo, NoCardNoPersistence, Handles
    <3> QED BY <3>5, <3>6
  <2> QED BY <2>1, <2>2
<1> QED BY <1>2, <1>3, <1>4

\* What is assigned is saved by the same call.
LEMMA MainKeeps ==
  ASSUME Sound, Keeps, MainStep PROVE Keeps'
<1> USE DEF Threads
<1>1. saver \in [Threads -> {"idle", "assign", "check", "open", "write"}]
  BY DEF Sound, TypeOK
<1>2. CASE RemoveFile
  <2>1. /\ saver' = [saver EXCEPT !["main"] = "assign"]
        /\ UNCHANGED <<power, data, persistOptions, inserted, todo, handle, sd, fifoMade, fifo,
                       unheard, crossed>>
    BY <1>2 DEF RemoveFile, sdVars
  <2>2. Pending'
    BY <1>1, <2>1 DEF Pending
  <2> QED BY <2>1, <2>2 DEF Keeps, HoldsOrWill, LastSaysSo, NoCardNoPersistence, Handles
<1>3. CASE Assign
  <2>1. /\ saver' = [saver EXCEPT !["main"] = "check"] /\ todo # << >>
        /\ data' = [data EXCEPT ![Head(todo)[1]] = Head(todo)[2]]
        /\ UNCHANGED <<power, persistOptions, inserted, todo, handle, sd, fifoMade, fifo,
                       unheard, crossed>>
    BY <1>3 DEF Assign, sdVars
  <2>2. Pending'
    BY <1>1, <2>1 DEF Pending
  <2>3. HoldsOrWill' /\ LastSaysSo' /\ Handles'
    BY <2>1, <2>2 DEF Keeps, HoldsOrWill, LastSaysSo, Handles
  <2>4. ASSUME <<P, Enabled>> \notin Range(todo), data[P] # Enabled PROVE data'[P] # Enabled
    <3>1. Head(todo) \in Calls /\ data \in Settings
      BY <2>1, TailTypes DEF Sound, TypeOK
    <3>2. Head(todo) \in Range(todo)
      <4>1. 1 \in DOMAIN todo /\ Head(todo) = todo[1]
        BY <2>1 DEF Sound, TypeOK
      <4> QED BY <4>1 DEF Range
    <3>3. Head(todo) = <<Head(todo)[1], Head(todo)[2]>>
      BY <3>1, CallTypes
    <3>4. Head(todo)[1] = P => Head(todo)[2] # Enabled
      BY <2>4, <3>2, <3>3
    <3> QED BY <2>1, <2>4, <3>1, <3>4 DEF Settings
  <2> QED BY <2>1, <2>3, <2>4 DEF Keeps, NoCardNoPersistence
<1>4. CASE SaveCheck("main") \/ SaveOpen("main") \/ SaveWrite("main")
  BY <1>4, SaveKeeps
<1> QED BY <1>2, <1>3, <1>4 DEF MainStep

\* The MicroSD thread hears the events in order, and looks at the card after it was told of it.
LEMMA SdKeeps ==
  ASSUME Sound, Keeps, SdStep PROVE Keeps'
<1> USE DEF Threads
<1>1. /\ saver \in [Threads -> {"idle", "assign", "check", "open", "write"}]
      /\ data \in Settings /\ P \in Attrs /\ Enabled # Disabled
      /\ fifo \in Seq({"add", "remove"})
  BY TheSettings, Defaults DEF Sound, TypeOK
<1>2. [data EXCEPT ![P] = Disabled][P] # Enabled
  BY <1>1 DEF Settings
<1>3. CASE SdStart
  <2>1. /\ sd = "start" /\ IF inserted # NoCard THEN Inserted ELSE Removed
        /\ UNCHANGED <<power, inserted, file, todo, saver, handle, fifoMade, fifo, unheard>>
    BY <1>3 DEF SdStart, mainVars
  <2>2. CASE inserted # NoCard
    BY <2>1, <2>2
       DEF Inserted, Keeps, HoldsOrWill, LastSaysSo, NoCardNoPersistence, Handles, Pending
  <2>3. CASE inserted = NoCard
    <3>1. data'[P] # Enabled
      BY <1>2, <2>1, <2>3 DEF Removed
    <3> QED BY <2>1, <2>3, <3>1
               DEF Removed, Keeps, HoldsOrWill, LastSaysSo, NoCardNoPersistence, Handles,
                   Sound, Busy
  <2> QED BY <2>2, <2>3
<1>4. CASE SdMakesFifo
  <2>1. /\ sd = "fifo" /\ fifoMade' = TRUE /\ fifo' = << >> /\ unheard' = (unheard \/ fifo # << >>)
        /\ sd' = "waiting" /\ power = "on"
        /\ UNCHANGED <<power, data, persistOptions, inserted, file, todo, saver, handle,
                       crossed>>
    BY <1>4 DEF SdMakesFifo, mainVars, Sound, Busy
  <2>2. HoldsOrWill'
    <3>1. ~unheard' => fifo = << >>
      BY <2>1 DEF Sound, TypeOK
    <3>2. fifo = << >> /\ Pending => Pending'
      BY <2>1 DEF Pending, Range
    <3> QED BY <2>1, <3>1, <3>2 DEF Keeps, HoldsOrWill, Sound, TypeOK
  <2>3. NoCardNoPersistence'
    BY <2>1 DEF Keeps, NoCardNoPersistence, Sound, TypeOK
  <2> QED BY <2>1, <2>2, <2>3 DEF Keeps, LastSaysSo, Handles
<1>5. CASE SdReads
  <2>1. PICK n \in 1 .. Len(fifo) :
          /\ fifo' = SubSeq(fifo, n + 1, Len(fifo))
          /\ unheard' = (unheard \/ n > 1)
          /\ \/ n = 1 /\ fifo[1] = "add" /\ Inserted
             \/ fifo[1] = "remove" /\ Removed
             \/ n > 1 /\ sd' = "dead" /\ UNCHANGED <<data, persistOptions, crossed>>
    BY <1>5 DEF SdReads
  <2>2. /\ sd = "waiting" /\ power = "on"
        /\ UNCHANGED <<power, inserted, file, todo, saver, handle, fifoMade>>
    BY <1>5 DEF SdReads, mainVars, Sound, Busy
  <2>3. CASE n > 1
    <3>1. unheard'
      BY <2>1, <2>3, Zenon
    <3>2. sd' \in {"dead", "waiting"}
      BY <2>1, <2>2, <2>3 DEF Removed, Keeps, Handles
    <3> QED BY <2>2, <3>1, <3>2 DEF Keeps, HoldsOrWill, LastSaysSo, NoCardNoPersistence, Handles
  <2>4. CASE n = 1
    <3>1. /\ fifo' = SubSeq(fifo, 2, Len(fifo)) /\ UNCHANGED unheard
          /\ IF fifo[1] = "add" THEN Inserted ELSE Removed
      BY <2>1, <2>4 DEF Sound, TypeOK
    <3>2. /\ Len(fifo) \in Nat \ {0} /\ fifo[1] \in {"add", "remove"}
          /\ Len(fifo') = Len(fifo) - 1 /\ fifo' \in Seq({"add", "remove"})
          /\ \A i \in 1 .. Len(fifo) - 1 : fifo'[i] = fifo[i + 1]
      <4>1. \A i \in 2 .. Len(fifo) : fifo[i] \in {"add", "remove"}
        BY <1>1
      <4>2. /\ fifo' \in Seq({"add", "remove"})
            /\ Len(fifo') = IF 2 <= Len(fifo) THEN Len(fifo) - 2 + 1 ELSE 0
            /\ \A i \in 1 .. Len(fifo) - 2 + 1 : fifo'[i] = fifo[2 + i - 1]
        BY <1>1, <3>1, <4>1, SubSeqProperties, 2 \in Int, Len(fifo) \in Int
      <4>3. Len(fifo) \in Nat \ {0} /\ fifo[1] \in {"add", "remove"}
        BY <1>1, <2>1
      <4>4. Len(fifo') = Len(fifo) - 1
        <5>1. CASE Len(fifo) = 1
          <6>1. ~(2 <= Len(fifo)) /\ Len(fifo) - 1 = 0
            BY <5>1
          <6> QED BY <4>2, <6>1
        <5>2. CASE Len(fifo) # 1
          <6>1. 2 <= Len(fifo) /\ Len(fifo) - 2 + 1 = Len(fifo) - 1
            BY <4>3, <5>2
          <6> QED BY <4>2, <6>1
        <5> QED BY <5>1, <5>2
      <4>5. \A i \in 1 .. Len(fifo) - 1 : fifo'[i] = fifo[i + 1]
        <5>1. \A i \in 1 .. Len(fifo) - 1 : i \in 1 .. Len(fifo) - 2 + 1 /\ 2 + i - 1 = i + 1
          BY <4>3
        <5> QED BY <4>2, <5>1
      <4> QED BY <4>2, <4>3, <4>4, <4>5
    <3>3. fifo' # << >> => Len(fifo) > 1 /\ fifo'[Len(fifo')] = fifo[Len(fifo)]
      BY <3>2
    <3>4. fifo' = << >> => Len(fifo) = 1 /\ fifo[1] = fifo[Len(fifo)]
      <4>1. Len(<< >>) = 0
        OBVIOUS
      <4>2. fifo' = << >> => Len(fifo) - 1 = 0
        BY <3>2, <4>1
      <4>3. fifo' = << >> => Len(fifo) = 1
        BY <3>2, <4>2
      <4> QED BY <4>3
    <3>5. LastSaysSo'
      BY <2>2, <3>1, <3>2, <3>3 DEF Keeps, LastSaysSo
    <3>6. CASE fifo[1] = "add"
      <4>1. sd' = "exists" /\ UNCHANGED <<data, crossed>>
        BY <3>1, <3>6 DEF Inserted
      <4>2. "remove" \in Range(fifo) => "remove" \in Range(fifo')
        <5> SUFFICES ASSUME NEW i \in DOMAIN fifo, fifo[i] = "remove" PROVE "remove" \in Range(fifo')
          BY DEF Range
        <5>1. i - 1 \in 1 .. Len(fifo) - 1 /\ fifo'[i - 1] = fifo[i]
          BY <1>1, <3>2, <3>6
        <5>2. i - 1 \in DOMAIN fifo'
          BY <3>2, <5>1
        <5> QED BY <5>1, <5>2 DEF Range
      <4>3. HoldsOrWill'
        <5>1. Pending => Pending'
          BY <2>2, <4>2 DEF Pending, Keeps, Handles
        <5> QED BY <2>2, <3>1, <4>1, <5>1 DEF Keeps, HoldsOrWill
      <4>4. NoCardNoPersistence'
        <5>1. power = "on" /\ ~unheard /\ fifo' = << >> => inserted # NoCard
          BY <3>2, <3>4, <3>6 DEF Keeps, LastSaysSo
        <5> QED BY <2>2, <3>1, <5>1 DEF NoCardNoPersistence
      <4> QED BY <2>2, <3>5, <4>1, <4>3, <4>4 DEF Keeps, Handles
    <3>7. CASE fifo[1] = "remove"
      <4>1. Removed
        BY <3>1, <3>7
      <4>2. data'[P] # Enabled
        BY <1>2, <4>1 DEF Removed
      <4> QED BY <2>2, <3>1, <3>5, <4>1, <4>2
                 DEF Removed, Keeps, HoldsOrWill, NoCardNoPersistence, Handles
    <3> QED BY <3>2, <3>6, <3>7
  <2> QED BY <2>1, <2>3, <2>4
<1>6. CASE SdLooksForFile
  <2>1. /\ sd = "exists" /\ power = "on"
        /\ sd' = IF inserted # NoCard /\ file[inserted] # NoFile THEN "enable" ELSE IF fifoMade THEN "waiting" ELSE "fifo"
        /\ ~unheard' => UNCHANGED <<fifo, unheard>>
        /\ UNCHANGED <<power, data, persistOptions, inserted, file, todo, saver, handle, fifoMade, crossed>>
    BY <1>6, Drops DEF SdLooksForFile, mainVars, Sound, Busy
  <2>2. ~unheard' /\ Pending => Pending'
    BY <2>1 DEF Pending
  <2> QED BY <2>1, <2>2 DEF Keeps, HoldsOrWill, LastSaysSo, NoCardNoPersistence, Handles
<1>7. CASE SdEnables
  <2>1. /\ sd = "enable" /\ sd' = "saving" /\ saver' = [saver EXCEPT !["sd"] = "check"]
        /\ UNCHANGED <<power, persistOptions, inserted, todo, handle, fifoMade, fifo, unheard,
                       crossed>>
    BY <1>7 DEF SdEnables
  <2>2. Pending'
    BY <1>1, <2>1 DEF Pending
  <2> QED BY <2>1, <2>2 DEF Keeps, HoldsOrWill, LastSaysSo, NoCardNoPersistence, Handles
<1>8. CASE SaveCheck("sd") \/ SaveOpen("sd") \/ SaveWrite("sd")
  BY <1>8, SaveKeeps
<1> QED BY <1>3, <1>4, <1>5, <1>6, <1>7, <1>8 DEF SdStep

\* A View changes no setting itself.
LEMMA UntouchedKeeps ==
  ASSUME Sound, Keeps, MainIsFree, Untouched,
         persistOptions = OnlyDisabled /\ <<P, Enabled>> \notin Range(todo) => <<P, Enabled>> \notin Range(todo')
  PROVE  Keeps'
<1>1. UNCHANGED <<power, data, persistOptions, inserted, file, saver, handle, sd, fifoMade, fifo, unheard, crossed>>
  BY DEF Untouched, sdVars
<1>2. Pending => Pending'
  BY <1>1 DEF Pending
<1> QED BY <1>1, <1>2 DEF Keeps, HoldsOrWill, LastSaysSo, NoCardNoPersistence, Handles

\* No View enables persistence where it knows that no card is in.
LEMMA UserKeeps ==
  ASSUME Sound, Keeps, UserStep PROVE Keeps'
<1>1. ASSUME UNCHANGED todo, MainIsFree, Untouched PROVE Keeps'
  BY <1>1, UntouchedKeeps
<1>2. ASSUME NEW a \in {b \in Attrs : ~IsHidden(b)}, OpenEntry(a) PROVE Keeps'
  BY <1>1, <1>2 DEF OpenEntry
<1>3. ASSUME NEW i \in 1 .. 2, Pick(i) PROVE Keeps'
  <2> DEFINE a == view.attr
             opts == OptionList(a, persistOptions)
             v == IF IsMultiselect(a) THEN Toggled(a, opts[i]) ELSE {opts[i]}
  <2>1. /\ MainIsFree /\ Untouched /\ view.name = "entry"
        /\ UNCHANGED todo \/ (i \in DOMAIN opts /\ todo' = <<<<a, v>>>>)
    BY <1>3 DEF Pick
  <2>2. a \in Attrs /\ ~IsHidden(a) /\ persistOptions \in {BothOptions, OnlyDisabled}
    BY <2>1 DEF Sound, TypeOK, ViewOK
  <2>3. CASE UNCHANGED todo
    BY <1>1, <2>1, <2>3
  <2>4. CASE i \in DOMAIN opts /\ todo' = <<<<a, v>>>>
    <3>1. ASSUME persistOptions = OnlyDisabled, a = P PROVE v = Disabled
      <4>1. opts[i] = "D"
        BY <2>2, <2>4, <3>1, Buttons
      <4>2. ~IsMultiselect(a)
        BY <3>1 DEF IsMultiselect, P
      <4> QED BY <4>1, <4>2 DEF Disabled
    <3> HIDE DEF v, a, opts
    <3>2. Range(todo') = {<<a, v>>}
      BY <2>4, Singles
    <3>3. persistOptions = OnlyDisabled => <<P, Enabled>> \notin Range(todo')
      BY <3>1, <3>2, Defaults
    <3> QED BY <2>1, <3>3, UntouchedKeeps
  <2> QED BY <2>1, <2>3, <2>4
<1>4. CASE BackFromEntry
  BY <1>1, <1>4 DEF BackFromEntry
<1>5. CASE ReturnToSetting
  BY <1>1, <1>5 DEF ReturnToSetting
<1>6. CASE Continue
  BY <1>1, <1>6 DEF Continue
<1>7. CASE SettingsOfBlocked
  BY <1>1, <1>7 DEF SettingsOfBlocked
<1>8. ASSUME NEW v \in Options("qr_brightness"), SaveBrightness(v) PROVE Keeps'
  <2>1. MainIsFree /\ Untouched /\ todo' = <<<<"qr_brightness", {v}>>>>
    BY <1>8 DEF SaveBrightness
  <2>2. Range(todo') = {<<"qr_brightness", {v}>>}
    BY <2>1, Singles
  <2>3. <<P, Enabled>> \notin Range(todo')
    BY <2>2 DEF P
  <2> QED BY <2>1, <2>3, UntouchedKeeps
<1>9. ASSUME NEW qr \in SettingsQRs, ScanSettingsQR(qr) PROVE Keeps'
  <2>1. MainIsFree /\ Untouched
    BY <1>9 DEF ScanSettingsQR
  <2>2. CASE \E i \in DOMAIN qr : EntryRaises(qr[i], persistOptions)
    BY <1>1, <1>9, <2>1, <2>2 DEF ScanSettingsQR
  <2>3. CASE ~\E i \in DOMAIN qr : EntryRaises(qr[i], persistOptions)
    <3>1. todo' = UpdateCalls(QrPlace(qr), Parsed(qr, persistOptions), data)
      BY <1>9, <2>3 DEF ScanSettingsQR
    <3>2. qr \in Seq(Range(qr)) /\ data \in Settings /\ persistOptions \in {BothOptions, OnlyDisabled}
      BY <1>9, SettingsAssumption DEF Sound, TypeOK
    <3>3. /\ IsPlace(QrPlace(qr)) /\ IsGiven(Parsed(qr, persistOptions))
          /\ persistOptions = OnlyDisabled => Complete(Parsed(qr, persistOptions), data)[P] = Disabled
      BY <2>3, <3>2, QrPlaces, QrGiven
    <3>4. /\ todo' \in Seq(Calls) /\ Len(todo') = 4
          /\ \A i \in 1 .. 4 : todo'[i] = <<todo'[i][1], Complete(Parsed(qr, persistOptions), data)[todo'[i][1]]>>
      BY <3>1, <3>2, <3>3, Updates
    <3>5. ASSUME persistOptions = OnlyDisabled, <<P, Enabled>> \in Range(todo') PROVE FALSE
      <4>1. PICK i \in DOMAIN todo' : todo'[i] = <<P, Enabled>>
        BY <3>5 DEF Range
      <4>2. i \in 1 .. 4 /\ todo'[i][1] = P
        BY <3>4, <4>1
      <4>3. <<P, Enabled>> = <<P, Disabled>>
        BY <3>3, <3>4, <3>5, <4>1, <4>2
      <4> QED BY <4>3, Defaults
    <3> QED BY <2>1, <3>5, UntouchedKeeps
  <2> QED BY <2>2, <2>3
<1> QED BY <1>2, <1>3, <1>4, <1>5, <1>6, <1>7, <1>8, <1>9 DEF UserStep

\* A card that comes or goes is told to the thread, or nothing is claimed.
LEMMA WorldKeeps ==
  ASSUME Sound, Keeps, WorldStep PROVE Keeps'
<1> USE DEF Threads
<1>1. /\ fifo \in Seq({"add", "remove"}) /\ NoCard \notin Cards
      /\ handle \in [Threads -> Cards \union {NoCard}]
  BY SettingsAssumption DEF Sound, TypeOK
\* What mdev tells is the last event that waits, or it is not heard.
<1>2. ASSUME NEW event \in {"add", "remove"}, Tells(event), power = "on", ~unheard'
      PROVE  /\ ~unheard /\ fifo' = Append(fifo, event) /\ fifo' # << >>
             /\ fifo'[Len(fifo')] = event /\ Range(fifo') = Range(fifo) \union {event}
  <2>1. ~unheard /\ fifo' = Append(fifo, event)
    BY <1>2 DEF Tells
  <2>2. /\ Len(fifo') = Len(fifo) + 1 /\ fifo'[Len(fifo) + 1] = event
        /\ \A i \in 1 .. Len(fifo) : fifo'[i] = fifo[i]
        /\ fifo' # << >> /\ DOMAIN fifo' = 1 .. Len(fifo) + 1
    BY <1>1, <2>1, AppendProperties
  <2>3. Range(fifo') = Range(fifo) \union {event}
    BY <1>1, <2>2 DEF Range
  <2> QED BY <2>1, <2>2, <2>3
<1>3. ASSUME NEW event, Tells(event), power # "on" PROVE fifo' = fifo
  BY <1>3 DEF Tells
<1>4. ASSUME NEW c \in Cards, InsertCard(c) PROVE Keeps'
  <2>1. /\ inserted = NoCard /\ inserted' = c /\ c # NoCard /\ Tells("add")
        /\ UNCHANGED <<power, data, persistOptions, file, todo, saver, handle, sd, fifoMade,
                       crossed>>
    BY <1>1, <1>4 DEF InsertCard, CardMoves
  <2>2. HoldsOrWill'
    <3> SUFFICES ASSUME power = "on", data[P] = Enabled, ~unheard', ~crossed PROVE Pending'
      BY <2>1 DEF HoldsOrWill
    <3>1. ~unheard /\ fifo' # << >> /\ Range(fifo') = Range(fifo) \union {"add"}
      BY <1>2, <2>1
    <3>2. CASE fifo # << >>
      <4>1. fifo[Len(fifo)] = "remove" /\ Len(fifo) \in DOMAIN fifo
        BY <1>1, <2>1, <3>1, <3>2 DEF Keeps, LastSaysSo
      <4>2. "remove" \in Range(fifo')
        BY <3>1, <4>1 DEF Range
      <4> QED BY <4>2 DEF Pending
    <3>3. CASE fifo = << >>
      <4>1. sd = "start"
        BY <2>1, <3>1, <3>3 DEF Keeps, NoCardNoPersistence
      <4>2. ~fifoMade'
        BY <2>1, <4>1 DEF Keeps, Handles
      <4> QED BY <3>1, <4>2 DEF Pending
    <3> QED BY <3>2, <3>3
  <2>3. LastSaysSo'
    BY <1>2, <1>3, <2>1 DEF Keeps, LastSaysSo
  <2>4. NoCardNoPersistence'
    BY <2>1 DEF NoCardNoPersistence
  <2> QED BY <2>1, <2>2, <2>3, <2>4 DEF Keeps, Handles
<1>5. CASE PullCard
  <2>1. /\ inserted' = NoCard /\ Tells("remove") /\ handle' = [t \in Threads |-> NoCard]
        /\ UNCHANGED <<power, data, persistOptions, file, todo, saver, sd, fifoMade, crossed>>
    BY <1>5 DEF PullCard, CardMoves
  <2>2. HoldsOrWill'
    BY <2>1 DEF HoldsOrWill
  <2>3. LastSaysSo'
    BY <1>2, <1>3, <2>1 DEF Keeps, LastSaysSo
  <2>4. NoCardNoPersistence'
    BY <1>2, <2>1 DEF NoCardNoPersistence
  <2> QED BY <2>1, <2>2, <2>3, <2>4 DEF Keeps, Handles
<1>6. CASE Boot
  <2>1. /\ power = "off" /\ data' = get_defaults
        /\ UNCHANGED <<inserted, file, saver, handle, fifoMade, fifo>>
        /\ power' \in {"failed", "booting", "on"}
        /\ power' = "on" => sd' = "start"
        /\ power' # "on" => UNCHANGED sd
    BY <1>6 DEF Boot
  <2>2. sd = "off" /\ fifo = << >> /\ ~fifoMade
    BY <2>1 DEF Sound, TypeOK, Busy, Keeps, LastSaysSo, Handles
  <2>3. data'[P] # Enabled
    BY <2>1, Defaults
  <2> QED BY <2>1, <2>2, <2>3 DEF Keeps, HoldsOrWill, LastSaysSo, NoCardNoPersistence, Handles
<1>7. CASE CutPower
  BY <1>7 DEF CutPower, Keeps, HoldsOrWill, LastSaysSo, NoCardNoPersistence, Handles
<1> QED BY <1>4, <1>5, <1>6, <1>7 DEF WorldStep

\* Every step keeps the file as it should be.
LEMMA NextKeeps ==
  ASSUME Sound, Keeps, [Next]_vars PROVE Keeps'
<1>1. CASE UNCHANGED vars
  BY <1>1
     DEF vars, mainVars, sdVars, Keeps, HoldsOrWill, Pending, LastSaysSo, NoCardNoPersistence,
         Handles
<1> QED BY <1>1, MainKeeps, SdKeeps, UserKeeps, WorldKeeps DEF Next

\* With the power off nothing is claimed of the file.
LEMMA InitKeeps ==
  ASSUME Init PROVE Keeps
  BY DEF Init, Keeps, HoldsOrWill, LastSaysSo, NoCardNoPersistence, Handles, Threads

\* At rest nothing is pending, so the file holds the settings.
LEMMA KeepsTheFile ==
  ASSUME Sound, Keeps PROVE FileHoldsTheSettings
<1> SUFFICES ASSUME AtRest, data[P] = Enabled, inserted # NoCard, ~unheard, ~crossed
             PROVE  file[inserted] = data
  BY DEF FileHoldsTheSettings
<1>1. power = "on" /\ fifo = << >> /\ \A t \in Threads : saver[t] = "idle"
  BY DEF AtRest, Idle
<1>2. ~Pending
  BY <1>1 DEF Pending, Range
<1> QED BY <1>1, <1>2 DEF Keeps, HoldsOrWill

-----------------------------------------------------------------------------
(* Where the calls of the main thread lead. *)

\* Of the settings in A, those that are not yet as in target are among the calls
\* still to make, and these make them so.
OnTheWay(target, A) ==
  /\ \A x \in Range(todo) : x[1] \in A => x[2] = target[x[1]]
  /\ \A a \in A : data[a] = target[a] \/ \E x \in Range(todo) : x[1] = a
  /\ saver["main"] \in {"check", "open", "write"} /\ Head(todo)[1] \in A =>
       data[Head(todo)[1]] = Head(todo)[2]

\* The first call is one of them, and what is not the first is among the others.
LEMMA HeadAndTail ==
  ASSUME TypeOK, todo # << >>
  PROVE  Head(todo) \in Range(todo) /\ Range(todo) \subseteq Range(Tail(todo)) \union {Head(todo)}
<1>1. /\ todo \in Seq(Calls) /\ Len(todo) \in Nat \ {0} /\ Head(todo) = todo[1]
      /\ Tail(todo) \in Seq(Calls) /\ Len(Tail(todo)) = Len(todo) - 1
      /\ \A i \in 1 .. Len(todo) - 1 : Tail(todo)[i] = todo[i + 1]
  BY HeadTailProperties, EmptySeq DEF TypeOK
<1>2. Head(todo) \in Range(todo)
  BY <1>1 DEF Range
<1>3. ASSUME NEW i \in DOMAIN todo, i # 1 PROVE todo[i] \in Range(Tail(todo))
  <2>1. i - 1 \in 1 .. Len(todo) - 1 /\ i - 1 + 1 = i
    BY <1>1, <1>3
  <2>2. i - 1 \in DOMAIN Tail(todo) /\ Tail(todo)[i - 1] = todo[i]
    BY <1>1, <2>1
  <2> QED BY <2>2 DEF Range
<1>4. \A x \in Range(todo) : \E i \in DOMAIN todo : x = todo[i]
  BY DEF Range
<1> QED BY <1>1, <1>2, <1>3, <1>4

\* The settings as they are after a step that assigns nothing are as far.
LEMMA StillOnTheWay ==
  ASSUME NEW target, NEW A, OnTheWay(target, A), UNCHANGED todo, \A a \in A : data'[a] = data[a],
         saver'["main"] \in {"check", "open", "write"} => saver["main"] \in {"check", "open", "write"}
  PROVE  OnTheWay(target, A)'
  BY DEF OnTheWay

\* A setting is assigned what its call says.
LEMMA AssignOnTheWay ==
  ASSUME NEW target, NEW A \in SUBSET Attrs, Sound, OnTheWay(target, A), Assign
  PROVE  OnTheWay(target, A)'
<1>1. todo # << >> /\ data' = [data EXCEPT ![Head(todo)[1]] = Head(todo)[2]] /\ todo' = todo
  BY DEF Assign
<1>2. data \in [Attrs -> UNION {Values(a) : a \in Attrs}] /\ Head(todo) \in Range(todo)
  BY <1>1, HeadAndTail DEF Sound, TypeOK, Settings
<1>3. \A a \in Attrs : data'[a] = IF a = Head(todo)[1] THEN Head(todo)[2] ELSE data[a]
  BY <1>1, <1>2
<1> QED BY <1>1, <1>2, <1>3 DEF OnTheWay

\* The call that returns has done its part.
LEMMA ReturnsOnTheWay ==
  ASSUME NEW target, NEW A \in SUBSET Attrs, Sound, OnTheWay(target, A), Returns,
         saver["main"] \in {"check", "write"}, UNCHANGED data
  PROVE  OnTheWay(target, A)'
<1>1. todo # << >> /\ todo' = Tail(todo) /\ saver'["main"] = "idle"
  BY DEF Sound, TypeOK, Busy, Returns, Threads
<1>2. /\ \A x \in Range(Tail(todo)) : x \in Range(todo)
      /\ Head(todo) \in Range(todo) /\ Range(todo) \subseteq Range(Tail(todo)) \union {Head(todo)}
  BY <1>1, TailTypes, HeadAndTail DEF Sound
<1> QED BY <1>1, <1>2 DEF OnTheWay

\* What Settings.update has to do leads where it is said to.
LEMMA UpdateOnTheWay ==
  ASSUME NEW target, NEW A \in SUBSET Attrs, Sound, saver'["main"] = "idle",
         NEW place, IsPlace(place), NEW given, IsGiven(given), NEW d \in Settings,
         todo' = UpdateCalls(place, given, d),
         \A a \in A : Complete(given, d)[a] = target[a]
  PROVE  OnTheWay(target, A)'
<1>1. /\ todo' \in Seq(Calls) /\ Len(todo') = 4
      /\ \A i \in 1 .. 4 : todo'[i][1] \in Attrs /\ todo'[i] = <<todo'[i][1], Complete(given, d)[todo'[i][1]]>>
      /\ \A a \in Attrs : \E i \in 1 .. 4 : todo'[i][1] = a
  BY Updates
<1>2. DOMAIN todo' = 1 .. 4
  BY <1>1
<1>3. \A x \in Range(todo') : x[1] \in A => x[2] = target[x[1]]
  BY <1>1, <1>2 DEF Range
<1>4. \A a \in A : \E x \in Range(todo') : x[1] = a
  BY <1>1, <1>2 DEF Range
<1> QED BY <1>3, <1>4 DEF OnTheWay

-----------------------------------------------------------------------------
(* A SettingsQR. *)

\* The parser refuses what is malformed and nothing else: where persistence cannot
\* be enabled, a value that enables it is not refused.
LEMMA RefusedIsMalformed ==
  ASSUME NEW qr, NEW opts \in {BothOptions, OnlyDisabled}
  PROVE  Malformed(qr) <=> \E i \in DOMAIN qr : EntryRaises(qr[i], opts)
<1>1. /\ opts = OnlyDisabled => Range(opts) = {"D"}
      /\ opts = BothOptions => Range(opts) = {"E", "D"}
  <2>1. DOMAIN OnlyDisabled = {1} /\ DOMAIN BothOptions = {1, 2}
    BY DEF OnlyDisabled, BothOptions
  <2> QED BY <2>1 DEF Range, OnlyDisabled, BothOptions
<1>2. ~IsHidden(P)
  BY DEF IsHidden, P
<1>3. ASSUME NEW e
      PROVE  EntryRaises(e, opts) <=>
               \/ ~e.split \/ e.value = {}
               \/ e.attr \in Attrs /\ (IsHidden(e.attr) \/ e.value \notin Values(e.attr))
  BY <1>1, <1>2 DEF EntryRaises, CannotEnable, Values
<1> QED BY <1>3 DEF Malformed

\* And what it makes of the rest is what is meant.
LEMMA ParsedIsMeant ==
  ASSUME NEW qr, qr \in Seq(Range(qr)), NEW opts \in {BothOptions, OnlyDisabled}, NEW d \in Settings,
         ~Malformed(qr), NEW a \in Attrs \ {P}
  PROVE  Complete(Parsed(qr, opts), d)[a] = Meant(qr, d)[a]
<1> DEFINE given == Parsed(qr, opts)
<1>1. DOMAIN given = Given(qr) /\ (a \in Given(qr) <=> \E i \in DOMAIN qr : qr[i].attr = a)
  BY DEF Parsed, Given
<1>2. CASE a \notin Given(qr)
  BY <1>1, <1>2 DEF Complete, Meant
<1>3. CASE a \in Given(qr)
  <2> DEFINE n == Latest(qr, a)
  <2>1. n \in DOMAIN qr /\ qr[n].attr = a /\ \A j \in DOMAIN qr : qr[j].attr = a => j <= n
    BY <1>1, <1>3, FirstAndLatest
  <2>2. given[a] = qr[n].value /\ qr[n].value # {}
    BY <1>3, <2>1 DEF Parsed, CannotEnable, Malformed
  <2>3. DOMAIN qr = 1 .. Len(qr) /\ Len(qr) \in Nat
    OBVIOUS
  <2> HIDE DEF n
  <2>4. GivenLast(qr, a, qr[n].value)
    <3>1. \A j \in DOMAIN qr : j > n => ~(j <= n)
      BY <2>1, <2>3
    <3> QED BY <2>1, <3>1 DEF GivenLast
  <2>5. ASSUME NEW v, GivenLast(qr, a, v) PROVE v = qr[n].value
    <3>1. PICK i \in DOMAIN qr : qr[i].attr = a /\ qr[i].value = v /\ \A j \in DOMAIN qr : j > i => qr[j].attr # a
      BY <2>5 DEF GivenLast
    <3>2. i <= n /\ ~(n > i)
      BY <2>1, <3>1
    <3>3. i = n
      BY <2>1, <2>3, <3>2
    <3> QED BY <3>1, <3>3
  <2>6. (CHOOSE v \in {qr[i].value : i \in DOMAIN qr} : GivenLast(qr, a, v)) = qr[n].value
    BY <2>1, <2>4, <2>5
  <2>7. Meant(qr, d)[a] = qr[n].value
    BY <1>1, <1>3, <2>6 DEF Meant
  <2>8. Complete(given, d)[a] = qr[n].value
    BY <1>1, <1>3, <2>2 DEF Complete
  <2> QED BY <2>7, <2>8
<1> QED BY <1>2, <1>3

\* A SettingsQR leads to what it means, persistence aside.
Means == job.qr => OnTheWay(job.meant, Attrs \ {P})

\* No SettingsQR was scanned yet.
LEMMA InitMeans ==
  ASSUME Init PROVE Means
  BY DEF Init, Means, NoJob

\* Only a scan sets a new aim; a save that raises, or another change, gives it up.
LEMMA NextMeans ==
  ASSUME Sound, Means, [Next]_vars PROVE Means'
<1> USE DEF Threads
<1>1. Attrs \ {P} \in SUBSET Attrs /\ (Attrs \ {P})' = Attrs \ {P}
  BY DEF Attrs, Entries, P, Range
<1>2. ASSUME UNCHANGED <<todo, job>>, \A a \in Attrs \ {P} : data'[a] = data[a],
             saver'["main"] \in {"check", "open", "write"} => saver["main"] \in {"check", "open", "write"}
      PROVE  Means'
  BY <1>1, <1>2, StillOnTheWay DEF Means
<1>3. ASSUME job' = NoJob PROVE Means'
  BY <1>3 DEF Means, NoJob
<1>4. ASSUME Returns, saver["main"] \in {"check", "write"}, UNCHANGED <<data, job>> PROVE Means'
  BY <1>1, <1>4, ReturnsOnTheWay DEF Means
<1>5. /\ saver \in [Threads -> {"idle", "assign", "check", "open", "write"}]
      /\ data \in [Attrs -> UNION {Values(a) : a \in Attrs}]
  BY DEF Sound, TypeOK, Settings
<1>6. ASSUME MainStep PROVE Means'
  <2>1. CASE RemoveFile
    BY <1>2, <1>5, <2>1 DEF RemoveFile
  <2>2. CASE Assign
    <3>1. UNCHANGED job
      BY <2>2 DEF Assign
    <3> QED BY <1>1, <2>2, <3>1, AssignOnTheWay DEF Means
  <2>3. CASE SaveCheck("main")
    <3>1. CASE data[P] = Enabled /\ inserted # NoCard
      BY <1>2, <1>5, <2>3, <3>1 DEF SaveCheck
    <3>2. CASE ~(data[P] = Enabled /\ inserted # NoCard)
      BY <1>4, <2>3, <3>2 DEF SaveCheck
    <3> QED BY <3>1, <3>2
  <2>4. CASE SaveOpen("main")
    <3>1. CASE inserted = NoCard
      BY <1>3, <2>4, <3>1 DEF SaveOpen, Raises
    <3>2. CASE inserted # NoCard
      BY <1>2, <1>5, <2>4, <3>2 DEF SaveOpen
    <3> QED BY <3>1, <3>2
  <2>5. CASE SaveWrite("main")
    <3>1. CASE handle["main"] = NoCard
      BY <1>3, <2>5, <3>1 DEF SaveWrite, Raises
    <3>2. CASE handle["main"] # NoCard
      BY <1>4, <2>5, <3>2 DEF SaveWrite
    <3> QED BY <3>1, <3>2
  <2> QED BY <1>6, <2>1, <2>2, <2>3, <2>4, <2>5 DEF MainStep
<1>7. ASSUME SdStep PROVE Means'
  <2>1. UNCHANGED <<todo, job>> /\ saver'["main"] = saver["main"]
    BY <1>5, <1>7 DEF SdStep, SdStart, SdMakesFifo, SdReads, SdLooksForFile, SdEnables,
                      SaveCheck, SaveOpen, SaveWrite, Raises, mainVars
  <2>2. \E x : data' \in {data, [data EXCEPT ![P] = x]}
    BY <1>7 DEF SdStep, SdStart, SdMakesFifo, SdReads, SdLooksForFile, SdEnables,
                SaveCheck, SaveOpen, SaveWrite, Inserted, Removed
  <2>3. \A a \in Attrs \ {P} : data'[a] = data[a]
    BY <1>5, <2>2
  <2> QED BY <1>2, <2>1, <2>3
<1>8. ASSUME UserStep PROVE Means'
  <2>1. UNCHANGED <<data, saver>>
    BY <1>8 DEF UserStep, OpenEntry, Pick, BackFromEntry, ReturnToSetting, Continue,
                SettingsOfBlocked, SaveBrightness, ScanSettingsQR, Untouched
  <2>2. CASE \E qr \in SettingsQRs : ScanSettingsQR(qr)
    <3>1. PICK qr \in SettingsQRs : ScanSettingsQR(qr)
      BY <2>2
    <3>2. /\ job' = [qr |-> TRUE, meant |-> Meant(qr, data)] /\ MainIsFree
          /\ IF \E i \in DOMAIN qr : EntryRaises(qr[i], persistOptions)
             THEN UNCHANGED todo
             ELSE todo' = UpdateCalls(QrPlace(qr), Parsed(qr, persistOptions), data)
      BY <3>1 DEF ScanSettingsQR
    <3>3. qr \in Seq(Range(qr)) /\ data \in Settings /\ persistOptions \in {BothOptions, OnlyDisabled}
      BY SettingsAssumption DEF Sound, TypeOK
    <3>4. saver'["main"] = "idle" /\ todo = << >>
      BY <1>5, <2>1, <3>2 DEF MainIsFree, Sound, Busy
    <3>5. CASE Malformed(qr)
      <4>1. todo' = << >> /\ job'.meant = data
        BY <3>2, <3>3, <3>4, <3>5, RefusedIsMalformed DEF Meant
      <4>2. Range(todo') = {}
        BY <4>1 DEF Range
      <4> QED BY <2>1, <3>4, <4>1, <4>2 DEF Means, OnTheWay
    <3>6. CASE ~Malformed(qr)
      <4>1. \A i \in DOMAIN qr : ~EntryRaises(qr[i], persistOptions)
        BY <3>3, <3>6, RefusedIsMalformed
      <4>2. IsPlace(QrPlace(qr)) /\ IsGiven(Parsed(qr, persistOptions))
        BY <3>3, <4>1, QrPlaces, QrGiven
      <4>3. \A a \in Attrs \ {P} : Complete(Parsed(qr, persistOptions), data)[a] = Meant(qr, data)[a]
        BY <3>3, <3>6, ParsedIsMeant
      <4>4. todo' = UpdateCalls(QrPlace(qr), Parsed(qr, persistOptions), data)
        BY <3>2, <4>1
      <4>5. \A m : m = Meant(qr, data) => OnTheWay(m, Attrs \ {P})'
        BY <1>1, <3>3, <3>4, <4>2, <4>3, <4>4, UpdateOnTheWay
      <4> QED BY <1>1, <3>2, <4>5 DEF Means, OnTheWay
    <3> QED BY <3>5, <3>6
  <2>3. CASE ~\E qr \in SettingsQRs : ScanSettingsQR(qr)
    <3>1. job' = NoJob \/ UNCHANGED <<todo, job>>
      BY <1>8, <2>3 DEF UserStep, OpenEntry, Pick, BackFromEntry, ReturnToSetting, Continue,
                        SettingsOfBlocked, SaveBrightness
    <3> QED BY <1>2, <1>3, <2>1, <3>1
  <2> QED BY <2>2, <2>3
<1>9. ASSUME WorldStep PROVE Means'
  <2>1. job' = NoJob \/ UNCHANGED <<todo, job, data, saver>>
    BY <1>9 DEF WorldStep, InsertCard, PullCard, CardMoves, Boot, CutPower
  <2> QED BY <1>2, <1>3, <2>1
<1>10. CASE UNCHANGED vars
  BY <1>2, <1>10 DEF vars, mainVars
<1> QED BY <1>6, <1>7, <1>8, <1>9, <1>10 DEF Next

-----------------------------------------------------------------------------
(* What a boot brings back. *)

HistoryOK == saved \in [Cards -> Settings \union {NoFile}] /\ bootCut \in [Cards -> BOOLEAN]

\* The file of a card that is not being started from is as it is remembered.
Kept ==
  \A c \in Cards : saved[c] # NoFile /\ ~bootCut[c] /\ ~(Starting /\ c = inserted) => file[c] = saved[c]

\* A start from a card leads to what is remembered of it.
Recalls ==
  power = "booting" /\ inserted # NoCard /\ saved[inserted] # NoFile /\ ~bootCut[inserted] =>
    /\ OnTheWay(Restored(saved[inserted]), Attrs)
    /\ saver["main"] = "write" => handle["main"] = inserted

Remembers == HistoryOK /\ Kept /\ Recalls

\* What Remember does for one card.
LEMMA CardHistory ==
  ASSUME HistoryOK, Sound', Remember
  PROVE  /\ HistoryOK'
         /\ \A c \in Cards :
              /\ c # inserted' \/ power' \in {"off", "failed"} => saved'[c] = saved[c]
              /\ c = inserted' /\ power' \notin {"off", "failed"} =>
                   \/ saved'[c] = NoFile
                   \/ AtRest' /\ data'[P] = Enabled /\ ~crossed' /\ ~unheard' /\ saved'[c] = data'
                   \/ /\ ~AtRest' /\ Starting' /\ inserted = c /\ saved'[c] = saved[c]
                      /\ power' = "on" => todo' = << >>
              /\ ~bootCut'[c] =>
                   \/ c = inserted' /\ AtRest'
                   \/ ~bootCut[c] /\ ~(Starting /\ c = inserted /\ (power' = "off" \/ inserted' # c))
<1>1. data' \in Settings
  BY DEF Sound, TypeOK
<1> DEFINE Recorded(c) ==
       IF c # inserted' \/ power' \in {"off", "failed"} THEN saved[c]
       ELSE IF AtRest' THEN IF data'[P] = Enabled /\ ~crossed' /\ ~unheard' THEN data' ELSE NoFile
       ELSE IF Starting' /\ inserted = c /\ (power' = "on" => todo' = << >>) THEN saved[c]
       ELSE NoFile
<1>2. saved' = [c \in Cards |-> Recorded(c)]
  BY DEF Remember
<1>3. saved' \in [Cards -> Settings \union {NoFile}]
  BY <1>1, <1>2 DEF HistoryOK
<1>4. bootCut' = [c \in Cards |->
         IF c = inserted' /\ AtRest' THEN FALSE
         ELSE bootCut[c] \/ (Starting /\ c = inserted /\ (power' = "off" \/ inserted' # c))]
  BY DEF Remember
<1>5. bootCut' \in [Cards -> BOOLEAN]
  BY <1>4 DEF HistoryOK
<1>6. ASSUME NEW c \in Cards, ~bootCut'[c]
      PROVE  \/ c = inserted' /\ AtRest'
             \/ ~bootCut[c] /\ ~(Starting /\ c = inserted /\ (power' = "off" \/ inserted' # c))
  BY <1>4, <1>6
<1> QED BY <1>2, <1>3, <1>5, <1>6 DEF HistoryOK

\* Every step keeps the history.
LEMMA EveryStepRemembers ==
  ASSUME Next PROVE Remember
  BY DEF Next, MainStep, SdStep, UserStep, WorldStep, RemoveFile, Assign, SaveCheck, SaveOpen,
         SaveWrite, SdStart, SdMakesFifo, SdReads, SdLooksForFile, SdEnables, OpenEntry, Pick,
         BackFromEntry, ReturnToSetting, Continue, SettingsOfBlocked, SaveBrightness,
         ScanSettingsQR, InsertCard, PullCard, Boot, CutPower

\* Only the file of the card that is in is written, and only while the power is on.
LEMMA FileSteps ==
  ASSUME Sound, Keeps, Next, NEW c \in Cards, file'[c] # file[c]
  PROVE  c = inserted /\ inserted' = inserted /\ power' \notin {"off", "failed"}
<1> USE DEF Threads
<1>1. /\ file \in [Cards -> Settings \union {NoFile, Torn}]
      /\ power \in {"off", "failed"} => todo = << >> /\ sd = "off"
      /\ saver["sd"] # "idle" => sd = "saving"
      /\ saver["main"] # "idle" => todo # << >>
      /\ \A t \in Threads : handle[t] \in {NoCard, inserted}
  BY DEF Sound, TypeOK, Busy, Keeps, Handles
<1>2. CASE RemoveFile
  BY <1>1, <1>2 DEF RemoveFile
<1>3. ASSUME NEW t \in Threads, SaveOpen(t) \/ SaveWrite(t)
      PROVE  c = inserted /\ inserted' = inserted /\ power' \notin {"off", "failed"}
  <2>1. power \notin {"off", "failed"}
    BY <1>1, <1>3 DEF SaveOpen, SaveWrite
  <2>2. CASE SaveOpen(t)
    BY <1>1, <2>1, <2>2 DEF SaveOpen
  <2>3. CASE SaveWrite(t)
    <3>1. handle[t] # NoCard
      BY <2>3 DEF SaveWrite
    <3>2. PICK content : file' = [file EXCEPT ![handle[t]] = content]
      BY <2>3, <3>1 DEF SaveWrite
    <3>3. c = inserted /\ inserted' = inserted
      BY <1>1, <2>3, <3>1, <3>2 DEF SaveWrite
    <3>4. power' \in {power, "on"}
      BY <2>3, <3>1 DEF SaveWrite, Returns
    <3> QED BY <2>1, <3>3, <3>4
  <2> QED BY <1>3, <2>2, <2>3
<1>4. CASE ~RemoveFile /\ ~\E t \in Threads : SaveOpen(t) \/ SaveWrite(t)
  <2>1. UNCHANGED file
    BY <1>4 DEF Next, MainStep, SdStep, UserStep, WorldStep, Assign, SaveCheck,
         SdStart, SdMakesFifo, SdReads, SdLooksForFile, SdEnables, OpenEntry, Pick,
         BackFromEntry, ReturnToSetting, Continue, SettingsOfBlocked, SaveBrightness,
         ScanSettingsQR, InsertCard, PullCard, CardMoves, Boot, CutPower, Untouched
  <2> QED BY <2>1
<1> QED BY <1>2, <1>3, <1>4

\* While it boots, what the main thread does with the settings is all that is done.
LEMMA BootingSteps ==
  ASSUME Sound, Next, power = "booting"
  PROVE  \/ MainStep \/ CutPower
         \/ UNCHANGED <<power, data, todo, saver>> /\ (UNCHANGED <<inserted, handle>> \/ PullCard \/ inserted = NoCard)
<1>1. sd = "off" /\ saver["sd"] = "idle"
  BY DEF Sound, TypeOK, Busy
<1>2. ~SdStep
  BY <1>1 DEF SdStep, SdStart, SdMakesFifo, SdReads, SdLooksForFile, SdEnables,
              SaveCheck, SaveOpen, SaveWrite
<1>3. ~UserStep
  BY DEF UserStep, OpenEntry, Pick, BackFromEntry, ReturnToSetting, Continue,
         SettingsOfBlocked, SaveBrightness, ScanSettingsQR, MainIsFree
<1>4. ~Boot
  BY DEF Boot
<1> QED BY <1>2, <1>3, <1>4 DEF Next, WorldStep, InsertCard, PullCard, CardMoves

\* A step of the main thread goes on, or it fails for want of a card.
LEMMA MainGoesOn ==
  ASSUME Sound, NEW target, OnTheWay(target, Attrs), MainStep, inserted # NoCard,
         saver["main"] = "write" => handle["main"] = inserted
  PROVE  /\ OnTheWay(target, Attrs)' /\ UNCHANGED inserted
         /\ saver'["main"] = "write" => handle'["main"] = inserted'
         /\ power' \in {power, "on"}
         /\ power = "booting" /\ power' = "on" => todo' = << >>
<1> USE DEF Threads
<1>1. /\ saver \in [Threads -> {"idle", "assign", "check", "open", "write"}]
      /\ handle \in [Threads -> Cards \union {NoCard}]
      /\ Attrs \in SUBSET Attrs
  BY DEF Sound, TypeOK
<1>2. ASSUME Returns, saver["main"] \in {"check", "write"}, UNCHANGED <<data, inserted>>
      PROVE  /\ OnTheWay(target, Attrs)' /\ UNCHANGED inserted
             /\ saver'["main"] = "write" => handle'["main"] = inserted'
             /\ power' \in {power, "on"}
             /\ power = "booting" /\ power' = "on" => todo' = << >>
  <2>1. OnTheWay(target, Attrs)'
    BY <1>1, <1>2, ReturnsOnTheWay
  <2>2. saver'["main"] = "idle" /\ power' \in {power, "on"}
    BY <1>1, <1>2 DEF Returns
  <2>3. todo # << >> /\ todo' = Tail(todo) /\ (Len(todo) > 1 <=> Tail(todo) # << >>)
    BY <1>2, TailTypes DEF Sound, Busy, Returns
  <2>4. power = "booting" /\ power' = "on" => todo' = << >>
    BY <1>2, <2>3 DEF Returns
  <2> QED BY <1>2, <2>1, <2>2, <2>4
<1>3. CASE RemoveFile
  BY <1>1, <1>3, StillOnTheWay DEF RemoveFile
<1>4. CASE Assign
  BY <1>1, <1>4, AssignOnTheWay DEF Assign
<1>5. CASE SaveCheck("main")
  <2>1. CASE data[P] = Enabled
    BY <1>1, <1>5, <2>1, StillOnTheWay DEF SaveCheck
  <2>2. CASE data[P] # Enabled
    BY <1>2, <1>5, <2>2 DEF SaveCheck
  <2> QED BY <2>1, <2>2
<1>6. CASE SaveOpen("main")
  BY <1>1, <1>6, StillOnTheWay DEF SaveOpen
<1>7. CASE SaveWrite("main")
  <2>1. saver["main"] = "write" /\ handle["main"] # NoCard
    BY <1>7 DEF SaveWrite
  <2> QED BY <1>2, <1>7, <2>1 DEF SaveWrite
<1> QED BY <1>3, <1>4, <1>5, <1>6, <1>7 DEF MainStep

\* A whole dict is taken as it is, but for an empty multiselect.
LEMMA CompleteIsRestored ==
  ASSUME NEW d \in Settings, NEW e \in Settings
  PROVE  IsGiven(d) /\ \A a \in Attrs : Complete(d, e)[a] = Restored(d)[a]
  BY DEF IsGiven, Settings, Complete, Restored

\* No start from a card that is remembered fails over it.
LEMMA NoStartFails ==
  ASSUME Sound, Remembers, Next, power \in {"off", "booting"}, power' = "failed",
         inserted \in Cards, saved[inserted] # NoFile, ~bootCut[inserted]
  PROVE  FALSE
<1>1. NoCard \notin Cards /\ inserted # NoCard
  BY SettingsAssumption
<1>2. CASE power = "booting"
  <2>1. MainStep
    BY <1>1, <1>2, BootingSteps DEF CutPower
  <2> QED BY <1>1, <1>2, <2>1, MainGoesOn DEF Remembers, Recalls
<1>3. CASE power = "off"
  <2>1. file[inserted] = saved[inserted] /\ saved[inserted] \in Settings
    BY <1>3 DEF Remembers, Kept, HistoryOK, Starting
  <2>2. todo = << >> /\ sd = "off" /\ saver["sd"] = "idle" /\ saver["main"] = "idle"
    BY <1>3 DEF Sound, TypeOK, Busy
  <2>3. ~Boot
    BY <1>1, <2>1, FileAssumption DEF Boot
  <2>4. ~MainStep
    BY <2>2 DEF MainStep, RemoveFile, Assign, SaveCheck, SaveOpen, SaveWrite
  <2>5. ~SdStep
    BY <2>2 DEF SdStep, SdStart, SdMakesFifo, SdReads, SdLooksForFile, SdEnables,
                SaveCheck, SaveOpen, SaveWrite
  <2>6. ~UserStep
    BY <1>3 DEF UserStep, OpenEntry, Pick, BackFromEntry, ReturnToSetting, Continue,
                SettingsOfBlocked, SaveBrightness, ScanSettingsQR, MainIsFree
  <2> QED BY <1>3, <2>3, <2>4, <2>5, <2>6
             DEF Next, WorldStep, InsertCard, PullCard, CardMoves, CutPower
<1> QED BY <1>2, <1>3

\* Nothing is remembered yet.
LEMMA InitRemembers ==
  ASSUME Init PROVE Remembers
  BY DEF Init, Remembers, HistoryOK, Kept, Recalls

\* A card is remembered as it is at rest, and then let go of as it is.
LEMMA NextKept ==
  ASSUME Sound, Keeps, Sound', FileHoldsTheSettings', Remembers, Next PROVE Kept'
<1> SUFFICES ASSUME NEW c \in Cards, saved'[c] # NoFile, ~bootCut'[c], ~(Starting' /\ c = inserted')
             PROVE  file'[c] = saved'[c]
  BY DEF Kept
<1>1. c # NoCard
  BY SettingsAssumption
<1>2. Remember /\ HistoryOK
  BY EveryStepRemembers DEF Remembers
<1>3. CASE c = inserted' /\ power' \notin {"off", "failed"}
  <2>1. AtRest' /\ data'[P] = Enabled /\ ~crossed' /\ ~unheard' /\ saved'[c] = data'
    BY <1>2, <1>3, CardHistory
  <2> QED BY <1>1, <1>3, <2>1 DEF FileHoldsTheSettings
<1>4. CASE c # inserted' \/ power' \in {"off", "failed"}
  <2>1. saved'[c] = saved[c]
    BY <1>2, <1>4, CardHistory
  <2>2. ~(c = inserted' /\ AtRest')
    BY <1>4 DEF AtRest
  <2>3. ~bootCut[c] /\ ~(Starting /\ c = inserted /\ (power' = "off" \/ inserted' # c))
    BY <1>2, <2>2, CardHistory
  <2>4. ~(Starting /\ c = inserted)
    <3> SUFFICES ASSUME Starting, c = inserted PROVE FALSE
      OBVIOUS
    <3>1. power' = "failed" /\ power \in {"booting", "on"}
      BY <1>4, <2>3 DEF Starting
    <3>2. power = "booting"
      <4>1. power = "on" => power' \in {"on", "off"}
        BY DEF Next, MainStep, SdStep, UserStep, WorldStep, RemoveFile, Assign, SaveCheck,
               SaveOpen,
               SaveWrite, Returns, Raises, SdStart, SdMakesFifo, SdReads, SdLooksForFile, SdEnables,
               OpenEntry, Pick, BackFromEntry, ReturnToSetting, Continue, SettingsOfBlocked,
               SaveBrightness, ScanSettingsQR, InsertCard, PullCard, CardMoves, Boot, CutPower, Untouched
      <4> QED BY <3>1, <4>1
    <3> QED BY <2>1, <2>3, <3>1, <3>2, NoStartFails
  <2>5. file[c] = saved[c]
    BY <2>1, <2>3, <2>4 DEF Remembers, Kept
  <2>6. file'[c] = file[c]
    BY <1>4, FileSteps
  <2> QED BY <2>1, <2>5, <2>6
<1> QED BY <1>3, <1>4

\* A boot starts from the file, and each of its calls goes on from there.
LEMMA NextRecalls ==
  ASSUME Sound, Keeps, Sound', Remembers, Next PROVE Recalls'
<1> SUFFICES ASSUME power' = "booting", inserted' # NoCard, saved'[inserted'] # NoFile, ~bootCut'[inserted']
             PROVE  /\ OnTheWay(Restored(saved[inserted]), Attrs)'
                    /\ saver'["main"] = "write" => handle'["main"] = inserted'
  BY DEF Recalls
<1>1. Remember /\ HistoryOK /\ inserted' \in Cards
  BY EveryStepRemembers DEF Remembers, Sound, TypeOK
<1>2. ~AtRest'
  BY DEF AtRest
<1>3. inserted = inserted' /\ saved'[inserted'] = saved[inserted] /\ ~bootCut[inserted]
  BY <1>1, <1>2, CardHistory
<1>4. saved[inserted] # NoFile /\ saved[inserted] \in Settings
  BY <1>1, <1>3 DEF HistoryOK
<1> DEFINE target == Restored(saved[inserted])
<1>5. \A m : m = target =>
        /\ OnTheWay(m, Attrs)'
        /\ saver'["main"] = "write" => handle'["main"] = inserted'
  <2> SUFFICES ASSUME NEW m, m = target
               PROVE  /\ OnTheWay(m, Attrs)'
                      /\ saver'["main"] = "write" => handle'["main"] = inserted'
    OBVIOUS
  <2>1. CASE power = "booting"
    <3>1. OnTheWay(m, Attrs) /\ (saver["main"] = "write" => handle["main"] = inserted)
      BY <1>3, <1>4, <2>1 DEF Remembers, Recalls
    <3>2. CASE MainStep
      BY <1>3, <3>1, <3>2, MainGoesOn
    <3>3. CASE ~MainStep
      <4>1. UNCHANGED <<data, todo, saver, inserted, handle>>
        BY <1>3, <2>1, <3>3, BootingSteps DEF CutPower, PullCard
      <4> QED BY <3>1, <4>1, StillOnTheWay
    <3> QED BY <3>2, <3>3
  <2>2. CASE power # "booting"
    <3>1. Boot
      BY <2>2 DEF Next, MainStep, SdStep, UserStep, WorldStep, RemoveFile, Assign, SaveCheck,
             SaveOpen,
               SaveWrite, Returns, Raises, SdStart, SdMakesFifo, SdReads, SdLooksForFile, SdEnables,
               OpenEntry, Pick, BackFromEntry, ReturnToSetting, Continue, SettingsOfBlocked,
               SaveBrightness, ScanSettingsQR, InsertCard, PullCard, CardMoves, CutPower, Untouched
    <3>2. power = "off" /\ UNCHANGED saver /\ file[inserted] = saved[inserted]
      BY <1>1, <1>3, <1>4, <3>1 DEF Boot, Remembers, Kept, Starting
    <3>3. saver'["main"] = "idle"
      BY <3>2 DEF Sound, TypeOK, Busy
    <3>4. todo' = UpdateCalls(EntryPlace, saved[inserted], get_defaults)
      BY <1>3, <3>1, <3>2 DEF Boot
    <3>5. IsGiven(saved[inserted]) /\ \A a \in Attrs : Complete(saved[inserted], get_defaults)[a] = m[a]
      BY <1>4, Defaults, CompleteIsRestored
    <3>6. OnTheWay(m, Attrs)'
      <4>1. \A given : given = saved[inserted] => OnTheWay(m, Attrs)'
        BY <3>3, <3>4, <3>5, EntryPlaces, Defaults, UpdateOnTheWay
      <4> QED BY <4>1
    <3> QED BY <3>3, <3>6
  <2> QED BY <2>1, <2>2
<1>6. Restored(saved[inserted])' = target
  BY <1>3 DEF Restored
<1> QED BY <1>5, <1>6 DEF OnTheWay

\* Every step keeps what is remembered true.
LEMMA NextRemembers ==
  ASSUME Sound, Keeps, Sound', FileHoldsTheSettings', Remembers, [Next]_vars PROVE Remembers'
<1>1. CASE Next
  <2>1. HistoryOK'
    BY <1>1, EveryStepRemembers, CardHistory DEF Remembers
  <2> QED BY <1>1, <2>1, NextKept, NextRecalls DEF Remembers
<1>2. CASE UNCHANGED vars
  BY <1>2 DEF vars, mainVars, sdVars, Remembers, HistoryOK, Kept, Recalls, OnTheWay, Restored,
         Starting
<1> QED BY <1>1, <1>2

\* One step of a boot.
LEMMA BootStep ==
  ASSUME Sound, Sound', Remembers, [Next]_vars, inserted # NoCard, saved[inserted] # NoFile, ~bootCut[inserted]
  PROVE  /\ power \in {"off", "booting"} => power' # "failed" \/ inserted' = NoCard
         /\ power = "booting" /\ power' = "on" => data' = Restored(saved[inserted])
<1>1. inserted \in Cards
  BY DEF Sound, TypeOK
<1>2. CASE UNCHANGED vars
  BY <1>2 DEF vars
<1>3. CASE Next
  <2>1. ~(power \in {"off", "booting"} /\ power' = "failed")
    BY <1>1, <1>3, NoStartFails
  <2>2. ASSUME power = "booting", power' = "on" PROVE data' = Restored(saved[inserted])
    <3>1. MainStep
      BY <1>3, <2>2, BootingSteps DEF CutPower
    <3>2. \A m : m = Restored(saved[inserted]) => OnTheWay(m, Attrs)' /\ todo' = << >>
      BY <2>2, <3>1, MainGoesOn DEF Remembers, Recalls
    <3>3. \A a \in Attrs : data'[a] = Restored(saved[inserted])[a]
      <4>1. todo' = << >> => Range(todo') = {}
        BY DEF Range
      <4> QED BY <3>2, <4>1 DEF OnTheWay
    <3>4. data' \in [Attrs -> UNION {Values(a) : a \in Attrs}]
      BY DEF Sound, TypeOK, Settings
    <3> QED BY <3>3, <3>4 DEF Restored
  <2> QED BY <2>1, <2>2
<1> QED BY <1>2, <1>3

-----------------------------------------------------------------------------
(* Theorems. *)

\* The values are those of the definition, the calls are calls of it, whatever the
\* cards and the SettingsQRs (settings.py, settings_definition.py).
THEOREM TypeCorrect == Spec => []TypeOK
<1>1. Init => Sound
  BY InitSound
<1>2. Sound /\ [Next]_vars => Sound'
  BY NextSound
<1>3. Sound => TypeOK
  BY DEF Sound
<1> QED BY <1>1, <1>2, <1>3, PTL DEF Spec

\* For any cards, any changes and any number of power cuts: at rest the file of the
\* card that is in holds the settings in force, unless an event was lost or the
\* threads crossed (settings.py save; microsd.py run).
THEOREM FileTheorem == Spec => []FileHoldsTheSettings
<1>1. Init => Sound /\ Keeps
  BY InitSound, InitKeeps
<1>2. (Sound /\ Keeps) /\ [Next]_vars => (Sound /\ Keeps)'
  BY NextSound, NextKeeps
<1>3. Sound /\ Keeps => FileHoldsTheSettings
  BY KeepsTheFile
<1> QED BY <1>1, <1>2, <1>3, PTL DEF Spec

\* For any SettingsQRs: what one does is all it says or nothing, and nothing if it is
\* malformed, unless a save raised (settings.py update, parse_settingsqr).
THEOREM QrTheorem == Spec => []QrIsAllOrNothing
<1>1. Init => Sound /\ Means
  BY InitSound, InitMeans
<1>2. (Sound /\ Means) /\ [Next]_vars => (Sound /\ Means)'
  BY NextSound, NextMeans
<1>3. Sound /\ Means => QrIsAllOrNothing
  <2>1. todo = << >> => Range(todo) = {}
    BY DEF Range
  <2> QED BY <2>1 DEF QrIsAllOrNothing, Means, OnTheWay
<1> QED BY <1>1, <1>2, <1>3, PTL DEF Spec

\* Of any cards, with any changes between: a boot from one brings back what was in
\* force when all was last at rest with it in, and does not fail, unless a start from
\* it was cut short since (settings.py get_instance, update, save).
THEOREM BootTheorem == Spec => BootRestores
<1> DEFINE Inv == Sound /\ Keeps /\ Remembers
           Step == inserted # NoCard /\ saved[inserted] # NoFile /\ ~bootCut[inserted] =>
                     /\ power \in {"off", "booting"} => power' # "failed" \/ inserted' = NoCard
                     /\ power = "booting" /\ power' = "on" => data' = Restored(saved[inserted])
<1>1. Init => Inv
  BY InitSound, InitKeeps, InitRemembers
<1>2. Sound /\ Keeps => FileHoldsTheSettings
  BY KeepsTheFile
<1>3. (Sound /\ Keeps)' => FileHoldsTheSettings'
  BY <1>2, PTL
<1>4. Inv /\ [Next]_vars => Inv'
  <2> SUFFICES ASSUME Inv, [Next]_vars PROVE Inv'
    OBVIOUS
  <2>1. Sound' /\ Keeps'
    BY NextSound, NextKeeps
  <2>2. FileHoldsTheSettings'
    BY <1>3, <2>1
  <2> QED BY <2>1, <2>2, NextRemembers
<1>5. Inv /\ Inv' /\ [Next]_vars => Step
  BY BootStep
<1>6. Inv /\ Inv' /\ [Next]_vars => [Step]_vars
  BY <1>5
<1> HIDE DEF Inv, Step
<1>7. Spec => [][Step]_vars
  BY <1>1, <1>4, <1>6, PTL DEF Spec
<1> QED BY <1>7 DEF BootRestores, Step
=============================================================================
