----------------------------- MODULE MainProofs -----------------------------
(***************************************************************************)
(* The whole run of main, for any command lines, trees, buffers and        *)
(* failures: what the arguments are understood to mean, the report of the  *)
(* run before, the two texts, the exit code and the figures.               *)
(***************************************************************************)
EXTENDS Main, SequenceTheorems, FiniteSetTheorems, WellFoundedInduction, TLAPS

----------------------------------------------------------------------------
(* How options are spelled *)

\* Numbers have a smallest one.
LEMMA Smallest ==
  ASSUME NEW T \in SUBSET Nat, T # {}
  PROVE  \E x \in T : \A y \in T : x <= y
<1>1. PICK x \in T : \A y \in T : <<y, x>> \notin OpToRel(<, Nat)
  BY WFMin, NatLessThanWellFounded, Zenon
<1>2. \A y \in T : ~(y < x)
  BY <1>1, Zenon DEF OpToRel
<1>3. x \in Nat /\ \A y \in T : y \in Nat
  OBVIOUS
<1> QED BY <1>2, <1>3

\* The functions FlattenSeq is defined with.
Flattens(g, ss) ==
  g = [i \in 1 .. Len(ss) |-> IF i = 1 THEN ss[i] ELSE g[i - 1] \o ss[i]]

SameUpTo(s, t, n) == \A i \in 1 .. n : t[i] = s[i]

\* They agree where the sequences do.
LEMMA FlatteningIsUnique ==
  ASSUME NEW S, NEW ss \in Seq(S), NEW tt \in Seq(S), NEW g, NEW h,
         Flattens(g, ss), Flattens(h, tt), NEW n \in Nat, n <= Len(ss), n <= Len(tt),
         SameUpTo(ss, tt, n)
  PROVE  SameUpTo(g, h, n)
<1> USE DEF SameUpTo
<1> DEFINE T == {i \in 1 .. n : h[i] # g[i]}
<1>1. Len(ss) \in Nat /\ Len(tt) \in Nat
  OBVIOUS
<1>2. ASSUME NEW i \in 1 .. n
      PROVE  g[i] = IF i = 1 THEN ss[i] ELSE g[i - 1] \o ss[i]
  <2>1. i \in 1 .. Len(ss)
    BY <1>1
  <2> QED BY <2>1 DEF Flattens
<1>3. ASSUME NEW i \in 1 .. n
      PROVE  h[i] = IF i = 1 THEN ss[i] ELSE h[i - 1] \o ss[i]
  <2>1. tt[i] = ss[i] /\ i \in 1 .. Len(tt)
    BY <1>1
  <2> QED BY <2>1 DEF Flattens
<1> SUFFICES ASSUME T # {} PROVE FALSE
  OBVIOUS
<1>4. T \in SUBSET Nat
  OBVIOUS
<1>5. PICK i \in T : \A j \in T : i <= j
  <2> HIDE DEF T
  <2> QED BY <1>4, Smallest
<1>6. i \in 1 .. n /\ h[i] # g[i] /\ \A j \in 1 .. n : h[j] # g[j] => i <= j
  BY <1>5
<1> HIDE DEF T
<1>7. i # 1 => h[i - 1] = g[i - 1]
  BY <1>6
<1> QED BY <1>2, <1>3, <1>6, <1>7

LEMMA FlatteningExists ==
  ASSUME NEW S, NEW ss \in Seq(Seq(S))
  PROVE  \E g \in [1 .. Len(ss) -> Seq(S)] : Flattens(g, ss)
<1> DEFINE Flat(tt) == \E g \in [1 .. Len(tt) -> Seq(S)] : Flattens(g, tt)
           T == {n \in Nat : \E tt \in Seq(Seq(S)) : Len(tt) = n /\ ~Flat(tt)}
<1> SUFFICES ASSUME T # {} PROVE FALSE
  BY Zenon, LenProperties
<1>1. PICK n \in T : \A m \in T : n <= m
  <2>1. T \in SUBSET Nat
    OBVIOUS
  <2> HIDE DEF T
  <2> QED BY <2>1, Smallest
<1>2. PICK tt \in Seq(Seq(S)) : Len(tt) = n /\ ~Flat(tt)
  BY <1>1
<1>3. CASE n = 0
  <2> DEFINE g == [i \in 1 .. Len(tt) |-> tt[i]]
  <2>1. g \in [1 .. Len(tt) -> Seq(S)]
    BY <1>2, <1>3
  <2>2. Flattens(g, tt)
    BY <1>2, <1>3 DEF Flattens
  <2> QED BY <1>2, <2>1, <2>2
<1>4. CASE n # 0
  <2> DEFINE rr == SubSeq(tt, 1, n - 1)
  <2>1. /\ rr \in Seq(Seq(S)) /\ Len(rr) = n - 1
        /\ \A i \in 1 .. n - 1 : rr[i] = tt[i]
    BY <1>1, <1>2, <1>4, SubSeqProperties
  <2>2. n - 1 \in Nat /\ n - 1 \notin T
    BY <1>1, <1>4
  <2>3. Flat(rr)
    BY <2>1, <2>2
  <2> HIDE DEF rr
  <2>4. PICK g \in [1 .. n - 1 -> Seq(S)] : Flattens(g, rr)
    BY <2>1, <2>3
  <2>5. \A i \in 1 .. n - 1 : g[i] = IF i = 1 THEN rr[i] ELSE g[i - 1] \o rr[i]
    BY <2>1, <2>4 DEF Flattens
  <2> DEFINE last == IF n = 1 THEN tt[n] ELSE g[n - 1] \o tt[n]
             h == [i \in 1 .. n |-> IF i = n THEN last ELSE g[i]]
  <2>6. \A i \in 1 .. n : tt[i] \in Seq(S)
    BY <1>2
  <2>7. last \in Seq(S)
    <3>1. CASE n = 1
      BY <2>6, <3>1
    <3>2. CASE n # 1
      <4>1. g[n - 1] \in Seq(S) /\ tt[n] \in Seq(S)
        BY <1>4, <2>2, <2>6, <3>2
      <4> QED BY <3>2, <4>1
    <3> QED BY <3>1, <3>2
  <2>8. h \in [1 .. Len(tt) -> Seq(S)]
    <3> HIDE DEF last
    <3> QED BY <1>2, <2>2, <2>7
  <2>9. ASSUME NEW i \in 1 .. n
        PROVE  h[i] = IF i = 1 THEN tt[i] ELSE h[i - 1] \o tt[i]
    <3>1. CASE i = n
      <4>1. i # 1 => i - 1 \in 1 .. n /\ i - 1 # n
        BY <2>2, <3>1
      <4> QED BY <3>1, <4>1
    <3>2. CASE i # n
      <4>1. i \in 1 .. n - 1 /\ h[i] = g[i] /\ (i # 1 => h[i - 1] = g[i - 1])
        BY <2>2, <3>2
      <4> HIDE DEF h
      <4> QED BY <2>1, <2>5, <4>1
    <3> QED BY <3>1, <3>2
  <2>10. Flattens(h, tt)
    <3>1. h = [i \in 1 .. n |-> h[i]]
      OBVIOUS
    <3> HIDE DEF h
    <3> QED BY <1>2, <2>9, <3>1 DEF Flattens
  <2> HIDE DEF h
  <2> QED BY <1>2, <2>8, <2>10
<1> QED BY <1>3, <1>4

\* Each sequence is put behind those before it.
LEMMA Flattening ==
  ASSUME NEW S, NEW ss \in Seq(Seq(S)), NEW s \in Seq(S)
  PROVE  /\ FlattenSeq(ss) \in Seq(S)
         /\ FlattenSeq(Append(ss, s)) = FlattenSeq(ss) \o s
<1> DEFINE n == Len(ss)
           tt == Append(ss, s)
           g == CHOOSE f : Flattens(f, ss)
           h == CHOOSE f : Flattens(f, tt)
<1>1. /\ n \in Nat /\ tt \in Seq(Seq(S)) /\ Len(tt) = n + 1
      /\ tt[n + 1] = s /\ \A i \in 1 .. n : tt[i] = ss[i]
  OBVIOUS
<1> HIDE DEF tt
<1>2. Flattens(g, ss) /\ Flattens(h, tt)
  BY <1>1, FlatteningExists
<1>3. FlattenSeq(tt) = h[n + 1]
  <2>1. Len(tt) # 0
    BY <1>1
  <2> QED BY <1>1, <2>1 DEF FlattenSeq, Flattens
<1>4. n # 0 => FlattenSeq(ss) = g[n]
  BY DEF FlattenSeq, Flattens
<1>5. n = 0 => FlattenSeq(ss) = <<>>
  BY DEF FlattenSeq
<1> HIDE DEF g, h
<1>6. SameUpTo(g, h, n)
  <2>1. n <= Len(ss) /\ n <= Len(tt)
    BY <1>1
  <2>2. /\ n \in Nat /\ tt \in Seq(Seq(S)) /\ ss \in Seq(Seq(S))
        /\ Flattens(g, ss) /\ Flattens(h, tt) /\ SameUpTo(ss, tt, n)
    BY <1>1, <1>2 DEF SameUpTo
  <2> HIDE DEF n
  <2> QED BY <2>1, <2>2, FlatteningIsUnique
<1>7. h[n + 1] = IF n = 0 THEN s ELSE h[n] \o s
  <2>1. n + 1 \in 1 .. Len(tt) /\ n + 1 - 1 = n
    BY <1>1
  <2>2. \A i \in 1 .. Len(tt) : h[i] = IF i = 1 THEN tt[i] ELSE h[i - 1] \o tt[i]
    BY <1>2 DEF Flattens
  <2>3. h[n + 1] = IF n + 1 = 1 THEN tt[n + 1] ELSE h[n + 1 - 1] \o tt[n + 1]
    BY <2>1, <2>2
  <2> QED BY <1>1, <2>1, <2>3
<1>8. FlattenSeq(ss) \in Seq(S)
  <2>1. PICK f \in [1 .. n -> Seq(S)] : Flattens(f, ss)
    BY FlatteningExists
  <2>2. SameUpTo(f, g, n)
    <3>1. n <= Len(ss) /\ SameUpTo(ss, ss, n)
      BY <1>1 DEF SameUpTo
    <3> QED BY <1>1, <1>2, <2>1, <3>1, FlatteningIsUnique
  <2>3. n # 0 => n \in 1 .. n
    BY <1>1
  <2>4. n # 0 => FlattenSeq(ss) = f[n] /\ f[n] \in Seq(S)
    BY <1>4, <2>1, <2>2, <2>3 DEF SameUpTo
  <2> QED BY <1>5, <2>4
<1>9. CASE n = 0
  BY <1>3, <1>5, <1>7, <1>8, <1>9, ConcatEmptySeq DEF tt
<1>10. CASE n # 0
  <2>1. n \in 1 .. n
    BY <1>1, <1>10
  <2>2. h[n + 1] = FlattenSeq(ss) \o s
    BY <1>4, <1>6, <1>7, <1>10, <2>1 DEF SameUpTo
  <2> QED BY <1>3, <1>8, <2>2 DEF tt
<1> QED BY <1>9, <1>10

\* What options are spelled with.
Word == ConfigOption \cup Argument

LEMMA SpelledIs ==
  ASSUME NEW o \in Option
  PROVE  /\ Spelled(o) \in Seq(Word)
         /\ Len(Spelled(o)) = IF o.name \in FlagOption THEN 1 ELSE 2
         /\ Spelled(o)[1] = o.name
         /\ o.name \notin FlagOption => Spelled(o)[2] = o.value
<1>1. o.name \in Word /\ o.value \in Word
  BY DEF Option, Word
<1>2. CASE o.name \in FlagOption
  BY <1>1, <1>2 DEF Spelled
<1>3. CASE o.name \notin FlagOption
  BY <1>1, <1>3 DEF Spelled
<1> QED BY <1>2, <1>3

LEMMA SpellingGrows ==
  ASSUME NEW options \in Seq(Option)
  PROVE  /\ Spelling(options) \in Seq(Word)
         /\ \A o \in Option : Spelling(Append(options, o)) = Spelling(options) \o Spelled(o)
<1> DEFINE n == Len(options)
           ss == [i \in 1 .. n |-> Spelled(options[i])]
<1>1. ss \in Seq(Seq(Word)) /\ Len(ss) = n /\ n \in Nat
  <2>1. \A i \in 1 .. n : Spelled(options[i]) \in Seq(Word)
    BY SpelledIs
  <2> QED BY <2>1
<1>2. Spelling(options) = FlattenSeq(ss)
  BY DEF Spelling
<1>3. ASSUME NEW o \in Option
      PROVE  Spelling(Append(options, o)) = Spelling(options) \o Spelled(o)
  <2> DEFINE longer == Append(options, o)
             tt == [i \in 1 .. Len(longer) |-> Spelled(longer[i])]
  <2>1. /\ Len(longer) = n + 1 /\ longer[n + 1] = o
        /\ \A i \in 1 .. n : longer[i] = options[i]
    OBVIOUS
  <2>2. Spelled(o) \in Seq(Word)
    BY SpelledIs
  <2>3. Append(ss, Spelled(o)) \in Seq(Seq(Word)) /\ Len(Append(ss, Spelled(o))) = n + 1
    BY <1>1, <2>2
  <2>4. tt \in Seq(Seq(Word)) /\ Len(tt) = n + 1
    <3>1. \A i \in 1 .. n + 1 : Spelled(longer[i]) \in Seq(Word)
      BY <1>1, <2>1, SpelledIs
    <3> HIDE DEF longer
    <3> QED BY <1>1, <2>1, <3>1
  <2>5. \A i \in 1 .. n + 1 : tt[i] = Append(ss, Spelled(o))[i]
    <3> SUFFICES ASSUME NEW i \in 1 .. n + 1 PROVE tt[i] = Append(ss, Spelled(o))[i]
      OBVIOUS
    <3> HIDE DEF longer
    <3>1. tt[i] = Spelled(longer[i])
      BY <2>1
    <3>2. CASE i = n + 1
      BY <1>1, <2>1, <2>2, <3>1, <3>2
    <3>3. CASE i # n + 1
      <4>1. i \in 1 .. n
        BY <1>1, <3>3
      <4>2. Append(ss, Spelled(o))[i] = ss[i]
        <5> HIDE DEF ss
        <5> QED BY <1>1, <2>2, <4>1
      <4> QED BY <2>1, <3>1, <4>1, <4>2
    <3> QED BY <3>2, <3>3
  <2>6. tt = Append(ss, Spelled(o))
    <3> HIDE DEF tt, ss
    <3> QED BY <2>3, <2>4, <2>5, SeqEqual
  <2>7. Spelling(longer) = FlattenSeq(tt)
    BY DEF Spelling
  <2> HIDE DEF ss, tt, longer
  <2>8. FlattenSeq(Append(ss, Spelled(o))) = FlattenSeq(ss) \o Spelled(o)
    BY <1>1, <2>2, Flattening
  <2> QED BY <1>2, <2>6, <2>7, <2>8 DEF longer
<1>4. FlattenSeq(ss) \in Seq(Word)
  <2> HIDE DEF ss
  <2>1. <<>> \in Seq(Word)
    OBVIOUS
  <2> QED BY <1>1, <2>1, Flattening
<1> QED BY <1>2, <1>3, <1>4

LEMMA SpellingNone == Spelling(<<>>) = <<>>
<1>1. [i \in 1 .. Len(<<>>) |-> Spelled(<<>>[i])] = <<>>
  OBVIOUS
<1>2. FlattenSeq(<<>>) = <<>>
  BY DEF FlattenSeq
<1> QED BY <1>1, <1>2 DEF Spelling

\* The first k options.
Start(options, k) == SubSeq(options, 1, k)

LEMMA StartGrows ==
  ASSUME NEW options \in Seq(Option), NEW k \in 0 .. Len(options)
  PROVE  /\ Start(options, k) \in Seq(Option) /\ Len(Start(options, k)) = k
         /\ \A i \in 1 .. k : Start(options, k)[i] = options[i]
         /\ k < Len(options) => Start(options, k + 1) = Append(Start(options, k), options[k + 1])
<1>1. Len(options) \in Nat /\ \A i \in 1 .. k : options[i] \in Option
  OBVIOUS
<1>2. /\ Start(options, k) \in Seq(Option) /\ Len(Start(options, k)) = k
      /\ \A i \in 1 .. k : Start(options, k)[i] = options[i]
  BY <1>1, SubSeqProperties DEF Start
<1>3. ASSUME k < Len(options)
      PROVE  Start(options, k + 1) = Append(Start(options, k), options[k + 1])
  <2>1. 1 \in 1 .. Len(options) /\ k + 1 \in 1 .. Len(options) /\ k + 1 - 1 = k
    BY <1>1, <1>3
  <2>2. SubSeq(options, 1, k + 1) = SubSeq(options, 1, k) \o <<options[k + 1]>>
    BY <2>1, SubSeqRecursiveSecond
  <2>3. options[k + 1] \in Option
    BY <2>1
  <2> QED BY <1>2, <2>2, <2>3, AppendIsConcat DEF Start
<1> QED BY <1>2, <1>3

\* A command line begins with the spelling of its first options.
LEMMA SpellingStarts ==
  ASSUME NEW options \in Seq(Option), NEW k \in 0 .. Len(options)
  PROVE  \E rest \in Seq(Word) : Spelling(options) = Spelling(Start(options, k)) \o rest
<1> DEFINE n == Len(options)
           Begins(j) == \E rest \in Seq(Word) : Spelling(options) = Spelling(Start(options, j)) \o rest
           T == {d \in 0 .. n : ~Begins(n - d)}
<1>1. n \in Nat /\ T \in SUBSET Nat
  OBVIOUS
<1>2. T = {}
  <2> SUFFICES ASSUME T # {} PROVE FALSE
    OBVIOUS
  <2>1. PICK d \in T : \A e \in T : d <= e
    <3> HIDE DEF T
    <3> QED BY <1>1, Smallest
  <2>2. d \in 0 .. n /\ ~Begins(n - d) /\ \A e \in 0 .. n : e < d => Begins(n - e)
    <3>1. d \in T /\ \A e \in 0 .. n : ~Begins(n - e) => d <= e
      BY <2>1
    <3> HIDE DEF Begins
    <3> QED BY <1>1, <3>1
  <2>3. CASE d = 0
    <3>1. Start(options, n) = options
      BY SubSeqFull DEF Start
    <3>2. Spelling(options) \o <<>> = Spelling(options) /\ <<>> \in Seq(Word)
      BY SpellingGrows, ConcatEmptySeq
    <3>3. n - d = n
      BY <1>1, <2>3
    <3> QED BY <2>2, <3>1, <3>2, <3>3
  <2>4. CASE d # 0
    <3>1. d - 1 \in 0 .. n /\ d - 1 < d /\ n - (d - 1) = n - d + 1
      BY <1>1, <2>2, <2>4
    <3>2. Begins(n - d + 1)
      <4>1. Begins(n - (d - 1))
        BY <2>2, <3>1
      <4> QED BY <3>1, <4>1
    <3> HIDE DEF T
    <3>3. PICK rest \in Seq(Word) : Spelling(options) = Spelling(Start(options, n - d + 1)) \o rest
      BY <3>2
    <3> DEFINE j == n - d
    <3>4. j \in 0 .. n /\ j < n
      BY <1>1, <2>2, <2>4
    <3>5. /\ Start(options, j) \in Seq(Option)
          /\ Start(options, j + 1) = Append(Start(options, j), options[j + 1])
          /\ options[j + 1] \in Option
      BY <1>1, <3>4, StartGrows
    <3> DEFINE o == options[j + 1]
               first == Start(options, j)
    <3>6. Spelling(Append(first, o)) = Spelling(first) \o Spelled(o) /\ Spelling(first) \in Seq(Word)
      BY <3>5, SpellingGrows
    <3>7. Spelled(o) \in Seq(Word)
      BY <3>5, SpelledIs
    <3> HIDE DEF first, o
    <3>8. (Spelling(first) \o Spelled(o)) \o rest = Spelling(first) \o (Spelled(o) \o rest)
      BY <3>6, <3>7, ConcatAssociative
    <3>9. Spelled(o) \o rest \in Seq(Word)
      BY <3>7
    <3>10. Spelling(options) = Spelling(first) \o (Spelled(o) \o rest)
      BY <3>3, <3>5, <3>6, <3>8 DEF first, o
    <3> QED BY <2>2, <3>9, <3>10 DEF first
  <2> QED BY <2>3, <2>4
<1>3. n - k \in 0 .. n /\ n - (n - k) = k
  BY <1>1
<1> QED BY <1>2, <1>3

\* The command line begins with these options, and something comes after them.
BeginsWith(options) ==
  /\ Len(Spelling(options)) + 1 <= Len(argv)
  /\ \A i \in 1 .. Len(Spelling(options)) : argv[i] = Spelling(options)[i]

\* Behind the first k of them it goes on with the next one.
OptionAt(options, k, at) ==
  /\ at + 1 <= Len(argv)
  /\ argv[at] = options[k + 1].name
  /\ options[k + 1].name \notin FlagOption => argv[at + 1] = options[k + 1].value
  /\ Len(Spelling(Start(options, k + 1))) + 1 =
       IF options[k + 1].name \in FlagOption THEN at + 1 ELSE at + 2

LEMMA OptionsGoOn ==
  ASSUME NEW options \in Seq(Option), NEW k \in 0 .. Len(options),
         BeginsWith(options), Len(argv) \in Nat
  PROVE  /\ Len(Spelling(Start(options, k))) \in Nat
         /\ k < Len(options) => OptionAt(options, k, Len(Spelling(Start(options, k))) + 1)
         /\ ~(k < Len(options)) => Start(options, k) = options
<1> DEFINE line == Spelling(options)
           first == Spelling(Start(options, k))
           at == Len(first) + 1
<1>1. line \in Seq(Word)
  BY SpellingGrows
<1>2. /\ Len(line) \in Nat /\ Len(line) + 1 <= Len(argv) /\ Len(argv) \in Nat
      /\ \A i \in 1 .. Len(line) : argv[i] = line[i]
  BY <1>1 DEF BeginsWith
<1>3. Start(options, k) \in Seq(Option) /\ first \in Seq(Word) /\ Len(first) \in Nat
  BY StartGrows, SpellingGrows
<1>4. CASE k < Len(options)
  <2> DEFINE o == options[k + 1]
             next == Spelling(Start(options, k + 1))
  <2>1. /\ o \in Option /\ k + 1 \in 0 .. Len(options)
        /\ Start(options, k + 1) = Append(Start(options, k), o)
    <3>1. Len(options) \in Nat
      OBVIOUS
    <3> QED BY <1>4, <3>1, StartGrows
  <2>2. next = first \o Spelled(o)
    BY <1>3, <2>1, SpellingGrows
  <2>3. /\ Spelled(o) \in Seq(Word) /\ Spelled(o)[1] = o.name
        /\ Len(Spelled(o)) = IF o.name \in FlagOption THEN 1 ELSE 2
        /\ o.name \notin FlagOption => Spelled(o)[2] = o.value
    BY <2>1, SpelledIs
  <2>4. PICK rest \in Seq(Word) : line = next \o rest
    BY <2>1, SpellingStarts
  <2> DEFINE width == Len(Spelled(o))
  <2> HIDE DEF o, next, line, first
  <2>5. width \in {1, 2}
    BY <2>3
  <2>6. /\ next \in Seq(Word) /\ Len(next) = Len(first) + width
        /\ \A i \in 1 .. width : next[Len(first) + i] = Spelled(o)[i]
    <3>1. \A i \in 1 .. Len(first) + width :
            next[i] = IF i <= Len(first) THEN first[i] ELSE Spelled(o)[i - Len(first)]
      BY <1>3, <2>2, <2>3, ConcatProperties
    <3>2. next \in Seq(Word) /\ Len(next) = Len(first) + width
      BY <1>3, <2>2, <2>3, ConcatProperties
    <3>3. \A i \in 1 .. width : next[Len(first) + i] = Spelled(o)[i]
      <4> HIDE DEF width
      <4> SUFFICES ASSUME NEW i \in 1 .. width PROVE next[Len(first) + i] = Spelled(o)[i]
        OBVIOUS
      <4>1. Len(first) + i \in 1 .. Len(first) + width /\ ~(Len(first) + i <= Len(first))
            /\ Len(first) + i - Len(first) = i
        BY <1>3, <2>5
      <4> QED BY <3>1, <4>1
    <3> QED BY <3>2, <3>3
  <2>7. /\ Len(line) >= Len(next)
        /\ \A i \in 1 .. Len(next) : line[i] = next[i]
    <3>1. /\ Len(line) = Len(next) + Len(rest)
          /\ \A i \in 1 .. Len(next) + Len(rest) :
               line[i] = IF i <= Len(next) THEN next[i] ELSE rest[i - Len(next)]
      BY <2>4, <2>6, ConcatProperties
    <3>2. Len(next) \in Nat /\ Len(rest) \in Nat
      BY <2>4, <2>6
    <3> QED BY <3>1, <3>2
  <2> HIDE DEF width
  <2>8. \A i \in 1 .. width : argv[Len(first) + i] = Spelled(o)[i]
    <3> SUFFICES ASSUME NEW i \in 1 .. width PROVE argv[Len(first) + i] = Spelled(o)[i]
      OBVIOUS
    <3>1. Len(first) + i \in 1 .. Len(next) /\ Len(first) + i \in 1 .. Len(line)
      BY <1>2, <1>3, <2>5, <2>6, <2>7
    <3> QED BY <1>2, <2>6, <2>7, <3>1
  <2>9. argv[at] = o.name
    BY <1>3, <2>3, <2>5, <2>8
  <2>10. o.name \notin FlagOption => argv[at + 1] = o.value
    <3> SUFFICES ASSUME o.name \notin FlagOption PROVE argv[at + 1] = o.value
      OBVIOUS
    <3>1. width = 2 /\ 2 \in 1 .. width /\ at + 1 = Len(first) + 2
      BY <1>3, <2>3 DEF width
    <3> QED BY <2>3, <2>8, <3>1
  <2>11. at + 1 <= Len(argv) /\ Len(next) + 1 = IF o.name \in FlagOption THEN at + 1 ELSE at + 2
    <3>1. width = IF o.name \in FlagOption THEN 1 ELSE 2
      BY <2>3 DEF width
    <3> QED BY <1>2, <1>3, <2>5, <2>6, <2>7, <3>1
  <2> QED BY <1>3, <1>4, <2>9, <2>10, <2>11 DEF OptionAt, o, next, first
<1>5. ASSUME ~(k < Len(options)) PROVE Start(options, k) = options
  <2>1. k = Len(options)
    <3>1. Len(options) \in Nat
      OBVIOUS
    <3> QED BY <1>5, <3>1
  <2> QED BY <2>1, SubSeqFull DEF Start
<1> QED BY <1>3, <1>4, <1>5

\* Behind the last one of a good command line are the two directories.
GoesOn(options, k, at) ==
  IF k < Len(options) THEN OptionAt(options, k, at)
  ELSE Len(argv) - at = 1 /\ argv[at] = Dirs[1] /\ argv[at + 1] = Dirs[2]

LEMMA LineGoesOn ==
  ASSUME NEW options \in Seq(Option), NEW k \in 0 .. Len(options), argv = CommandLine(options)
  PROVE  /\ Len(Spelling(Start(options, k))) \in Nat
         /\ GoesOn(options, k, Len(Spelling(Start(options, k))) + 1)
<1> DEFINE line == Spelling(options)
<1>1. line \in Seq(Word) /\ Dirs \in Seq(Word) /\ Len(Dirs) = 2
  <2>1. Dirs \in Seq(Argument) /\ Len(Dirs) = 2
    BY ArgsAssumption DEF Dirs
  <2>2. Argument \subseteq Word
    BY DEF Word
  <2> QED BY <2>1, <2>2, SpellingGrows
<1>2. /\ Len(line) \in Nat /\ Len(argv) = Len(line) + 2
      /\ \A i \in 1 .. Len(line) : argv[i] = line[i]
      /\ argv[Len(line) + 1] = Dirs[1] /\ argv[Len(line) + 2] = Dirs[2]
  <2>1. argv = line \o Dirs
    BY DEF CommandLine
  <2> HIDE DEF line
  <2>2. Len(line) \in Nat
    BY <1>1
  <2>3. /\ Len(line \o Dirs) = Len(line) + Len(Dirs)
        /\ \A i \in 1 .. Len(line) + Len(Dirs) :
             (line \o Dirs)[i] = IF i <= Len(line) THEN line[i] ELSE Dirs[i - Len(line)]
    BY <1>1, ConcatProperties, Zenon
  <2> QED BY <1>1, <2>1, <2>2, <2>3
<1>3. BeginsWith(options) /\ Len(argv) \in Nat
  <2> HIDE DEF line
  <2>1. /\ Len(line) + 1 <= Len(argv) /\ Len(argv) \in Nat
        /\ \A i \in 1 .. Len(line) : argv[i] = line[i]
    BY <1>2
  <2> QED BY <2>1 DEF BeginsWith, line
<1>4. /\ Len(Spelling(Start(options, k))) \in Nat
      /\ k < Len(options) => OptionAt(options, k, Len(Spelling(Start(options, k))) + 1)
      /\ ~(k < Len(options)) => Start(options, k) = options
  BY <1>3, OptionsGoOn
<1>5. CASE k < Len(options)
  BY <1>4, <1>5 DEF GoesOn
<1>6. CASE ~(k < Len(options))
  <2>1. Spelling(Start(options, k)) = line
    BY <1>4, <1>6
  <2> HIDE DEF line
  <2>2. /\ Len(argv) - (Len(line) + 1) = 1 /\ argv[Len(line) + 1] = Dirs[1]
        /\ argv[Len(line) + 1 + 1] = Dirs[2]
    BY <1>2
  <2> QED BY <1>4, <1>6, <2>1, <2>2 DEF GoesOn
<1> QED BY <1>4, <1>5, <1>6

\* A question, and how it is found.
LEMMA QuestionBehind ==
  ASSUME NEW options \in Seq(Option), NEW S, argv \in Seq(S), Asks(argv, options)
  PROVE  /\ BeginsWith(options) /\ Len(argv) \in Nat
         /\ argv[Len(Spelling(options)) + 1] \in InfoOption
<1> DEFINE line == Spelling(options)
<1>1. PICK word \in InfoOption : IsPrefix(Append(line, word), argv)
  BY DEF Asks
<1>2. line \in Seq(Word \cup InfoOption)
  <2>1. line \in Seq(Word)
    BY SpellingGrows
  <2> HIDE DEF line
  <2> QED BY <2>1
<1> DEFINE asked == Append(line, word)
           n == Len(line)
<1> HIDE DEF line
<1>3. /\ asked \in Seq(Word \cup InfoOption) /\ Len(asked) = n + 1 /\ n \in Nat
      /\ asked[n + 1] = word /\ \A i \in 1 .. n : asked[i] = line[i]
  BY <1>2
<1> HIDE DEF asked
<1>4. Len(argv) \in Nat /\ n + 1 <= Len(argv) /\ SubSeq(asked, 1, n + 1) = SubSeq(argv, 1, n + 1)
  BY <1>1, <1>3 DEF IsPrefix, asked
<1>5. \A i \in 1 .. n + 1 : SubSeq(argv, 1, n + 1)[i] = argv[i]
  BY <1>3, <1>4, SubSeqProperties
<1>6. SubSeq(asked, 1, n + 1) = asked
  BY <1>3, SubSeqFull
<1>7. \A i \in 1 .. n + 1 : argv[i] = asked[i]
  BY <1>4, <1>5, <1>6
<1>8. argv[n + 1] = word /\ \A i \in 1 .. n : argv[i] = line[i]
  BY <1>3, <1>7
<1> QED BY <1>4, <1>8 DEF BeginsWith, line, n

LEMMA QuestionFound ==
  ASSUME NEW options \in Seq(Option), NEW S, argv \in Seq(S), argi \in 1 .. Len(argv),
         SubSeq(argv, 1, argi - 1) = Spelling(options), Acceptable(options),
         argv[argi] \in InfoOption
  PROVE  Asks(argv, options)
<1> DEFINE line == Spelling(options)
           asked == Append(line, argv[argi])
<1>1. Len(argv) \in Nat /\ \A i \in 1 .. Len(argv) : argv[i] \in S
  OBVIOUS
<1>2. line \in Seq(S) /\ Len(line) = argi - 1 /\ \A i \in 1 .. argi - 1 : line[i] = argv[i]
  BY <1>1, SubSeqProperties
<1> HIDE DEF line
<1>3. /\ asked \in Seq(S) /\ Len(asked) = argi
      /\ \A i \in 1 .. argi : asked[i] = argv[i]
  BY <1>1, <1>2
<1> HIDE DEF asked
<1>4. /\ SubSeq(argv, 1, argi) \in Seq(S) /\ Len(SubSeq(argv, 1, argi)) = argi
      /\ \A i \in 1 .. argi : SubSeq(argv, 1, argi)[i] = argv[i]
  BY <1>1, SubSeqProperties
<1>5. SubSeq(asked, 1, argi) = asked
  BY <1>3, SubSeqFull
<1>6. asked = SubSeq(argv, 1, argi)
  BY <1>3, <1>4, SeqEqual
<1>7. IsPrefix(asked, argv)
  BY <1>1, <1>3, <1>5, <1>6 DEF IsPrefix
<1> QED BY <1>7 DEF Asks, asked, line

----------------------------------------------------------------------------
(* What one more option changes *)

LEMMA Largest ==
  ASSUME NEW n \in Nat, NEW T \in SUBSET (1 .. n), T # {}
  PROVE  \E x \in T : \A y \in T : y <= x
<1> DEFINE U == {n - x : x \in T}
<1>0. \A y \in T : y \in 1 .. n
  OBVIOUS
<1>1. U \in SUBSET Nat /\ U # {}
  <2>1. \A x \in T : n - x \in Nat /\ n - x \in U
    BY <1>0
  <2>2. PICK x \in T : TRUE
    OBVIOUS
  <2> QED BY <2>1, <2>2
<1>2. PICK u \in U : \A v \in U : u <= v
  <2> HIDE DEF U
  <2> QED BY <1>1, Smallest
<1>3. PICK x \in T : u = n - x
  BY <1>2
<1>4. \A y \in T : n - y \in U
  OBVIOUS
<1>5. \A y \in T : n - x <= n - y
  BY <1>2, <1>3, <1>4
<1> QED BY <1>0, <1>3, <1>5

LEMMA LastOfGrows ==
  ASSUME NEW options \in Seq(Option), NEW o \in Option, NEW names, NEW default
  PROVE  LastOf(Append(options, o), names, default) =
           IF o.name \in names THEN o.value ELSE LastOf(options, names, default)
<1> DEFINE n == Len(options)
           longer == Append(options, o)
           given == {i \in 1 .. Len(options) : options[i].name \in names}
           more == {i \in 1 .. Len(longer) : longer[i].name \in names}
           last == CHOOSE i \in given : \A j \in given : j <= i
           latest == CHOOSE i \in more : \A j \in more : j <= i
<1>1. n \in Nat /\ Len(longer) = n + 1 /\ longer[n + 1] = o /\ \A i \in 1 .. n : longer[i] = options[i]
  OBVIOUS
<1>2. LastOf(options, names, default) = IF given = {} THEN default ELSE options[last].value
  BY DEF LastOf
<1>3. LastOf(longer, names, default) = IF more = {} THEN default ELSE longer[latest].value
  BY DEF LastOf
<1> HIDE DEF longer
<1>4. CASE o.name \in names
  <2>1. n + 1 \in more /\ \A j \in more : j \in Int /\ j <= n + 1
    BY <1>1, <1>4
  <2>2. \A i \in more : (\A j \in more : j <= i) => i = n + 1
    <3> HIDE DEF more
    <3> QED BY <1>1, <2>1
  <2>3. latest = n + 1
    <3> HIDE DEF more
    <3> QED BY <2>1, <2>2
  <2>4. more # {}
    BY <2>1
  <2> QED BY <1>1, <1>3, <1>4, <2>3, <2>4 DEF longer
<1>5. CASE o.name \notin names
  <2>1. more = given
    <3>1. \A i : i \in 1 .. n + 1 <=> i \in 1 .. n \/ i = n + 1
      BY <1>1
    <3>2. \A i : i \in more <=> i \in given
      BY <1>1, <1>5, <3>1
    <3> HIDE DEF more, given
    <3> QED BY <3>2
  <2>2. latest = last
    BY <2>1
  <2>3. given # {} => last \in 1 .. n
    <3>1. given \in SUBSET (1 .. n)
      OBVIOUS
    <3> HIDE DEF given
    <3>2. given # {} => \E x \in given : \A y \in given : y <= x
      BY <1>1, <3>1, Largest
    <3> QED BY <3>1, <3>2
  <2> HIDE DEF more, given, last, latest
  <2> QED BY <1>1, <1>2, <1>3, <1>5, <2>1, <2>2, <2>3 DEF longer
<1> QED BY <1>4, <1>5

LEMMA HasGrows ==
  ASSUME NEW options \in Seq(Option), NEW o \in Option, NEW name
  PROVE  Has(Append(options, o), name) <=> Has(options, name) \/ o.name = name
<1> DEFINE n == Len(options)
           longer == Append(options, o)
<1>1. n \in Nat /\ Len(longer) = n + 1 /\ longer[n + 1] = o /\ \A i \in 1 .. n : longer[i] = options[i]
  OBVIOUS
<1>2. \A i : i \in 1 .. n + 1 <=> i \in 1 .. n \/ i = n + 1
  BY <1>1
<1> HIDE DEF longer
<1>3. Has(longer, name) <=> Has(options, name) \/ o.name = name
  BY <1>1, <1>2 DEF Has
<1> QED BY <1>3 DEF longer

LEMMA AcceptableGrows ==
  ASSUME NEW options \in Seq(Option), NEW o \in Option
  PROVE  Acceptable(Append(options, o)) <=>
           /\ Acceptable(options)
           /\ o.name \in ThreadOption => Number[o.value] # 0
<1> DEFINE n == Len(options)
           longer == Append(options, o)
<1>1. n \in Nat /\ Len(longer) = n + 1 /\ longer[n + 1] = o /\ \A i \in 1 .. n : longer[i] = options[i]
  OBVIOUS
<1>2. \A i : i \in 1 .. n + 1 <=> i \in 1 .. n \/ i = n + 1
  BY <1>1
<1> HIDE DEF longer
<1>3. Acceptable(longer) <=> Acceptable(options) /\ (o.name \in ThreadOption => Number[o.value] # 0)
  BY <1>1, <1>2 DEF Acceptable
<1> QED BY <1>3 DEF longer

Texts == Argument \cup {"", "verdiff_report.txt"}

Configuration ==
  [root_a : Texts, root_b : Texts, thread_count : Nat \ {0},
   include_lines : BOOLEAN, include_unchanged : BOOLEAN, output_path : Texts]

ThreadCount(options) ==
  IF \E o \in ThreadOption : Has(options, o)
  THEN Number[LastOf(options, ThreadOption, "")] ELSE Cores

\* What reading these options makes of a configuration.
Reads(c, options) ==
  /\ c.thread_count = ThreadCount(options)
  /\ c.include_lines = Has(options, "--lines")
  /\ c.include_unchanged = ~Has(options, "--skip-unchanged")
  /\ c.output_path = LastOf(options, {"-o"}, "verdiff_report.txt")

LEMMA ReadsGrows ==
  ASSUME NEW options \in Seq(Option), NEW o \in Option,
         NEW c \in Configuration, Reads(c, options)
  PROVE  /\ o.name = "--lines" => Reads([c EXCEPT !.include_lines = TRUE], Append(options, o))
         /\ o.name = "--skip-unchanged" =>
              Reads([c EXCEPT !.include_unchanged = FALSE], Append(options, o))
         /\ o.name \in ThreadOption =>
              Reads([c EXCEPT !.thread_count = Number[o.value]], Append(options, o))
         /\ o.name = "-o" => Reads([c EXCEPT !.output_path = o.value], Append(options, o))
<1> DEFINE longer == Append(options, o)
<1>1. \A name : Has(longer, name) <=> Has(options, name) \/ o.name = name
  BY HasGrows
<1>2. \A names, default :
        LastOf(longer, names, default) =
          IF o.name \in names THEN o.value ELSE LastOf(options, names, default)
  BY LastOfGrows
<1> HIDE DEF longer
<1>3. ThreadCount(longer) = IF o.name \in ThreadOption THEN Number[o.value] ELSE ThreadCount(options)
  BY <1>1, <1>2 DEF ThreadCount
<1>4. Has(longer, "--lines") = IF o.name = "--lines" THEN TRUE ELSE Has(options, "--lines")
  BY <1>1 DEF Has
<1>5. (~Has(longer, "--skip-unchanged")) =
        IF o.name = "--skip-unchanged" THEN FALSE ELSE ~Has(options, "--skip-unchanged")
  BY <1>1 DEF Has
<1>6. LastOf(longer, {"-o"}, "verdiff_report.txt") =
        IF o.name = "-o" THEN o.value ELSE LastOf(options, {"-o"}, "verdiff_report.txt")
  BY <1>2
<1> SUFFICES
      /\ o.name = "--lines" => Reads([c EXCEPT !.include_lines = TRUE], longer)
      /\ o.name = "--skip-unchanged" => Reads([c EXCEPT !.include_unchanged = FALSE], longer)
      /\ o.name \in ThreadOption => Reads([c EXCEPT !.thread_count = Number[o.value]], longer)
      /\ o.name = "-o" => Reads([c EXCEPT !.output_path = o.value], longer)
  BY DEF longer
<1>7. CASE o.name = "--lines"
  BY <1>3, <1>4, <1>5, <1>6, <1>7 DEF Reads, Configuration, ThreadOption
<1>8. CASE o.name = "--skip-unchanged"
  BY <1>3, <1>4, <1>5, <1>6, <1>8 DEF Reads, Configuration, ThreadOption
<1>9. CASE o.name \in ThreadOption
  BY <1>3, <1>4, <1>5, <1>6, <1>9 DEF Reads, Configuration, ThreadOption
<1>10. CASE o.name = "-o"
  BY <1>3, <1>4, <1>5, <1>6, <1>10 DEF Reads, Configuration, ThreadOption
<1>11. o.name \in ConfigOption
  BY DEF Option
<1> QED BY <1>7, <1>8, <1>9, <1>10, <1>11 DEF ConfigOption, FlagOption

LEMMA ReadsNone ==
  ASSUME NEW c \in Configuration, c.thread_count = Cores, c.include_lines = FALSE,
         c.include_unchanged = TRUE, c.output_path = "verdiff_report.txt"
  PROVE  Reads(c, <<>>)
<1>1. \A name : ~Has(<<>>, name)
  BY DEF Has
<1>2. LastOf(<<>>, {"-o"}, "verdiff_report.txt") = "verdiff_report.txt"
  BY DEF LastOf
<1>3. Has(<<>>, "--lines") = FALSE /\ (~Has(<<>>, "--skip-unchanged")) = TRUE
  BY DEF Has
<1>4. ThreadCount(<<>>) = Cores
  BY <1>1 DEF ThreadCount
<1> QED BY <1>2, <1>3, <1>4, Zenon DEF Reads

LEMMA ReadsIsUnderstood ==
  ASSUME NEW options, NEW c \in Configuration, Reads(c, options),
         c.root_a = Dirs[1], c.root_b = Dirs[2]
  PROVE  c = Understood(options)
BY DEF Configuration, Reads, Understood, ThreadCount

----------------------------------------------------------------------------
(* The command line is read from left to right *)

\* A command line that is some of the options tried.
ReadWell(options) ==
  IF pc = "args"
  THEN \E k \in 0 .. Len(options) :
         /\ argi = Len(Spelling(Start(options, k))) + 1
         /\ Acceptable(Start(options, k))
         /\ Reads(config, Start(options, k))
  ELSE IF Acceptable(options) THEN exit # 2 /\ config = Understood(options)
  ELSE pc = "exit" /\ exit = 2

\* Some of these options are all that has been read.
OnTheWay(options) ==
  \E k \in 0 .. Len(options) : argi = Len(Spelling(Start(options, k))) + 1

\* Any other one: what is read of it so far would have done, and a question it
\* asks is still to come.
ReadBadly ==
  IF pc = "args"
  THEN /\ \E done \in Readings(argv) :
            /\ done \in Seq(Option) /\ Len(done) < argi
            /\ SubSeq(argv, 1, argi - 1) = Spelling(done)
            /\ Acceptable(done)
       /\ \A options \in Readings(argv) : Asks(argv, options) => OnTheWay(options)
  ELSE /\ pc = "exit"
       /\ exit = IF \E options \in Readings(argv) : Asks(argv, options) THEN 0 ELSE 2

ArgsInv ==
  /\ config \in Configuration
  /\ argv \in Seq(Word) /\ argi \in 1 .. Len(argv) + 1
  /\ argv \in {CommandLine(options) : options \in OptionLists} \cup BadArgvs
  /\ pc = "args" => exit = NoExit
  /\ \A options \in OptionLists : argv = CommandLine(options) => ReadWell(options)
  /\ argv \in BadArgvs => ReadBadly

LEMMA ReadingsAreOptions ==
  ASSUME NEW line \in Seq(Argument), NEW options \in Readings(line)
  PROVE  options \in Seq(Option)
<1> DEFINE Given == [name : ConfigOption \cap Range(line), value : Range(line)]
<1>1. Range(line) \subseteq Argument
  BY DEF Range
<1>2. Given \subseteq Option
  BY <1>1 DEF Option
<1>3. PICK m \in 0 .. Len(line) : options \in [1 .. m -> Given]
  BY DEF Readings, BoundedSeq, SeqOf
<1> HIDE DEF Given
<1>4. m \in Nat /\ options \in [1 .. m -> Option]
  BY <1>2, <1>3
<1> QED BY <1>4

LEMMA DirsAreArguments == Dirs[1] \in Argument /\ Dirs[2] \in Argument /\ Dirs \in Seq(Argument)
<1>1. Len(Dirs) = 2 /\ Dirs \in Seq(Argument)
  BY ArgsAssumption DEF Dirs
<1> HIDE DEF Dirs
<1> QED BY <1>1

LEMMA LinesAreWords ==
  ASSUME NEW line \in {CommandLine(options) : options \in OptionLists} \cup BadArgvs
  PROVE  line \in Seq(Word)
<1>1. CASE line \in BadArgvs
  BY <1>1, ArgsAssumption DEF Word
<1>2. CASE line \in {CommandLine(options) : options \in OptionLists}
  <2>1. PICK options \in OptionLists : line = CommandLine(options)
    BY <1>2
  <2>2. options \in Seq(Option)
    BY ArgsAssumption
  <2>3. Spelling(options) \in Seq(Word) /\ Dirs \in Seq(Word)
    BY <2>2, SpellingGrows, DirsAreArguments DEF Word
  <2> QED BY <2>1, <2>3 DEF CommandLine
<1> QED BY <1>1, <1>2

LEMMA ArgsInvInit == Init => ArgsInv
<1> SUFFICES ASSUME Init PROVE ArgsInv
  OBVIOUS
<1> DEFINE none == <<>>
<1>1. config \in Configuration /\ Reads(config, none)
  <2>1. /\ config = [root_a |-> "", root_b |-> "", thread_count |-> Cores,
                     include_lines |-> FALSE, include_unchanged |-> TRUE,
                     output_path |-> "verdiff_report.txt"]
        /\ Cores \in Nat \ {0}
    BY ArgsAssumption DEF Init
  <2>2. config \in Configuration
    BY <2>1 DEF Configuration, Texts
  <2>3. /\ config.thread_count = Cores /\ config.include_lines = FALSE
        /\ config.include_unchanged = TRUE /\ config.output_path = "verdiff_report.txt"
    BY <2>1
  <2> QED BY <2>2, <2>3, ReadsNone
<1>2. /\ argv \in {CommandLine(options) : options \in OptionLists} \cup BadArgvs
      /\ argi = 1 /\ pc = "args" /\ exit = NoExit
  BY DEF Init
<1>3. argv \in Seq(Word) /\ argi \in 1 .. Len(argv) + 1
  <2>1. argv \in Seq(Word)
    BY <1>2, LinesAreWords
  <2> QED BY <1>2, <2>1
<1>4. none \in Seq(Option) /\ Len(none) = 0 /\ Acceptable(none)
  BY DEF Acceptable
<1>5. ASSUME NEW options \in OptionLists
      PROVE  ReadWell(options)
  <2>1. Start(options, 0) = none /\ 0 \in 0 .. Len(options)
    <3>1. options \in Seq(Option)
      BY ArgsAssumption
    <3> QED BY <3>1, SubSeqEmpty DEF Start
  <2> QED BY <1>1, <1>2, <1>4, <2>1, SpellingNone DEF ReadWell
<1>6. ASSUME argv \in BadArgvs
      PROVE  ReadBadly
  <2>1. none \in Readings(argv)
    <3>1. 0 \in 0 .. Len(argv)
      BY <1>3
    <3>2. \A T : none \in [1 .. 0 -> T]
      OBVIOUS
    <3> QED BY <3>1, <3>2 DEF Readings, BoundedSeq, SeqOf
  <2>2. SubSeq(argv, 1, argi - 1) = none
    BY <1>2, <1>3, SubSeqEmpty
  <2>3. none \in Seq(Option) /\ Len(none) < argi /\ Acceptable(none)
    <3> HIDE DEF none
    <3> QED BY <1>2, <1>4
  <2>4. SubSeq(argv, 1, argi - 1) = Spelling(none)
    BY <2>2, SpellingNone, Zenon
  <2>5. ASSUME NEW options \in Readings(argv) PROVE OnTheWay(options)
    <3>1. options \in Seq(Option)
      BY <1>6, ArgsAssumption, ReadingsAreOptions
    <3>2. Start(options, 0) = none /\ 0 \in 0 .. Len(options)
      BY <3>1, SubSeqEmpty DEF Start
    <3>3. Len(Spelling(Start(options, 0))) = 0
      <4>1. Spelling(Start(options, 0)) = <<>>
        BY <3>2, SpellingNone, Zenon
      <4> QED BY <4>1
    <3> QED BY <1>2, <3>2, <3>3 DEF OnTheWay
  <2> HIDE DEF none
  <2> QED BY <1>2, <2>1, <2>3, <2>4, <2>5 DEF ReadBadly
<1> QED BY <1>1, <1>2, <1>3, <1>5, <1>6 DEF ArgsInv

\* A step of the command line, by the kind of argument it takes.
LEMMA ArgsSteps ==
  ASSUME [Next]_vars, pc = "args"
  PROVE  Informs \/ Flag \/ Threads \/ OutputFile \/ BadOption \/ Directories \/ UNCHANGED vars
BY DEF Next, Exited, Setup, ScanA, ScanB, PhaseFails, Plan, Planned, OpenReport, WriteLine,
       TextEnds, WriteFails, CloseReport, Return, Goes, TargetBecomes

\* The others leave it alone.
LEMMA LaterSteps ==
  ASSUME [Next]_vars, pc # "args"
  PROVE  /\ UNCHANGED optionVars /\ pc' # "args"
         /\ UNCHANGED exit \/ (exit' \in {0, 1} /\ pc # "exit")
         /\ pc = "exit" => pc' = "exit"
BY DEF Next, Exited, Setup, ScanA, ScanB, PhaseFails, Plan, Planned, OpenReport, WriteLine,
       TextEnds, WriteFails, CloseReport, Return, Goes, TargetBecomes, Exits, StopsWriting,
       Informs, Flag, Threads, OutputFile, BadOption, Directories, At, vars

LEMMA GoodLineRead ==
  ASSUME ArgsInv, [Next]_vars, pc = "args",
         NEW options \in OptionLists, argv = CommandLine(options)
  PROVE  /\ config' \in Configuration /\ argv' = argv /\ argi' \in 1 .. Len(argv) + 1
         /\ pc' = "args" => exit' = NoExit
         /\ exit' \in {NoExit, 2}
         /\ ReadWell(options)'
<1>1. /\ config \in Configuration /\ argv \in Seq(Word) /\ argi \in 1 .. Len(argv) + 1
      /\ exit = NoExit /\ ReadWell(options)
  BY DEF ArgsInv
<1>2. PICK k \in 0 .. Len(options) :
        /\ argi = Len(Spelling(Start(options, k))) + 1
        /\ Acceptable(Start(options, k))
        /\ Reads(config, Start(options, k))
  BY <1>1 DEF ReadWell
<1>3. options \in Seq(Option) /\ Len(options) \in Nat
  BY ArgsAssumption
<1>4. GoesOn(options, k, argi)
  BY <1>2, <1>3, LineGoesOn
<1>5. CASE k < Len(options)
  <2> DEFINE o == options[k + 1]
             first == Start(options, k)
  <2>1. /\ o \in Option /\ k + 1 \in 0 .. Len(options) /\ k + 1 \in 1 .. Len(options)
        /\ first \in Seq(Option) /\ Start(options, k + 1) = Append(first, o)
    <3>1. k + 1 \in 1 .. Len(options) /\ k + 1 \in 0 .. Len(options)
      BY <1>3, <1>5
    <3>2. o \in Option
      BY <1>3, <3>1
    <3> QED BY <1>3, <1>5, <3>1, <3>2, StartGrows
  <2> HIDE DEF o, first
  <2>2. /\ argi + 1 <= Len(argv) /\ argv[argi] = o.name
        /\ o.name \notin FlagOption => argv[argi + 1] = o.value
        /\ Len(Spelling(Append(first, o))) + 1 = IF o.name \in FlagOption THEN argi + 1 ELSE argi + 2
    BY <1>4, <1>5, <2>1 DEF GoesOn, OptionAt, o
  <2>3. o.name \in ConfigOption /\ o.value \in Argument /\ o.value \in Texts
    BY <2>1 DEF Option, Texts
  <2>4. Acceptable(first) /\ Reads(config, first)
    BY <1>2 DEF first
  <2> DEFINE Advances ==
        /\ Acceptable(Append(first, o)) /\ Reads(config, Append(first, o))'
        /\ argi' = Len(Spelling(Append(first, o))) + 1
        /\ config' \in Configuration /\ pc' = pc /\ exit' = exit /\ argv' = argv
  <2>5. ASSUME Advances PROVE
          /\ config' \in Configuration /\ argv' = argv /\ argi' \in 1 .. Len(argv) + 1
          /\ pc' = "args" => exit' = NoExit
          /\ exit' \in {NoExit, 2}
          /\ ReadWell(options)'
    <3>1. argi' \in 1 .. Len(argv) + 1
      BY <1>1, <2>2, <2>5
    <3>2. ReadWell(options)'
      BY <2>1, <2>5 DEF ReadWell
    <3> QED BY <1>1, <2>5, <3>1, <3>2
  <2>6. Acceptable(Append(first, o)) <=> (o.name \in ThreadOption => Number[o.value] # 0)
    BY <2>1, <2>4, AcceptableGrows
  <2>7. CASE Flag
    <3>1. o.name \in FlagOption
      BY <2>2, <2>7 DEF Flag, At
    <3>2. config' \in Configuration /\ Reads(config', Append(first, o))
      <4>1. CASE o.name = "--lines"
        <5>1. config' = [config EXCEPT !.include_lines = TRUE]
          BY <2>2, <2>7, <4>1 DEF Flag
        <5>2. Reads([config EXCEPT !.include_lines = TRUE], Append(first, o))
          BY <1>1, <2>1, <2>4, <4>1, ReadsGrows
        <5>3. config' \in Configuration
          BY <1>1, <5>1 DEF Configuration
        <5> QED BY <5>1, <5>2, <5>3
      <4>2. CASE o.name = "--skip-unchanged"
        <5>1. config' = [config EXCEPT !.include_unchanged = FALSE]
          BY <2>2, <2>7, <4>2 DEF Flag
        <5>2. Reads([config EXCEPT !.include_unchanged = FALSE], Append(first, o))
          BY <1>1, <2>1, <2>4, <4>2, ReadsGrows
        <5>3. config' \in Configuration
          BY <1>1, <5>1 DEF Configuration
        <5> QED BY <5>1, <5>2, <5>3
      <4> QED BY <3>1, <4>1, <4>2 DEF FlagOption
    <3>3. o.name \notin ThreadOption
      BY <3>1 DEF FlagOption, ThreadOption
    <3>4. argi' = argi + 1 /\ pc' = pc /\ exit' = exit /\ argv' = argv
      BY <2>7 DEF Flag
    <3>5. Reads(config, Append(first, o))'
      BY <3>2 DEF Reads
    <3>6. Advances
      BY <2>2, <2>6, <3>1, <3>2, <3>3, <3>4, <3>5
    <3> QED BY <2>5, <3>6
  <2>8. CASE Threads
    <3>1. o.name \in ThreadOption /\ o.name \notin FlagOption
      BY <2>2, <2>8 DEF Threads, At, ThreadOption, FlagOption
    <3>2. /\ config' = [config EXCEPT !.thread_count = Number[o.value]]
          /\ Number[o.value] # 0
          /\ argi' = argi + 2 /\ pc' = pc /\ exit' = exit /\ argv' = argv
      BY <2>2, <2>8, <3>1 DEF Threads, IsThreadCount, NextAfterArgument
    <3>3. Reads(config', Append(first, o))
      BY <1>1, <2>1, <2>4, <3>1, <3>2, ReadsGrows
    <3>4. config' \in Configuration
      <4>1. Number[o.value] \in Nat \ {0}
        BY <2>3, <3>2, ArgsAssumption
      <4> QED BY <1>1, <3>2, <4>1 DEF Configuration
    <3>5. Reads(config, Append(first, o))'
      BY <3>3 DEF Reads
    <3>6. Advances
      BY <2>2, <2>6, <3>1, <3>2, <3>4, <3>5
    <3> QED BY <2>5, <3>6
  <2>9. CASE OutputFile
    <3>1. o.name = "-o" /\ o.name \notin FlagOption /\ o.name \notin ThreadOption
      BY <2>2, <2>9 DEF OutputFile, At, ThreadOption, FlagOption
    <3>2. /\ config' = [config EXCEPT !.output_path = o.value]
          /\ argi' = argi + 2 /\ pc' = pc /\ exit' = exit /\ argv' = argv
      BY <2>2, <2>9, <3>1 DEF OutputFile, NextAfterArgument
    <3>3. Reads(config', Append(first, o))
      BY <1>1, <2>1, <2>4, <3>1, <3>2, ReadsGrows
    <3>4. config' \in Configuration
      BY <1>1, <2>3, <3>2 DEF Configuration
    <3>5. Reads(config, Append(first, o))'
      BY <3>3 DEF Reads
    <3>6. Advances
      BY <2>2, <2>6, <3>1, <3>2, <3>4, <3>5
    <3> QED BY <2>5, <3>6
  <2>10. CASE BadOption
    <3>1. /\ o.name \in ThreadOption \cup {"-o"} /\ o.name # "-o" /\ Number[argv[argi + 1]] = 0
          /\ pc' = "exit" /\ exit' = 2 /\ UNCHANGED optionVars
      BY <1>1, <2>2, <2>10 DEF BadOption, IsThreadCount, At, HasArgument, Exits
    <3>2. o.name \in ThreadOption /\ Number[o.value] = 0
      BY <2>2, <3>1 DEF ThreadOption, FlagOption
    <3>3. ~Acceptable(options)
      BY <2>1, <3>2 DEF Acceptable, o
    <3> QED BY <1>1, <3>1, <3>3 DEF ReadWell, optionVars
  <2>11. ~Informs /\ ~Directories
    BY <1>1, <2>2, <2>3 DEF Informs, Directories, At, ConfigOption, ThreadOption, FlagOption, InfoOption
  <2>12. CASE UNCHANGED vars
    BY <1>1, <2>12 DEF ReadWell, vars, optionVars, Reads
  <2> QED BY <2>7, <2>8, <2>9, <2>10, <2>11, <2>12, ArgsSteps
<1>6. CASE ~(k < Len(options))
  <2>1. k = Len(options) /\ Start(options, k) = options
    <3>1. k = Len(options)
      BY <1>3, <1>6
    <3> QED BY <1>3, <3>1, SubSeqFull DEF Start
  <2>2. Len(argv) - argi = 1 /\ argv[argi] = Dirs[1] /\ argv[argi + 1] = Dirs[2]
    BY <1>4, <1>6 DEF GoesOn
  <2>3. argv[argi] \notin ConfigOption \cup InfoOption
    BY <2>2 DEF Dirs, ConfigOption, ThreadOption, FlagOption, InfoOption
  <2>4. ~Informs /\ ~Flag /\ ~Threads /\ ~OutputFile /\ ~BadOption
    BY <2>3 DEF Informs, Flag, Threads, OutputFile, BadOption, At, ConfigOption
  <2>5. CASE Directories
    <3>1. /\ config' = [config EXCEPT !.root_a = Dirs[1], !.root_b = Dirs[2]]
          /\ pc' = "init" /\ exit' = exit /\ argv' = argv /\ argi' = argi
      BY <2>2, <2>5 DEF Directories
    <3>2. Dirs[1] \in Texts /\ Dirs[2] \in Texts
      BY DirsAreArguments DEF Texts
    <3>3. /\ config' \in Configuration
          /\ config'.root_a = Dirs[1] /\ config'.root_b = Dirs[2]
          /\ Reads(config', options)
      BY <1>1, <1>2, <2>1, <3>1, <3>2 DEF Configuration, Reads
    <3>4. config' = Understood(options)
      BY <3>3, ReadsIsUnderstood
    <3>5. ReadWell(options)'
      BY <1>1, <1>2, <2>1, <3>1, <3>4 DEF ReadWell, NoExit
    <3> QED BY <1>1, <3>1, <3>3, <3>5
  <2>6. CASE UNCHANGED vars
    BY <1>1, <2>6 DEF ReadWell, vars, optionVars, Reads
  <2> QED BY <2>4, <2>5, <2>6, ArgsSteps
<1> QED BY <1>5, <1>6

LEMMA OneElement ==
  ASSUME NEW S, NEW s \in Seq(S), NEW i \in 1 .. Len(s)
  PROVE  SubSeq(s, i, i) = <<s[i]>>
<1>1. Len(s) \in Nat /\ s[i] \in S
  OBVIOUS
<1>2. /\ SubSeq(s, i, i) \in Seq(S) /\ Len(SubSeq(s, i, i)) = i - i + 1
      /\ \A j \in 1 .. i - i + 1 : SubSeq(s, i, i)[j] = s[i + j - 1]
  BY <1>1, SubSeqProperties
<1> DEFINE t == SubSeq(s, i, i)
<1>3. t \in Seq(S) /\ Len(t) = 1 /\ t[1] = s[i]
  BY <1>2
<1> HIDE DEF t
<1>4. t = <<s[i]>>
  BY <1>1, <1>3
<1> QED BY <1>4 DEF t

LEMMA TwoElements ==
  ASSUME NEW S, NEW s \in Seq(S), NEW i \in 1 .. Len(s), i + 1 \in 1 .. Len(s)
  PROVE  SubSeq(s, i, i + 1) = <<s[i], s[i + 1]>>
<1> DEFINE t == SubSeq(s, i, i + 1)
<1>1. /\ Len(s) \in Nat /\ i \in Int /\ i + 1 \in Int /\ i <= i + 1
      /\ s[i] \in S /\ s[i + 1] \in S /\ \A j \in i .. i + 1 : s[j] \in S
  OBVIOUS
<1>2. /\ t \in Seq(S) /\ Len(t) = (i + 1) - i + 1
      /\ \A j \in 1 .. (i + 1) - i + 1 : t[j] = s[i + j - 1]
  <2> DEFINE next == i + 1
  <2>1. /\ i \in Int /\ next \in Int /\ i <= next /\ \A j \in i .. next : s[j] \in S
    BY <1>1
  <2> HIDE DEF next
  <2>2. /\ SubSeq(s, i, next) \in Seq(S) /\ Len(SubSeq(s, i, next)) = next - i + 1
        /\ \A j \in 1 .. next - i + 1 : SubSeq(s, i, next)[j] = s[i + j - 1]
    BY <2>1, SubSeqProperties
  <2> QED BY <2>2 DEF next
<1>3. t \in Seq(S) /\ Len(t) = 2 /\ t[1] = s[i] /\ t[2] = s[i + 1]
  <2>1. (i + 1) - i + 1 = 2 /\ 1 \in 1 .. 2 /\ 2 \in 1 .. 2
        /\ i + 1 - 1 = i /\ i + 2 - 1 = i + 1
    BY <1>1
  <2> HIDE DEF t
  <2> QED BY <1>2, <2>1
<1> HIDE DEF t
<1>4. t = <<s[i], s[i + 1]>>
  BY <1>1, <1>3
<1> QED BY <1>4 DEF t

\* The options before a question are read one by one, and the question answered.
LEMMA QuestionReached ==
  ASSUME ArgsInv, [Next]_vars, pc = "args", argv \in BadArgvs,
         NEW options \in Seq(Option), Asks(argv, options), OnTheWay(options)
  PROVE  IF pc' = "args" THEN OnTheWay(options)' ELSE pc' = "exit" /\ exit' = 0
<1>1. argv \in Seq(Word) /\ argi \in 1 .. Len(argv) + 1 /\ Len(options) \in Nat
  BY DEF ArgsInv
<1>2. PICK k \in 0 .. Len(options) : argi = Len(Spelling(Start(options, k))) + 1
  BY DEF OnTheWay
<1>3. /\ BeginsWith(options) /\ Len(argv) \in Nat
      /\ argv[Len(Spelling(options)) + 1] \in InfoOption
  BY <1>1, QuestionBehind
<1>4. /\ Len(Spelling(Start(options, k))) \in Nat
      /\ k < Len(options) => OptionAt(options, k, argi)
      /\ ~(k < Len(options)) => Start(options, k) = options
  BY <1>2, <1>3, OptionsGoOn
<1>5. CASE k < Len(options)
  <2> DEFINE o == options[k + 1]
  <2>1. k + 1 \in 0 .. Len(options) /\ k + 1 \in 1 .. Len(options) /\ o \in Option
    <3>1. k + 1 \in 0 .. Len(options) /\ k + 1 \in 1 .. Len(options)
      BY <1>1, <1>5
    <3> QED BY <3>1
  <2>2. o.name \in ThreadOption => Number[o.value] # 0
    BY <2>1 DEF Asks, Acceptable
  <2> HIDE DEF o
  <2>3. /\ argi + 1 <= Len(argv) /\ argv[argi] = o.name
        /\ o.name \notin FlagOption => argv[argi + 1] = o.value
        /\ Len(Spelling(Start(options, k + 1))) + 1 =
             IF o.name \in FlagOption THEN argi + 1 ELSE argi + 2
    BY <1>4, <1>5 DEF OptionAt, o
  <2>4. o.name \in ConfigOption
    BY <2>1 DEF Option
  <2>5. ASSUME argi' = Len(Spelling(Start(options, k + 1))) + 1, pc' = pc
        PROVE  IF pc' = "args" THEN OnTheWay(options)' ELSE pc' = "exit" /\ exit' = 0
    BY <2>1, <2>5 DEF OnTheWay
  <2>6. CASE Flag
    BY <2>3, <2>5, <2>6 DEF Flag, At
  <2>7. CASE Threads \/ OutputFile
    <3>1. o.name \notin FlagOption
      BY <2>3, <2>7 DEF Threads, OutputFile, At, ThreadOption, FlagOption
    <3>2. argi' = argi + 2 /\ pc' = pc
      BY <2>7 DEF Threads, OutputFile, NextAfterArgument
    <3> QED BY <2>3, <2>5, <3>1, <3>2
  <2>8. ~BadOption
    <3> SUFFICES ASSUME BadOption PROVE FALSE
      OBVIOUS
    <3>1. o.name \in ThreadOption /\ Number[argv[argi + 1]] = 0
      BY <1>3, <2>3 DEF BadOption, At, HasArgument, IsThreadCount
    <3>2. o.name \notin FlagOption
      BY <3>1 DEF ThreadOption, FlagOption
    <3> QED BY <2>2, <2>3, <3>1, <3>2
  <2>9. ~Informs /\ ~Directories
    BY <1>1, <2>3, <2>4 DEF Informs, Directories, At, ConfigOption, ThreadOption, FlagOption, InfoOption
  <2>10. CASE UNCHANGED vars
    BY <1>2, <2>10 DEF vars, optionVars, OnTheWay
  <2> QED BY <2>6, <2>7, <2>8, <2>9, <2>10, ArgsSteps
<1>6. CASE ~(k < Len(options))
  <2>1. argv[argi] \in InfoOption /\ argi <= Len(argv)
    BY <1>2, <1>3, <1>4, <1>6 DEF BeginsWith
  <2>2. ~Flag /\ ~Threads /\ ~OutputFile /\ ~BadOption /\ ~Directories
    BY <2>1 DEF Flag, Threads, OutputFile, BadOption, Directories, At,
                ThreadOption, FlagOption, InfoOption
  <2>3. CASE Informs
    BY <2>3 DEF Informs, Exits
  <2>4. CASE UNCHANGED vars
    BY <1>2, <2>4 DEF vars, optionVars, OnTheWay
  <2> QED BY <2>2, <2>3, <2>4, ArgsSteps
<1> QED BY <1>5, <1>6

LEMMA BadLineRead ==
  ASSUME ArgsInv, [Next]_vars, pc = "args", argv \in BadArgvs
  PROVE  /\ config' \in Configuration /\ argv' = argv /\ argi' \in 1 .. Len(argv) + 1
         /\ pc' = "args" => exit' = NoExit
         /\ ReadBadly'
<1>1. /\ config \in Configuration /\ argi \in 1 .. Len(argv) + 1
      /\ exit = NoExit /\ ReadBadly
  BY DEF ArgsInv
<1>2. PICK done \in Readings(argv) :
        /\ done \in Seq(Option) /\ Len(done) < argi
        /\ SubSeq(argv, 1, argi - 1) = Spelling(done)
        /\ Acceptable(done)
  BY <1>1 DEF ReadBadly
<1>10. ASSUME NEW options \in Readings(argv), Asks(argv, options)
       PROVE  IF pc' = "args" THEN OnTheWay(options)' ELSE pc' = "exit" /\ exit' = 0
  <2>1. options \in Seq(Option) /\ OnTheWay(options)
    BY <1>1, <1>10, ArgsAssumption, ReadingsAreOptions DEF ReadBadly
  <2> QED BY <1>10, <2>1, QuestionReached
<1>3. /\ argv \in Seq(Argument) /\ ~IsCommandLine(argv) /\ Len(argv) \in Nat
      /\ \A i \in 1 .. Len(argv) : argv[i] \in Argument /\ argv[i] \in Range(argv)
  <2>1. argv \in Seq(Argument) /\ ~IsCommandLine(argv)
    BY ArgsAssumption
  <2> QED BY <2>1 DEF Range
<1> DEFINE Given == [name : ConfigOption \cap Range(argv), value : Range(argv)]
<1>4. ASSUME NEW o \in Option, o \in Given, (argi + Len(Spelled(o))) - 1 <= Len(argv),
             SubSeq(argv, argi, (argi + Len(Spelled(o))) - 1) = Spelled(o),
             o.name \in ThreadOption => Number[o.value] # 0,
             argi' = argi + Len(Spelled(o)), config' \in Configuration, pc' = pc, exit' = exit, argv' = argv
      PROVE  /\ config' \in Configuration /\ argv' = argv /\ argi' \in 1 .. Len(argv) + 1
             /\ pc' = "args" => exit' = NoExit
             /\ ReadBadly'
  <2> DEFINE more == Append(done, o)
             next == argi + Len(Spelled(o))
  <2>1. Spelled(o) \in Seq(Word) /\ Len(Spelled(o)) \in {1, 2}
    BY SpelledIs
  <2>2. next \in 1 .. Len(argv) + 1 /\ argi < next /\ argi - 1 \in 0 .. next - 1
    <3> DEFINE length == Len(Spelled(o))
               last == Len(argv)
    <3>1. /\ length \in {1, 2} /\ last \in Nat /\ argi \in 1 .. last + 1
          /\ (argi + length) - 1 <= last /\ next = argi + length
      BY <1>1, <1>3, <1>4, <2>1
    <3> HIDE DEF length, last, next
    <3>2. next \in 1 .. last + 1 /\ argi < next /\ argi - 1 \in 0 .. next - 1
      BY <3>1
    <3> QED BY <3>2 DEF last
  <2>9. argi' = next
    BY <1>4
  <2>10. SubSeq(argv, argi, next - 1) = Spelled(o)
    BY <1>4
  <2> HIDE DEF next
  <2>3. more \in Seq(Option) /\ Len(more) = Len(done) + 1 /\ Len(done) \in Nat
    BY <1>2
  <2>4. Len(more) < next /\ Len(more) \in 0 .. Len(argv)
    <3> HIDE DEF more
    <3> QED BY <1>1, <1>2, <1>3, <2>2, <2>3
  <2>5. more \in Readings(argv)
    <3>1. done \in Seq(Given)
      <4>1. PICK m \in 0 .. Len(argv) : done \in [1 .. m -> Given]
        BY <1>2 DEF Readings, BoundedSeq, SeqOf
      <4> HIDE DEF Given
      <4> QED BY <1>3, <4>1
    <3>2. more \in Seq(Given)
      <4> HIDE DEF Given
      <4> QED BY <1>4, <3>1
    <3>3. more \in [1 .. Len(more) -> Given]
      <4> HIDE DEF more, Given
      <4> QED BY <3>2
    <3> HIDE DEF more, Given
    <3>4. more \in SeqOf(Given, Len(argv))
      BY <2>4, <3>3 DEF SeqOf
    <3> QED BY <3>4 DEF Readings, BoundedSeq, Given
  <2>6. Acceptable(more)
    BY <1>2, <1>4, AcceptableGrows
  <2>7. SubSeq(argv, 1, next - 1) = Spelling(more)
    <3>1. Spelling(more) = Spelling(done) \o Spelled(o)
      BY <1>2, SpellingGrows
    <3>2. SubSeq(argv, 1, next - 1) = SubSeq(argv, 1, argi - 1) \o SubSeq(argv, argi, next - 1)
      <4> DEFINE a == SubSeq(argv, 1, argi - 1)
                 b == SubSeq(argv, argi, next - 1)
                 c == SubSeq(argv, 1, next - 1)
      <4>1. a \in Seq(Argument) /\ Len(a) = argi - 1 /\ \A i \in 1 .. argi - 1 : a[i] = argv[i]
        BY <1>1, <1>3, SubSeqProperties
      <4>2. /\ b \in Seq(Argument) /\ Len(b) = next - argi
            /\ \A i \in 1 .. next - argi : b[i] = argv[argi + i - 1]
        BY <1>1, <1>3, <2>2, SubSeqProperties
      <4>3. c \in Seq(Argument) /\ Len(c) = next - 1 /\ \A i \in 1 .. next - 1 : c[i] = argv[i]
        BY <1>1, <1>3, <2>2, SubSeqProperties
      <4> HIDE DEF a, b, c
      <4>4. /\ a \o b \in Seq(Argument) /\ Len(a \o b) = next - 1
            /\ \A i \in 1 .. next - 1 :
                 (a \o b)[i] = IF i <= argi - 1 THEN a[i] ELSE b[i - (argi - 1)]
        <5>1. /\ a \o b \in Seq(Argument) /\ Len(a \o b) = Len(a) + Len(b)
              /\ \A i \in 1 .. Len(a) + Len(b) :
                   (a \o b)[i] = IF i <= Len(a) THEN a[i] ELSE b[i - Len(a)]
          BY <4>1, <4>2, ConcatProperties, Zenon
        <5>2. Len(a) + Len(b) = next - 1
          BY <1>1, <2>2, <4>1, <4>2
        <5> QED BY <4>1, <5>1, <5>2
      <4>5. ASSUME NEW i \in 1 .. next - 1 PROVE (a \o b)[i] = c[i]
        <5>1. CASE i <= argi - 1
          <6>1. i \in 1 .. argi - 1
            BY <1>1, <2>2, <5>1
          <6> QED BY <4>1, <4>3, <4>4, <5>1, <6>1
        <5>2. CASE ~(i <= argi - 1)
          <6>1. i - (argi - 1) \in 1 .. next - argi /\ argi + (i - (argi - 1)) - 1 = i
            BY <1>1, <2>2, <5>2
          <6>2. b[i - (argi - 1)] = argv[i]
            BY <4>2, <6>1
          <6> QED BY <4>3, <4>4, <5>2, <6>2
        <5> QED BY <5>1, <5>2
      <4>6. a \o b = c
        BY <4>3, <4>4, <4>5, SeqEqual
      <4> QED BY <4>6 DEF a, b, c
    <3> QED BY <1>2, <2>10, <3>1, <3>2
  <2> HIDE DEF more
  <2>11. /\ pc' = "args"
         /\ \A options \in Readings(argv) : Asks(argv, options) => OnTheWay(options)'
    BY <1>4, <1>10
  <2>12. \A options : (Asks(argv, options))' <=> Asks(argv, options)
    BY <1>4 DEF Asks
  <2>8. ReadBadly'
    BY <1>4, <2>3, <2>4, <2>5, <2>6, <2>7, <2>9, <2>11, <2>12 DEF ReadBadly
  <2> QED BY <1>1, <1>4, <2>2, <2>8, <2>9
<1>5. CASE Flag
  <2>0. PICK o : o = [name |-> argv[argi], value |-> argv[argi]]
    OBVIOUS
  <2>1. argi \in 1 .. Len(argv) /\ argv[argi] \in FlagOption
    BY <1>1, <1>3, <1>5 DEF Flag, At
  <2>2. o \in Option /\ o \in Given /\ o.name \in FlagOption
    BY <1>3, <2>0, <2>1 DEF Option, ConfigOption
  <2>3. Spelled(o) = <<argv[argi]>> /\ Len(Spelled(o)) = 1
    BY <2>0, <2>1 DEF Spelled
  <2>4. SubSeq(argv, argi, argi) = <<argv[argi]>>
    BY <1>3, <2>1, OneElement
  <2>5. config' \in Configuration
    BY <1>1, <1>5 DEF Flag, Configuration
  <2>6. argi' = argi + 1 /\ pc' = pc /\ exit' = exit /\ argv' = argv
    BY <1>5 DEF Flag
  <2>7. o.name \notin ThreadOption
    BY <2>0, <2>1 DEF FlagOption, ThreadOption
  <2>8. /\ argi + 1 = argi + Len(Spelled(o)) /\ (argi + Len(Spelled(o))) - 1 = argi
        /\ argi <= Len(argv)
    BY <1>3, <2>1, <2>3
  <2> QED BY <1>4, <2>2, <2>3, <2>4, <2>5, <2>6, <2>7, <2>8
<1>6. CASE Threads \/ OutputFile
  <2>0. PICK o : o = [name |-> argv[argi], value |-> argv[argi + 1]]
    OBVIOUS
  <2>1. /\ argi \in 1 .. Len(argv) /\ argi + 1 \in 1 .. Len(argv)
        /\ argv[argi] \in ThreadOption \cup {"-o"}
        /\ argv[argi] \in ThreadOption => Number[argv[argi + 1]] # 0
    BY <1>1, <1>3, <1>6 DEF Threads, IsThreadCount, OutputFile, At, HasArgument, ThreadOption
  <2>2. o \in Option /\ o \in Given /\ o.name \notin FlagOption
    BY <1>3, <2>0, <2>1 DEF Option, ConfigOption, FlagOption, ThreadOption
  <2>3. Spelled(o) = <<argv[argi], argv[argi + 1]>> /\ Len(Spelled(o)) = 2
    BY <2>0, <2>2 DEF Spelled
  <2>4. SubSeq(argv, argi, argi + 1) = <<argv[argi], argv[argi + 1]>>
    BY <1>3, <2>1, TwoElements
  <2>5. config' \in Configuration
    <3>1. Number[argv[argi + 1]] \in Nat /\ argv[argi + 1] \in Texts
      BY <1>3, <2>1, ArgsAssumption DEF Texts
    <3>2. CASE Threads
      BY <1>1, <3>1, <3>2 DEF Threads, IsThreadCount, Configuration
    <3>3. CASE OutputFile
      BY <1>1, <3>1, <3>3 DEF OutputFile, Configuration
    <3> QED BY <1>6, <3>2, <3>3
  <2>6. argi' = argi + 2 /\ pc' = pc /\ exit' = exit /\ argv' = argv
    BY <1>6 DEF Threads, OutputFile, NextAfterArgument
  <2>7. o.name \in ThreadOption => Number[o.value] # 0
    BY <2>0, <2>1
  <2>8. /\ argi + 2 = argi + Len(Spelled(o)) /\ (argi + Len(Spelled(o))) - 1 = argi + 1
        /\ argi + 1 <= Len(argv)
    BY <1>3, <2>1, <2>3
  <2> QED BY <1>4, <2>2, <2>3, <2>4, <2>5, <2>6, <2>7, <2>8
<1>11. ASSUME UNCHANGED optionVars, pc' = "exit",
              (exit' = 0 /\ \E options \in Readings(argv) : Asks(argv, options)) \/ exit' = 2
       PROVE  ReadBadly'
  <2>1. argv' = argv /\ pc' # "args"
    BY <1>11 DEF optionVars
  <2>2. exit' = 2 => ~\E options \in Readings(argv) : Asks(argv, options)
    BY <1>10, <2>1
  <2>3. \A options : (Asks(argv, options))' <=> Asks(argv, options)
    BY <2>1 DEF Asks
  <2> QED BY <1>11, <2>1, <2>2, <2>3 DEF ReadBadly
<1>7. CASE Informs
  <2>1. UNCHANGED optionVars /\ pc' = "exit" /\ exit' = 0
    BY <1>7 DEF Informs, Exits
  <2>2. argi \in 1 .. Len(argv) /\ argv[argi] \in InfoOption
    BY <1>1, <1>3, <1>7 DEF Informs, At
  <2>3. Asks(argv, done)
    BY <1>2, <1>3, <2>2, QuestionFound
  <2> QED BY <1>1, <1>2, <1>11, <2>1, <2>3 DEF optionVars
<1>12. CASE BadOption
  <2>1. UNCHANGED optionVars /\ pc' = "exit" /\ exit' = 2
    BY <1>12 DEF BadOption, Exits
  <2> QED BY <1>1, <1>11, <2>1 DEF optionVars
<1>8. CASE Directories
  <2>1. Len(argv) - argi # 1
    <3> SUFFICES ASSUME Len(argv) - argi = 1 PROVE FALSE
      OBVIOUS
    <3> DEFINE a == argv[argi]
               b == argv[argi + 1]
    <3>1. argi \in 1 .. Len(argv) /\ argi + 1 \in 1 .. Len(argv) /\ argi + 1 = Len(argv)
      BY <1>1, <1>3
    <3>2. a \notin ConfigOption \cup InfoOption
      BY <1>8, <3>1 DEF Directories
    <3>3. argv = SubSeq(argv, 1, argi - 1) \o <<a, b>>
      <4> DEFINE p == SubSeq(argv, 1, argi - 1)
      <4>1. p \in Seq(Argument) /\ Len(p) = argi - 1 /\ \A i \in 1 .. argi - 1 : p[i] = argv[i]
        BY <1>1, <1>3, <3>1, SubSeqProperties
      <4>2. <<a, b>> \in Seq(Argument)
        BY <1>3, <3>1
      <4> HIDE DEF p
      <4>3. /\ p \o <<a, b>> \in Seq(Argument) /\ Len(p \o <<a, b>>) = argi + 1
            /\ \A i \in 1 .. argi + 1 : (p \o <<a, b>>)[i] = argv[i]
        BY <1>3, <3>1, <4>1, <4>2
      <4>4. argv = p \o <<a, b>>
        <5> HIDE DEF a, b
        <5> QED BY <1>3, <3>1, <4>3, SeqEqual
      <4> QED BY <4>4 DEF p
    <3>4. a \in Range(argv) /\ b \in Range(argv)
      BY <1>3, <3>1
    <3> HIDE DEF a, b
    <3>5. argv = Spelling(done) \o <<a, b>>
      BY <1>2, <3>3
    <3>6. IsCommandLine(argv)
      BY <1>2, <3>2, <3>4, <3>5 DEF IsCommandLine
    <3> QED BY <1>3, <3>6
  <2>2. pc' = "exit" /\ exit' = 2 /\ UNCHANGED optionVars
    BY <1>8, <2>1 DEF Directories, Exits, optionVars
  <2> QED BY <1>1, <1>11, <2>2 DEF optionVars
<1>9. CASE UNCHANGED vars
  BY <1>1, <1>9 DEF vars, optionVars, ReadBadly, Asks, OnTheWay
<1> QED BY <1>5, <1>6, <1>7, <1>8, <1>9, <1>12, ArgsSteps

LEMMA ArgsInvInductive == ArgsInv /\ [Next]_vars => ArgsInv'
<1> SUFFICES ASSUME ArgsInv, [Next]_vars PROVE ArgsInv'
  OBVIOUS
<1>1. CASE pc = "args"
  <2>1. /\ config' \in Configuration /\ argv' = argv /\ argi' \in 1 .. Len(argv) + 1
        /\ pc' = "args" => exit' = NoExit
    <3>1. CASE argv \in BadArgvs
      BY <1>1, <3>1, BadLineRead
    <3>2. CASE argv \in {CommandLine(options) : options \in OptionLists}
      BY <1>1, <3>2, GoodLineRead
    <3> QED BY <3>1, <3>2 DEF ArgsInv
  <2>2. \A options \in OptionLists : argv = CommandLine(options) => ReadWell(options)'
    BY <1>1, GoodLineRead
  <2>3. argv \in BadArgvs => ReadBadly'
    BY <1>1, BadLineRead
  <2> QED BY <2>1, <2>2, <2>3 DEF ArgsInv
<1>2. CASE pc # "args"
  <2>1. /\ argv' = argv /\ argi' = argi /\ config' = config /\ pc' # "args"
        /\ UNCHANGED exit \/ (exit' \in {0, 1} /\ pc # "exit")
        /\ pc = "exit" => pc' = "exit"
    BY <1>2, LaterSteps DEF optionVars
  <2>2. ASSUME NEW options \in OptionLists, argv = CommandLine(options)
        PROVE  ReadWell(options)'
    BY <1>2, <2>1, <2>2 DEF ArgsInv, ReadWell
  <2>3. argv \in BadArgvs => ReadBadly'
    BY <1>2, <2>1 DEF ArgsInv, ReadBadly, Asks
  <2> QED BY <2>1, <2>2, <2>3 DEF ArgsInv
<1> QED BY <1>1, <1>2

\* Any options in any order and number, then two directories (src/main.c:16),
\* are each understood on their own, and the last of a kind counts; a number of
\* threads that is 0 or no number at all is refused.  Every other command line
\* starts nothing, and its exit code is 0 exactly if it asks for help or the
\* version before anything is wrong with it, else 2 (src/main.c:50-100): for every
\* table of numbers, however long the command line.
THEOREM ArgsUnderstoodEver == Spec => []ArgsUnderstood
<1>1. ArgsInv => ArgsUnderstood
  BY DEF ArgsInv, ArgsUnderstood, ReadWell, ReadBadly
<1> QED BY <1>1, ArgsInvInit, ArgsInvInductive, PTL DEF Spec

----------------------------------------------------------------------------
(* The report of the run before *)

BeforeOpen == {"args", "init", "scan_a", "scan_b", "compare", "open"}
AfterPlan == {"open", "report", "close", "summary"}

\* The file is first touched when it is opened, which only a success of
\* plan_and_compare leads to; nothing changes that result afterwards.
PhaseInv ==
  /\ pc \in BeforeOpen => detail = Stream(OldReport)
  /\ pc \in AfterPlan => result = "success"
  /\ OldReportSurvives

LEMMA PhaseInvInit == Init => PhaseInv
BY DEF Init, PhaseInv, OldReportSurvives, BeforeOpen, AfterPlan

\* A step that leaves report file and result alone, and goes on only as far
\* as they allow.
LEMMA PhasesInOrder ==
  ASSUME PhaseInv, UNCHANGED <<detail, result>>,
         pc' \in BeforeOpen => pc \in BeforeOpen,
         pc' \in AfterPlan => pc \in AfterPlan \/ result = "success"
  PROVE  PhaseInv'
BY DEF PhaseInv, OldReportSurvives

LEMMA PhaseInvInductive == PhaseInv /\ [Next]_vars => PhaseInv'
<1> SUFFICES ASSUME PhaseInv, [Next]_vars PROVE PhaseInv'
  OBVIOUS
<1> USE DEF BeforeOpen, AfterPlan
<1>1. CASE Informs \/ Flag \/ Threads \/ OutputFile \/ BadOption \/ Directories
  <2>1. UNCHANGED <<detail, result>> /\ pc = "args" /\ pc' \in {"args", "init", "exit"}
    BY <1>1 DEF Informs, Flag, Threads, OutputFile, BadOption, Directories, At,
                Exits, AfterArgs, compareVars, streamVars
  <2> QED BY <2>1, PhasesInOrder
<1>2. CASE Setup \/ ScanA \/ ScanB \/ PhaseFails
  <2>1. /\ UNCHANGED <<detail, result>>
        /\ pc' \in BeforeOpen \cup {"cleanup"} /\ pc' # "open"
        /\ pc \in BeforeOpen
    BY <1>2 DEF Setup, ScanA, ScanB, PhaseFails, Goes, compareVars, streamVars
  <2> QED BY <2>1, PhasesInOrder
<1>3. CASE Plan
  BY <1>3 DEF Plan, PhaseInv, OldReportSurvives, streamVars
<1>4. CASE Planned
  <2>1. /\ UNCHANGED <<detail, result>> /\ pc = "compare"
        /\ pc' = "cleanup" \/ (pc' = "open" /\ result = "success")
    BY <1>4 DEF Planned, RcOfPlan, compareVars, streamVars
  <2> QED BY <2>1, PhasesInOrder
<1>5. CASE OpenReport
  BY <1>5 DEF OpenReport, Goes, PhaseInv, OldReportSurvives, compareVars
<1>6. CASE WriteLine \/ \E n \in 0 .. BufferSize : WriteFails(n)
  <2>1. /\ UNCHANGED result /\ pc \in {"report", "summary"}
        /\ pc' \in {pc, "close", "cleanup"}
    BY <1>6 DEF WriteLine, WriteFails, TargetBecomes, StopsWriting, compareVars
  <2> QED BY <2>1 DEF PhaseInv, OldReportSurvives
<1>7. CASE TextEnds
  <2>1. UNCHANGED <<detail, result>> /\ pc \in AfterPlan /\ pc' \in {"close", "cleanup"}
    BY <1>7 DEF TextEnds, Goes, compareVars, streamVars
  <2> QED BY <2>1, PhasesInOrder
<1>8. CASE \E n \in 0 .. BufferSize : CloseReport(n)
  <2>1. UNCHANGED result /\ pc = "close" /\ pc' \in {"summary", "cleanup"}
    BY <1>8 DEF CloseReport, compareVars
  <2> QED BY <2>1 DEF PhaseInv, OldReportSurvives
<1>9. CASE \E n \in 0 .. BufferSize : Return(n)
  <2>1. UNCHANGED <<detail, result>> /\ pc' = "exit"
    BY <1>9 DEF Return, Exits, compareVars
  <2> QED BY <2>1, PhasesInOrder
<1>10. CASE UNCHANGED vars
  BY <1>10, PhasesInOrder DEF vars, compareVars, streamVars
<1> QED BY <1>1, <1>2, <1>3, <1>4, <1>5, <1>6, <1>7, <1>8, <1>9, <1>10
        DEF Next, Exited

\* A run that fails before every verdict is known, or is refused, leaves the
\* report of the run before as it was, whatever fails and whatever the command
\* line says: fopen "wb" is reached by a success only (src/main.c:137-154).
THEOREM OldReportSurvivesEver == Spec => []OldReportSurvives
<1>1. PhaseInv => OldReportSurvives
  BY DEF PhaseInv
<1> QED BY <1>1, PhaseInvInit, PhaseInvInductive, PTL DEF Spec

----------------------------------------------------------------------------
(* Texts and the streams they go through *)

IsText(x) == \E T : x \in Seq(T)

LEMMA TextGrows ==
  ASSUME NEW x, NEW y, IsText(x), IsText(y)
  PROVE  IsText(x \o y) /\ \E T : x \in Seq(T) /\ y \in Seq(T)
<1>1. PICK X : x \in Seq(X)
  BY DEF IsText
<1>2. PICK Y : y \in Seq(Y)
  BY DEF IsText
<1>3. x \in Seq(X \cup Y) /\ y \in Seq(X \cup Y)
  BY <1>1, <1>2
<1>4. x \o y \in Seq(X \cup Y)
  BY <1>3
<1> QED BY <1>3, <1>4 DEF IsText

LEMMA OneLine == \A line : IsText(<<line>>)
<1> SUFFICES ASSUME NEW line PROVE IsText(<<line>>)
  OBVIOUS
<1>1. <<line>> \in Seq({line})
  OBVIOUS
<1> QED BY <1>1 DEF IsText

IsStream(s) ==
  /\ \E T : s \in [sent : Seq(T), held : Seq(T)]
  /\ Len(s.held) <= BufferSize

LEMMA NewStream ==
  ASSUME NEW text, IsText(text)
  PROVE  IsStream(Stream(text)) /\ Written(Stream(text)) = text
<1>1. PICK T : text \in Seq(T)
  BY DEF IsText
<1>2. Stream(text) \in [sent : Seq(T), held : Seq(T)]
  BY <1>1 DEF Stream
<1>3. /\ Stream(text).held = <<>> /\ Stream(text).sent = text
      /\ Len(<<>>) <= BufferSize
  BY BufferAssumption DEF Stream
<1>4. text \o <<>> = text
  BY <1>1, ConcatEmptySeq
<1> QED BY <1>2, <1>3, <1>4 DEF IsStream, Written

LEMMA DrainedStream ==
  ASSUME NEW s, IsStream(s), NEW n \in 0 .. Len(s.held)
  PROVE  /\ IsStream(Drained(s, n)) /\ Written(Drained(s, n)) = Written(s)
         /\ Len(Drained(s, n).held) = Len(s.held) - n
<1>1. PICK T : s \in [sent : Seq(T), held : Seq(T)]
  BY DEF IsStream
<1> DEFINE sent == s.sent
           held == s.held
           first == SubSeq(held, 1, n)
           rest == SubSeq(held, n + 1, Len(held))
<1>2. sent \in Seq(T) /\ held \in Seq(T) /\ Len(held) \in Nat /\ Len(held) <= BufferSize
  BY <1>1 DEF IsStream
<1>3. Drained(s, n) = [sent |-> sent \o first, held |-> rest]
  BY DEF Drained
<1>4. n \in 0 .. Len(held)
  OBVIOUS
<1> HIDE DEF sent, held
<1>5. /\ first \in Seq(T) /\ Len(first) = n
      /\ \A i \in 1 .. n : first[i] = held[i]
  BY <1>2, <1>4, SubSeqProperties
<1>6. /\ rest \in Seq(T) /\ Len(rest) = Len(held) - n
      /\ \A i \in 1 .. Len(held) - n : rest[i] = held[n + i]
  <2>1. CASE n = Len(held)
    <3>1. rest = <<>>
      BY <1>2, <2>1, SubSeqEmpty
    <3> HIDE DEF rest
    <3> QED BY <1>2, <2>1, <3>1
  <2>2. CASE n # Len(held)
    <3>1. n + 1 \in 1 .. Len(held) /\ Len(held) - (n + 1) + 1 = Len(held) - n
      BY <1>2, <1>4, <2>2
    <3>2. /\ rest \in Seq(T) /\ Len(rest) = Len(held) - (n + 1) + 1
          /\ \A i \in 1 .. Len(held) - (n + 1) + 1 : rest[i] = held[n + 1 + i - 1]
      BY <1>2, <3>1, SubSeqProperties
    <3> HIDE DEF rest
    <3>3. \A i \in 1 .. Len(held) - n : rest[i] = held[n + i]
      <4> SUFFICES ASSUME NEW i \in 1 .. Len(held) - n PROVE rest[i] = held[n + i]
        OBVIOUS
      <4>1. n + 1 + i - 1 = n + i
        BY <1>2, <1>4
      <4> QED BY <3>1, <3>2, <4>1
    <3> QED BY <3>1, <3>2, <3>3
  <2> QED BY <2>1, <2>2
<1> HIDE DEF first, rest
<1>7. first \o rest = held
  <2>1. first \o rest \in Seq(T) /\ Len(first \o rest) = Len(held)
    <3>1. first \o rest \in Seq(T) /\ Len(first \o rest) = Len(first) + Len(rest)
      BY <1>5, <1>6, ConcatProperties, Zenon
    <3>2. Len(first) + Len(rest) = Len(held)
      BY <1>2, <1>4, <1>5, <1>6
    <3> QED BY <3>1, <3>2
  <2>2. ASSUME NEW i \in 1 .. Len(held) PROVE (first \o rest)[i] = held[i]
    <3>1. (first \o rest)[i] = IF i <= n THEN first[i] ELSE rest[i - n]
      BY <1>2, <1>4, <1>5, <1>6
    <3>2. CASE i <= n
      <4>1. i \in 1 .. n
        BY <1>2, <1>4, <3>2
      <4> QED BY <1>5, <3>1, <3>2, <4>1
    <3>3. CASE ~(i <= n)
      <4>1. i - n \in 1 .. Len(held) - n /\ n + (i - n) = i
        BY <1>2, <1>4, <3>3
      <4> QED BY <1>6, <3>1, <3>3, <4>1
    <3> QED BY <3>2, <3>3
  <2> QED BY <1>2, <2>1, <2>2, SeqEqual
<1>8. (sent \o first) \o rest = sent \o held
  <2>1. (sent \o first) \o rest = sent \o (first \o rest)
    <3>1. sent \in Seq(T) /\ first \in Seq(T) /\ rest \in Seq(T)
      BY <1>2, <1>5, <1>6
    <3> QED BY <3>1, ConcatAssociative
  <2> QED BY <1>7, <2>1, Zenon
<1>9. /\ Drained(s, n) \in [sent : Seq(T), held : Seq(T)]
      /\ Drained(s, n).sent = sent \o first /\ Drained(s, n).held = rest
  <2>1. sent \o first \in Seq(T)
    BY <1>2, <1>5
  <2> QED BY <1>3, <1>6, <2>1
<1>10. Len(rest) <= BufferSize
  BY <1>2, <1>4, <1>6, BufferAssumption
<1> QED BY <1>6, <1>8, <1>9, <1>10 DEF IsStream, Written, sent, held

LEMMA PutStream ==
  ASSUME NEW s, IsStream(s), NEW line
  PROVE  /\ IsStream(Put(s, line))
         /\ Written(Put(s, line)) = Written(s) \o <<line>>
<1> DEFINE t == IF Len(s.held) < BufferSize THEN s ELSE Drained(s, Len(s.held))
<1>1. Len(s.held) \in Nat
  BY DEF IsStream
<1>2. IsStream(t) /\ Written(t) = Written(s) /\ Len(t.held) < BufferSize
  <2>1. CASE Len(s.held) < BufferSize
    BY <2>1
  <2>2. CASE ~(Len(s.held) < BufferSize)
    <3>1. Len(s.held) \in 0 .. Len(s.held)
      BY <1>1
    <3>2. /\ IsStream(Drained(s, Len(s.held))) /\ Written(Drained(s, Len(s.held))) = Written(s)
          /\ Len(Drained(s, Len(s.held)).held) = 0
      BY <1>1, <3>1, DrainedStream
    <3> QED BY <2>2, <3>2, BufferAssumption
  <2> QED BY <2>1, <2>2
<1>3. Put(s, line) = [t EXCEPT !.held = Append(t.held, line)]
  BY DEF Put
<1> HIDE DEF t
<1>4. PICK T : t \in [sent : Seq(T), held : Seq(T)]
  BY <1>2 DEF IsStream
<1> DEFINE W == T \cup {line}
           sent == t.sent
           held == t.held
<1>5. sent \in Seq(W) /\ held \in Seq(W) /\ Len(held) \in Nat /\ <<line>> \in Seq(W) /\ line \in W
  BY <1>4
<1>6. t = [sent |-> sent, held |-> held]
  BY <1>4
<1>7. Put(s, line) = [sent |-> sent, held |-> Append(held, line)]
  BY <1>3, <1>4
<1>8. Len(held) < BufferSize
  BY <1>2
<1> HIDE DEF W, sent, held
<1>9. /\ Append(held, line) \in Seq(W) /\ Append(held, line) = held \o <<line>>
      /\ Len(Append(held, line)) <= BufferSize
  BY <1>5, <1>8, AppendIsConcat, BufferAssumption
<1>10. sent \o (held \o <<line>>) = (sent \o held) \o <<line>>
  BY <1>5, ConcatAssociative
<1>11. IsStream(Put(s, line))
  BY <1>5, <1>7, <1>9 DEF IsStream
<1>12. Written(Put(s, line)) = sent \o (held \o <<line>>)
  BY <1>7, <1>9 DEF Written
<1> QED BY <1>2, <1>10, <1>11, <1>12 DEF Written, sent, held

LEMMA WrittenIsText ==
  ASSUME NEW s, IsStream(s)
  PROVE  IsText(Written(s)) /\ IsText(s.sent) /\ IsText(s.held)
<1>1. PICK T : s \in [sent : Seq(T), held : Seq(T)]
  BY DEF IsStream
<1>2. s.sent \in Seq(T) /\ s.held \in Seq(T)
  BY <1>1
<1> QED BY <1>2, TextGrows DEF IsText, Written

----------------------------------------------------------------------------
(* What the variables hold *)

LEMMA Listing ==
  ASSUME NEW n \in Nat, NEW s, s = [i \in 1 .. n |-> s[i]]
  PROVE  IsText(s) /\ Len(s) = n
<1> DEFINE T == {s[i] : i \in 1 .. n}
<1>1. s \in [1 .. n -> T]
  OBVIOUS
<1> HIDE DEF T
<1>2. s \in Seq(T) /\ Len(s) = n
  BY <1>1
<1> QED BY <1>2 DEF IsText

\* The report file and the summary of this run.
ReportText == DetailedReport(config, stats, Results)
SummaryText == Summary(config, stats, Results)

LEMMA ReportsAreTexts ==
  ASSUME IsFiniteSet(report)
  PROVE  IsText(ReportText) /\ IsText(SummaryText)
<1>1. ASSUME NEW S, IsFiniteSet(S)
      PROVE  Len(InOrder(S)) \in Nat
  <2>1. Cardinality(S) \in Nat
    BY <1>1, FS_CardinalityType
  <2>2. InOrder(S) = [i \in 1 .. Cardinality(S) |-> InOrder(S)[i]]
    <3> DEFINE at(i) == CHOOSE r \in S : Cardinality({q \in S : q.path < r.path}) = i - 1
    <3>1. InOrder(S) = [i \in 1 .. Cardinality(S) |-> at(i)]
      BY DEF InOrder
    <3> HIDE DEF at
    <3> QED BY <3>1
  <2> QED BY <2>1, <2>2, Listing
<1>2. IsText(Rows(report))
  <2> DEFINE changed == InOrder({r \in report : r.type # "UNCHANGED"})
  <2>1. Len(changed) \in Nat
    <3>1. IsFiniteSet({r \in report : r.type # "UNCHANGED"})
      BY FS_Subset
    <3> QED BY <1>1, <3>1
  <2>2. Rows(report) = [i \in 1 .. Len(changed) |-> Rows(report)[i]]
    BY DEF Rows
  <2> HIDE DEF changed
  <2> QED BY <2>1, <2>2, Listing
<1>3. IsText(Differences(report))
  <2> DEFINE differing == InOrder({r \in report : r.detail_kind = "LINES"})
  <2>1. Len(differing) \in Nat
    <3>1. IsFiniteSet({r \in report : r.detail_kind = "LINES"})
      BY FS_Subset
    <3> QED BY <1>1, <3>1
  <2>2. Differences(report) = [i \in 1 .. Len(differing) |-> Differences(report)[i]]
    BY DEF Differences
  <2> HIDE DEF differing
  <2> QED BY <2>1, <2>2, Listing
<1>4. IsText(Counters(stats, Results))
  <2> DEFINE four == [i \in 1 .. 4 |->
                        LET type == <<"UNCHANGED", "MODIFIED", "ADDED", "REMOVED">>[i]
                        IN [line |-> "count", type |-> type, n |-> Results.tally[type]]]
             total == [line |-> "total", n |-> stats.total_files_scanned]
  <2>1. four = [i \in 1 .. 4 |-> four[i]]
    OBVIOUS
  <2>2. Counters(stats, Results) = <<total>> \o four
    BY DEF Counters
  <2> HIDE DEF four, total
  <2>3. IsText(four)
    BY <2>1, Listing
  <2> QED BY <2>2, <2>3, OneLine, TextGrows
<1>5. IsText(Header(config)) /\ \A name : IsText(Heading(name))
  BY OneLine DEF Header, Heading
<1>6. Results.records = report
  BY DEF Results
<1>7. IsText(ReportText)
  <2> DEFINE a == Header(config)
             b == Counters(stats, Results)
             c == Heading("DETAILED COMPARISON")
             d == Rows(report)
             e == Heading("SIDE-BY-SIDE")
             f == Differences(report)
             g == Heading("END OF REPORT")
  <2>1. ReportText = a \o b \o c \o d \o e \o f \o g
    BY <1>6 DEF ReportText, DetailedReport
  <2>2. IsText(a) /\ IsText(b) /\ IsText(c) /\ IsText(d) /\ IsText(e) /\ IsText(f) /\ IsText(g)
    BY <1>2, <1>3, <1>4, <1>5
  <2> HIDE DEF a, b, c, d, e, f, g
  <2>3. IsText(a \o b \o c \o d)
    BY <2>2, TextGrows
  <2>4. IsText(a \o b \o c \o d \o e \o f \o g)
    BY <2>2, <2>3, TextGrows
  <2> QED BY <2>1, <2>4
<1>8. IsText(SummaryText)
  <2> DEFINE a == Header(config)
             b == Counters(stats, Results)
             c == <<[line |-> "report file", path |-> config.output_path]>>
             d == Heading("END OF SUMMARY")
  <2>1. SummaryText = a \o b \o c \o d
    BY DEF SummaryText, Summary
  <2>2. IsText(a) /\ IsText(b) /\ IsText(c) /\ IsText(d)
    BY <1>4, <1>5, OneLine
  <2> HIDE DEF a, b, c, d
  <2> QED BY <2>1, <2>2, TextGrows
<1> QED BY <1>7, <1>8

LEMMA TextShrinks ==
  ASSUME NEW text, IsText(text), text # <<>>
  PROVE  IsText(Tail(text)) /\ text = <<Head(text)>> \o Tail(text)
<1>1. PICK T : text \in Seq(T)
  BY DEF IsText
<1>2. Tail(text) \in Seq(T) /\ text = <<Head(text)>> \o Tail(text)
  BY <1>1
<1> QED BY <1>2 DEF IsText

Phase == {"args", "init", "scan_a", "scan_b", "compare", "stats",
          "open", "report", "close", "summary", "cleanup", "exit"}

\* An error code or a failure has a cause, and only the last phases know one.
TypeInv ==
  /\ pc \in Phase /\ rc \in {"OK", "ERROR"} /\ exit \in {NoExit, 0, 1, 2}
  /\ (exit # NoExit) <=> (pc = "exit")
  /\ faults \in 0 .. MaxFaults
  /\ IsStream(detail) /\ IsStream(out) /\ IsText(todo)
  /\ IsFiniteSet(report)
  /\ result \in {"running", "success", "failure"}
  /\ result = "failure" => failed
  /\ failed => faults > 0
  /\ rc = "ERROR" => faults > 0
  /\ pc \notin {"close", "cleanup", "exit"} => rc = "OK"

LEMMA TypeInvInit == Init => TypeInv
<1> SUFFICES ASSUME Init PROVE TypeInv
  OBVIOUS
<1>1. IsStream(detail) /\ IsStream(out) /\ IsText(todo)
  <2>1. <<>> \in Seq({})
    OBVIOUS
  <2>2. IsText(<<>>) /\ IsText(OldReport)
    BY <2>1, OneLine DEF IsText, OldReport
  <2> QED BY <2>2, NewStream DEF Init
<1>2. IsFiniteSet(report)
  BY FS_EmptySet DEF Init
<1>3. 0 \in 0 .. MaxFaults
  BY TreesAssumption
<1> QED BY <1>1, <1>2, <1>3 DEF Init, TypeInv, Phase, NoExit

\* A fault is one more, within the bound.
LEMMA Faulty == Fault /\ faults \in 0 .. MaxFaults => faults' \in 0 .. MaxFaults /\ faults' > 0
BY TreesAssumption DEF Fault

\* What a comparison does to the rest.
LEMMA PlanSteps ==
  ASSUME TypeInv, Plan
  PROVE  /\ IsFiniteSet(report)' /\ result' \in {"running", "success", "failure"}
         /\ result' = "failure" => failed'
         /\ failed => failed'
         /\ result = "running"
<1>1. Compare!Next /\ IsFiniteSet(report)
  BY DEF Plan, TypeInv
<1>2. ASSUME NEW p \in Path, Compare!Decide(p)
      PROVE  IsFiniteSet(report)' /\ result' = result /\ failed' = failed /\ result = "running"
  <2>1. /\ report' = report \cup {v \in {Compare!Verdict(p)} : Compare!Listed(p)}
        /\ result' = result /\ failed' = failed /\ result = "running"
    BY <1>2 DEF Compare!Decide
  <2>2. IsFiniteSet({v \in {Compare!Verdict(p)} : Compare!Listed(p)})
    BY FS_Singleton, FS_Subset
  <2>3. IsFiniteSet(report \cup {v \in {Compare!Verdict(p)} : Compare!Listed(p)})
    BY <1>1, <2>2, FS_Union
  <2> QED BY <2>1, <2>3
<1>3. ASSUME NEW lost, Compare!Fail(lost)
      PROVE  report' = report /\ result' = result /\ failed' /\ result = "running"
  BY <1>3 DEF Compare!Fail
<1>4. CASE Compare!Finish \/ Compare!Refuse
  BY <1>4, <1>1 DEF Compare!Finish, Compare!Refuse
<1>5. (\E p \in Path : Compare!Decide(p)) \/ (\E lost : Compare!Fail(lost))
        \/ Compare!Finish \/ Compare!Refuse
  BY <1>1 DEF Compare!Next
<1> QED BY <1>1, <1>2, <1>3, <1>4, <1>5 DEF TypeInv

\* Starting and ending a text, or a line of it, keeps the streams what they are.
LEMMA StreamSteps ==
  ASSUME TypeInv
  PROVE  /\ OpenReport => detail' = Stream(<<>>) /\ todo' = ReportText
         /\ WriteLine => TargetBecomes(Put(Target, Head(todo))) /\ todo # <<>>
         /\ \A n \in 0 .. BufferSize :
              WriteFails(n) => n \in 0 .. Len(Target.held) /\ TargetBecomes(Drained(Target, n))
         /\ \A n \in 0 .. BufferSize : CloseReport(n) => n \in 0 .. Len(detail.held)
         /\ \A n \in 0 .. BufferSize : Return(n) => n \in 0 .. Len(out.held)
<1>1. Len(detail.held) \in Nat /\ Len(out.held) \in Nat
  BY WrittenIsText DEF TypeInv, IsText
<1>2. BufferSize \in Nat
  BY BufferAssumption
<1>3. OpenReport => detail' = Stream(<<>>) /\ todo' = ReportText
  BY DEF OpenReport, ReportText
<1>4. WriteLine => TargetBecomes(Put(Target, Head(todo))) /\ todo # <<>>
  BY DEF WriteLine
<1>5. ASSUME NEW n \in 0 .. BufferSize, WriteFails(n)
      PROVE  n \in 0 .. Len(Target.held) /\ TargetBecomes(Drained(Target, n))
  <2>1. Len(Target.held) = BufferSize /\ n < BufferSize /\ TargetBecomes(Drained(Target, n))
    BY <1>5 DEF WriteFails
  <2> QED BY <1>2, <2>1
<1>6. ASSUME NEW n \in 0 .. BufferSize, CloseReport(n)
      PROVE  n \in 0 .. Len(detail.held)
  <2>1. n <= Len(detail.held)
    BY <1>6 DEF CloseReport, Closes
  <2> QED BY <1>1, <1>2, <2>1
<1>7. ASSUME NEW n \in 0 .. BufferSize, Return(n)
      PROVE  n \in 0 .. Len(out.held)
  <2>1. n <= Len(out.held)
    BY <1>7 DEF Return, Closes
  <2> QED BY <1>1, <1>2, <2>1
<1> QED BY <1>3, <1>4, <1>5, <1>6, <1>7

LEMMA TypeInvInductive == TypeInv /\ [Next]_vars => TypeInv'
<1> SUFFICES ASSUME TypeInv, [Next]_vars PROVE TypeInv'
  OBVIOUS
<1> USE DEF TypeInv, Phase
<1>1. CASE Informs \/ Flag \/ Threads \/ OutputFile \/ BadOption \/ Directories
  <2>1. /\ UNCHANGED <<detail, out, todo, report, result, failed, rc, faults>>
        /\ pc = "args"
        /\ \/ pc' = "exit" /\ exit' \in {0, 2}
           \/ pc' \in {"args", "init"} /\ exit' = exit
    BY <1>1 DEF Informs, Flag, Threads, OutputFile, BadOption, Directories, At,
                Exits, AfterArgs, compareVars, streamVars
  <2> QED BY <2>1 DEF NoExit
<1>2. CASE Setup \/ ScanA \/ ScanB
  BY <1>2 DEF Setup, ScanA, ScanB, Goes, compareVars, streamVars
<1>3. CASE PhaseFails
  BY <1>3, Faulty DEF PhaseFails, Goes, compareVars, streamVars
<1>4. CASE Plan
  <2>1. /\ UNCHANGED <<detail, out, todo, pc, rc, exit>>
        /\ IF failed' /\ ~failed THEN Fault ELSE UNCHANGED faults
    BY <1>4 DEF Plan, streamVars
  <2>2. faults' \in 0 .. MaxFaults /\ (failed' => faults' > 0) /\ (rc' = "ERROR" => faults' > 0)
    BY <1>4, <2>1, PlanSteps, Faulty, TreesAssumption
  <2> QED BY <1>4, <2>1, <2>2, PlanSteps
<1>5. CASE Planned
  <2>1. /\ UNCHANGED <<detail, out, todo, report, result, failed, exit, faults>>
        /\ pc = "compare" /\ rc' = RcOfPlan
        /\ result # "running" /\ pc' = IF rc' = "OK" THEN "open" ELSE "cleanup"
    BY <1>5 DEF Planned, compareVars, streamVars
  <2> QED BY <2>1 DEF RcOfPlan
<1>6. CASE OpenReport
  <2>1. /\ UNCHANGED <<out, report, result, failed, rc, exit, faults>>
        /\ pc = "open" /\ pc' = "report"
    BY <1>6 DEF OpenReport, Goes, compareVars
  <2>2. IsText(<<>>)
    <3>1. <<>> \in Seq({})
      OBVIOUS
    <3> QED BY <3>1 DEF IsText
  <2>3. IsStream(detail') /\ IsText(todo')
    BY <1>6, <2>2, StreamSteps, NewStream, ReportsAreTexts
  <2>4. IsStream(detail)' /\ IsText(todo)'
    BY <2>3 DEF IsStream, IsText
  <2> QED BY <2>1, <2>4
<1>7. CASE WriteLine
  <2>1. UNCHANGED <<report, result, failed, pc, rc, exit, faults>> /\ todo' = Tail(todo)
    BY <1>7 DEF WriteLine, compareVars
  <2>2. IsStream(Put(Target, Head(todo)))
    BY PutStream DEF Target
  <2>3. IsStream(detail') /\ IsStream(out')
    BY <1>7, <2>2, StreamSteps DEF TargetBecomes
  <2>4. IsText(todo')
    BY <1>7, <2>1, StreamSteps, TextShrinks
  <2>5. IsStream(detail)' /\ IsStream(out)' /\ IsText(todo)'
    BY <2>3, <2>4 DEF IsStream, IsText
  <2> QED BY <2>1, <2>5
<1>8. ASSUME NEW n \in 0 .. BufferSize, WriteFails(n) PROVE TypeInv'
  <2>1. /\ UNCHANGED <<report, result, failed, exit>> /\ todo' = <<>> /\ rc' = "ERROR"
        /\ pc' \in {"close", "cleanup"} /\ Fault /\ pc # "exit"
    BY <1>8 DEF WriteFails, StopsWriting, compareVars, TargetBecomes
  <2>2. IsStream(Drained(Target, n))
    BY <1>8, StreamSteps, DrainedStream DEF Target
  <2>3. IsStream(detail') /\ IsStream(out')
    BY <1>8, <2>2, StreamSteps DEF TargetBecomes
  <2>4. IsText(todo')
    <3>1. <<>> \in Seq({})
      OBVIOUS
    <3> QED BY <2>1, <3>1 DEF IsText
  <2>5. IsStream(detail)' /\ IsStream(out)' /\ IsText(todo)'
    BY <2>3, <2>4 DEF IsStream, IsText
  <2> QED BY <2>1, <2>5, Faulty
<1>9. CASE TextEnds
  BY <1>9 DEF TextEnds, Goes, compareVars, streamVars
<1>10. ASSUME NEW n \in 0 .. BufferSize, CloseReport(n) PROVE TypeInv'
  <2>1. /\ UNCHANGED <<out, report, result, failed, rc, exit>>
        /\ detail' = Drained(detail, n) /\ (Fault \/ UNCHANGED faults)
        /\ pc = "close"
        /\ \/ rc = "OK" /\ pc' = "summary" /\ todo' = SummaryText
           \/ pc' = "cleanup" /\ todo' = todo
    BY <1>10 DEF CloseReport, Closes, SummaryText, compareVars
  <2>2. IsStream(detail') /\ IsText(todo')
    <3>1. n \in 0 .. Len(detail.held)
      BY <1>10, StreamSteps
    <3>2. IsStream(Drained(detail, n)) /\ IsText(SummaryText)
      BY <3>1, DrainedStream, ReportsAreTexts
    <3> QED BY <2>1, <3>2
  <2>3. IsStream(detail)' /\ IsText(todo)'
    BY <2>2 DEF IsStream, IsText
  <2>4. faults' \in 0 .. MaxFaults /\ (faults > 0 => faults' > 0)
    BY <2>1, Faulty
  <2> QED BY <2>1, <2>3, <2>4
<1>11. ASSUME NEW n \in 0 .. BufferSize, Return(n) PROVE TypeInv'
  <2>1. /\ UNCHANGED <<detail, todo, report, result, failed, rc>>
        /\ out' = Drained(out, n) /\ (Fault \/ UNCHANGED faults)
        /\ pc' = "exit" /\ exit' \in {0, 1}
    BY <1>11 DEF Return, Closes, Exits, compareVars
  <2>2. IsStream(out')
    <3>1. n \in 0 .. Len(out.held)
      BY <1>11, StreamSteps
    <3>2. IsStream(Drained(out, n))
      BY <3>1, DrainedStream
    <3> QED BY <2>1, <3>2
  <2>3. IsStream(out)'
    BY <2>2 DEF IsStream
  <2>4. faults' \in 0 .. MaxFaults /\ (faults > 0 => faults' > 0)
    BY <2>1, Faulty
  <2> QED BY <2>1, <2>3, <2>4 DEF NoExit
<1>12. CASE UNCHANGED vars
  BY <1>12 DEF vars, compareVars, streamVars, IsStream, IsText
<1> QED BY <1>1, <1>2, <1>3, <1>4, <1>5, <1>6, <1>7, <1>8, <1>9, <1>10, <1>11, <1>12
        DEF Next, Exited

\* The arguments are only looked at where there are any, the buffers never hold
\* more than they can, the program has exactly one exit code once it has ended,
\* and none before: the phases of main follow each other as src/main.c has them.
THEOREM MainTypeCorrect == Spec => []TypeOK
<1>1. ArgsInv /\ TypeInv => TypeOK
  BY DEF ArgsInv, TypeInv, TypeOK, Configuration, IsStream, Phase
<1> QED BY <1>1, ArgsInvInit, ArgsInvInductive, TypeInvInit, TypeInvInductive, PTL DEF Spec

----------------------------------------------------------------------------
(* The two texts and the exit code *)

BeforeSummary == {"args", "init", "scan_a", "scan_b", "compare", "stats",
                  "open", "report", "close"}

WithRest(stream, rest) == Written(stream) \o rest

\* A text is what was written of it and what is still to come, and the one of
\* the report is complete before the first line of the other.
TextInv ==
  /\ pc \in BeforeSummary => Written(out) = <<>>
  /\ pc \in AfterPlan => result = "success"
  /\ pc = "report" => WithRest(detail, todo) = ReportText
  /\ pc = "close" /\ rc = "OK" => Written(detail) = ReportText
  /\ pc = "summary" => Written(detail) = ReportText /\ WithRest(out, todo) = SummaryText
  /\ pc = "cleanup" /\ rc = "OK" =>
       result = "success" /\ Written(detail) = ReportText /\ Written(out) = SummaryText
  /\ pc \in {"summary", "cleanup", "exit"} /\ Written(out) # <<>> =>
       result = "success" /\ Written(detail) = ReportText
  /\ exit = 0 /\ argv \notin BadArgvs =>
       result = "success" /\ Written(detail) = ReportText /\ Written(out) = SummaryText
  /\ exit = 1 => faults > 0

LEMMA TextInvInit == Init => TextInv
<1> SUFFICES ASSUME Init PROVE TextInv
  OBVIOUS
<1>1. Written(out) = <<>>
  <2>1. <<>> \in Seq({})
    OBVIOUS
  <2> QED BY <2>1, NewStream DEF Init, IsText
<1>2. pc = "args" /\ exit = NoExit
  BY DEF Init
<1> QED BY <1>1, <1>2 DEF TextInv, AfterPlan, NoExit

\* The texts are about what is known when they are begun.
LEMMA TextsStay ==
  ASSUME UNCHANGED <<config, stats, tally, report>>
  PROVE  ReportText' = ReportText /\ SummaryText' = SummaryText
BY DEF ReportText, SummaryText, DetailedReport, Summary, Results, Header, Counters

LEMMA TextInvInductive == ArgsInv /\ TypeInv /\ TextInv /\ [Next]_vars => TextInv'
<1> SUFFICES ASSUME ArgsInv, TypeInv, TextInv, [Next]_vars PROVE TextInv'
  OBVIOUS
<1> USE DEF BeforeSummary, AfterPlan
<1>1. CASE Informs \/ Flag \/ Threads \/ OutputFile \/ BadOption \/ Directories
  <2>1. /\ UNCHANGED <<detail, out, todo, argv, result, rc, faults>>
        /\ pc = "args"
        /\ \/ pc' = "exit" /\ exit' \in {0, 2}
           \/ pc' \in {"args", "init"} /\ exit' = exit
    BY <1>1 DEF Informs, Flag, Threads, OutputFile, BadOption, Directories, At,
                Exits, AfterArgs, compareVars, streamVars, optionVars
  <2>2. argv \notin BadArgvs => exit' \in {NoExit, 2}
    <3> SUFFICES ASSUME argv \notin BadArgvs PROVE exit' \in {NoExit, 2}
      OBVIOUS
    <3>1. PICK options \in OptionLists : argv = CommandLine(options)
      BY DEF ArgsInv
    <3> QED BY <2>1, <3>1, GoodLineRead
  <2>3. Written(out) = <<>> /\ Written(out') = Written(out)
    BY <2>1 DEF TextInv
  <2>4. Written(out)' = <<>>
    BY <2>3 DEF Written
  <2> QED BY <2>1, <2>2, <2>4 DEF TextInv, NoExit, TypeInv
<1>2. CASE Setup \/ ScanA \/ ScanB
  <2>1. /\ UNCHANGED <<detail, out, argv, exit>> /\ pc \in {"init", "scan_a", "scan_b"}
        /\ pc' \in {"scan_a", "scan_b", "compare"}
    BY <1>2 DEF Setup, ScanA, ScanB, Goes, compareVars, streamVars, optionVars
  <2>2. Written(out)' = Written(out)
    BY <2>1 DEF Written
  <2> QED BY <2>1, <2>2 DEF TextInv, TypeInv, NoExit
<1>3. CASE PhaseFails
  <2>1. /\ UNCHANGED <<detail, out, argv, exit>> /\ pc \in BeforeSummary
        /\ pc' = "cleanup" /\ rc' = "ERROR"
    BY <1>3 DEF PhaseFails, Goes, streamVars, optionVars
  <2>2. Written(out)' = Written(out)
    BY <2>1 DEF Written
  <2> QED BY <2>1, <2>2 DEF TextInv, TypeInv, NoExit
<1>4. CASE Plan
  <2>1. UNCHANGED <<detail, out, argv, exit, pc>> /\ pc = "compare"
    BY <1>4 DEF Plan, streamVars, optionVars
  <2>2. Written(out)' = Written(out)
    BY <2>1 DEF Written
  <2> QED BY <2>1, <2>2 DEF TextInv, TypeInv, NoExit
<1>5. CASE Planned
  <2>1. /\ UNCHANGED <<detail, out, argv, exit, result>> /\ pc = "compare"
        /\ rc' = RcOfPlan /\ pc' = IF rc' = "OK" THEN "open" ELSE "cleanup"
    BY <1>5 DEF Planned, compareVars, streamVars, optionVars
  <2>2. Written(out)' = Written(out)
    BY <2>1 DEF Written
  <2> QED BY <2>1, <2>2 DEF TextInv, TypeInv, NoExit, RcOfPlan
<1>6. CASE OpenReport
  <2>1. /\ UNCHANGED <<out, argv, exit, result, config, stats, tally, report>> /\ pc = "open"
        /\ pc' = "report" /\ detail' = Stream(<<>>) /\ todo' = ReportText
    BY <1>6, StreamSteps DEF OpenReport, Goes, compareVars, optionVars
  <2>2. Written(out)' = Written(out) /\ ReportText' = ReportText
    BY <2>1, TextsStay DEF Written
  <2>3. WithRest(detail, todo)' = ReportText
    <3>1. <<>> \in Seq({})
      OBVIOUS
    <3>2. Written(Stream(<<>>)) = <<>>
      BY <3>1, NewStream DEF IsText
    <3>3. Written(detail)' = <<>>
      BY <2>1, <3>2 DEF Written
    <3>4. PICK T : ReportText \in Seq(T)
      BY ReportsAreTexts DEF IsText, TypeInv
    <3>5. <<>> \o ReportText = ReportText
      BY <3>4, ConcatEmptySeq
    <3> QED BY <2>1, <3>3, <3>5 DEF WithRest
  <2> QED BY <2>1, <2>2, <2>3 DEF TextInv, TypeInv, NoExit
<1>7. CASE WriteLine
  <2>1. /\ UNCHANGED <<argv, exit, result, config, stats, tally, report, pc, rc>>
        /\ todo # <<>> /\ todo' = Tail(todo) /\ TargetBecomes(Put(Target, Head(todo)))
    BY <1>7 DEF WriteLine, compareVars, optionVars
  <2>2. ReportText' = ReportText /\ SummaryText' = SummaryText
    BY <2>1, TextsStay
  <2>3. WithRest(Put(Target, Head(todo)), Tail(todo)) = WithRest(Target, todo)
    <3>1. IsStream(Target)
      BY DEF Target, TypeInv
    <3>2. Written(Put(Target, Head(todo))) = Written(Target) \o <<Head(todo)>>
      BY <3>1, PutStream
    <3>3. IsText(Tail(todo)) /\ todo = <<Head(todo)>> \o Tail(todo)
      BY <2>1, TextShrinks DEF TypeInv
    <3>4. PICK T : todo \in Seq(T) /\ Written(Target) \in Seq(T)
      BY <3>1, WrittenIsText, TextGrows DEF TypeInv
    <3> DEFINE h == <<Head(todo)>>
               t == Tail(todo)
               w == Written(Target)
    <3>5. h \in Seq(T) /\ t \in Seq(T) /\ w \in Seq(T)
      BY <2>1, <3>4
    <3> HIDE DEF h, t, w
    <3>6. (w \o h) \o t = w \o (h \o t)
      BY <3>5, ConcatAssociative
    <3> QED BY <3>2, <3>3, <3>6 DEF h, t, w, WithRest
  <2>4. CASE pc = "report"
    <3>1. WithRest(detail, todo)' = ReportText
      <4>1. detail' = Put(Target, Head(todo)) /\ Target = detail
        BY <2>1, <2>4 DEF TargetBecomes, Target
      <4>2. WithRest(detail', todo') = ReportText
        BY <2>1, <2>3, <2>4, <4>1 DEF TextInv
      <4> QED BY <4>2 DEF WithRest, Written
    <3>2. Written(out)' = Written(out)
      BY <2>1, <2>4 DEF TargetBecomes, Written
    <3> QED BY <2>1, <2>2, <2>4, <3>1, <3>2 DEF TextInv, TypeInv, NoExit
  <2>5. CASE pc = "summary"
    <3>1. WithRest(out, todo)' = SummaryText
      <4>1. out' = Put(Target, Head(todo)) /\ Target = out
        BY <2>1, <2>5 DEF TargetBecomes, Target
      <4>2. WithRest(out', todo') = SummaryText
        BY <2>1, <2>3, <2>5, <4>1 DEF TextInv
      <4> QED BY <4>2 DEF WithRest, Written
    <3>2. Written(detail)' = Written(detail)
      BY <2>1, <2>5 DEF TargetBecomes, Written
    <3> QED BY <2>1, <2>2, <2>5, <3>1, <3>2 DEF TextInv, TypeInv, NoExit
  <2> QED BY <2>1, <2>4, <2>5 DEF TargetBecomes
<1>8. ASSUME NEW n \in 0 .. BufferSize, WriteFails(n) PROVE TextInv'
  <2>1. /\ UNCHANGED <<argv, exit, result, config, stats, tally, report>>
        /\ todo # <<>> /\ todo' = <<>> /\ rc' = "ERROR"
        /\ pc' = IF pc = "report" THEN "close" ELSE "cleanup"
    BY <1>8 DEF WriteFails, StopsWriting, compareVars, optionVars
  <2>2. ReportText' = ReportText /\ SummaryText' = SummaryText
    BY <2>1, TextsStay
  <2>3. n \in 0 .. Len(Target.held) /\ TargetBecomes(Drained(Target, n))
    BY <1>8, StreamSteps
  <2>4. Written(Drained(Target, n)) = Written(Target)
    BY <2>3, DrainedStream DEF Target, TypeInv
  <2>5. Written(detail)' = Written(detail) /\ Written(out)' = Written(out)
    BY <2>3, <2>4 DEF TargetBecomes, Target, Written
  <2>6. pc \in {"report", "summary"}
    BY <2>3 DEF TargetBecomes
  <2> QED BY <2>1, <2>2, <2>5, <2>6 DEF TextInv, TypeInv, NoExit
<1>9. CASE TextEnds
  <2>1. /\ UNCHANGED <<argv, exit, result, config, stats, tally, report, detail, out, rc>>
        /\ todo = <<>>
        /\ \/ pc = "report" /\ pc' = "close"
           \/ pc = "summary" /\ pc' = "cleanup"
    BY <1>9 DEF TextEnds, Goes, compareVars, optionVars, streamVars
  <2>2. ReportText' = ReportText /\ SummaryText' = SummaryText
    BY <2>1, TextsStay
  <2>3. Written(detail)' = Written(detail) /\ Written(out)' = Written(out)
    BY <2>1 DEF Written
  <2>4. WithRest(detail, todo) = Written(detail) /\ WithRest(out, todo) = Written(out)
    <3>1. IsText(Written(detail)) /\ IsText(Written(out))
      BY WrittenIsText DEF TypeInv
    <3> QED BY <2>1, <3>1, ConcatEmptySeq DEF IsText, WithRest
  <2> QED BY <2>1, <2>2, <2>3, <2>4 DEF TextInv, TypeInv, NoExit
<1>10. ASSUME NEW n \in 0 .. BufferSize, CloseReport(n) PROVE TextInv'
  <2>1. /\ UNCHANGED <<argv, exit, result, config, stats, tally, report, out, rc>>
        /\ detail' = Drained(detail, n) /\ pc = "close"
        /\ IF rc = "OK" THEN pc' = "summary" /\ todo' = SummaryText ELSE pc' = "cleanup"
    BY <1>10 DEF CloseReport, SummaryText, compareVars, optionVars
  <2>2. ReportText' = ReportText /\ SummaryText' = SummaryText
    BY <2>1, TextsStay
  <2>3. n \in 0 .. Len(detail.held)
    BY <1>10, StreamSteps
  <2>4. Written(Drained(detail, n)) = Written(detail)
    BY <2>3, DrainedStream DEF TypeInv
  <2>5. Written(detail)' = Written(detail) /\ Written(out)' = Written(out)
    BY <2>1, <2>4 DEF Written
  <2>6. rc = "OK" => WithRest(out, todo)' = SummaryText
    <3>1. <<>> \o SummaryText = SummaryText
      BY ReportsAreTexts, ConcatEmptySeq DEF IsText, TypeInv
    <3>2. Written(out)' = <<>>
      BY <2>1, <2>5 DEF TextInv
    <3> QED BY <2>1, <3>1, <3>2 DEF WithRest
  <2> QED BY <2>1, <2>2, <2>5, <2>6 DEF TextInv, TypeInv, NoExit
<1>11. ASSUME NEW n \in 0 .. BufferSize, Return(n) PROVE TextInv'
  <2>1. /\ UNCHANGED <<argv, result, config, stats, tally, report, detail, rc>>
        /\ out' = Drained(out, n) /\ pc = "cleanup" /\ (Fault \/ UNCHANGED faults)
        /\ pc' = "exit" /\ exit' = IF rc = "OK" THEN 0 ELSE 1
    BY <1>11 DEF Return, Exits, Closes, compareVars, optionVars
  <2>2. ReportText' = ReportText /\ SummaryText' = SummaryText
    BY <2>1, TextsStay
  <2>3. n \in 0 .. Len(out.held)
    BY <1>11, StreamSteps
  <2>4. Written(Drained(out, n)) = Written(out)
    BY <2>3, DrainedStream DEF TypeInv
  <2>5. Written(detail)' = Written(detail) /\ Written(out)' = Written(out)
    BY <2>1, <2>4 DEF Written
  <2>6. exit' = 1 => faults' > 0
    BY <2>1, Faulty DEF TypeInv
  <2> QED BY <2>1, <2>2, <2>5, <2>6 DEF TextInv, TypeInv, NoExit
<1>12. CASE UNCHANGED vars
  <2>1. UNCHANGED <<argv, exit, result, config, stats, tally, report, detail, out, rc, pc,
                    todo, faults>>
    BY <1>12 DEF vars, compareVars, optionVars, streamVars
  <2>2. /\ ReportText' = ReportText /\ SummaryText' = SummaryText
        /\ Written(detail)' = Written(detail) /\ Written(out)' = Written(out)
        /\ WithRest(detail, todo)' = WithRest(detail, todo)
        /\ WithRest(out, todo)' = WithRest(out, todo)
    BY <2>1, TextsStay DEF Written, WithRest
  <2> QED BY <2>1, <2>2 DEF TextInv
<1> QED BY <1>1, <1>2, <1>3, <1>4, <1>5, <1>6, <1>7, <1>8, <1>9, <1>10, <1>11, <1>12
        DEF Next, Exited

\* The order of the two texts and the exit code tell the truth, for buffers of
\* any size and failures at any line: no summary before a whole report, both
\* whole after exit code 0, and a cause behind exit code 1 (src/main.c:143-179).
THEOREM ExitHonestEver == Spec => []ExitHonest
<1>1. TypeInv /\ TextInv => ExitHonest
  BY DEF TypeInv, TextInv, ExitHonest, ReportText, SummaryText, Phase, BeforeSummary
<1> QED BY <1>1, ArgsInvInit, ArgsInvInductive, TypeInvInit, TypeInvInductive,
           TextInvInit, TextInvInductive, PTL DEF Spec

----------------------------------------------------------------------------
(* The rows of the table, counted *)

LEMMA InOrderIsAll ==
  ASSUME NEW S, IsFiniteSet(S), \A r \in S : r.path \in Int,
         \A r, s \in S : r.path = s.path => r = s
  PROVE  InOrder(S) \in Bijection(1 .. Cardinality(S), S)
<1> DEFINE n == Cardinality(S)
           Below(r) == {s \in S : s.path < r.path}
           rank == [r \in S |-> Cardinality(Below(r))]
           at(i) == CHOOSE r \in S : Cardinality(Below(r)) = i - 1
<1>1. n \in Nat
  BY FS_CardinalityType
<1>2. ASSUME NEW r \in S
      PROVE  /\ IsFiniteSet(Below(r)) /\ r \notin Below(r)
             /\ rank[r] = Cardinality(Below(r)) /\ rank[r] \in 0 .. n - 1
  <2>1. r \notin Below(r) /\ Below(r) \in SUBSET (S \ {r}) /\ Below(r) \in SUBSET S
    OBVIOUS
  <2> HIDE DEF Below
  <2>2. IsFiniteSet(S \ {r}) /\ Cardinality(S \ {r}) = n - 1
    BY FS_RemoveElement
  <2>3. IsFiniteSet(Below(r)) /\ Cardinality(Below(r)) <= n - 1
    BY <2>1, <2>2, FS_Subset
  <2>4. Cardinality(Below(r)) \in Nat
    BY <2>3, FS_CardinalityType
  <2> QED BY <1>1, <2>1, <2>3, <2>4
<1>3. ASSUME NEW r \in S, NEW s \in S, r.path < s.path
      PROVE  rank[r] < rank[s]
  <2>1. Below(r) \cup {r} \in SUBSET Below(s)
    <3>1. \A q \in Below(r) : q \in S /\ q.path \in Int /\ q.path < r.path
      OBVIOUS
    <3>2. \A q \in Below(r) : q \in Below(s)
      BY <1>3, <3>1
    <3> QED BY <1>3, <3>2
  <2>2. Cardinality(Below(r) \cup {r}) = Cardinality(Below(r)) + 1
    <3> HIDE DEF Below
    <3> QED BY <1>2, FS_AddElement
  <2>3. Cardinality(Below(r) \cup {r}) <= Cardinality(Below(s))
    <3> HIDE DEF Below
    <3> QED BY <1>2, <2>1, FS_Subset
  <2> HIDE DEF Below, rank
  <2> QED BY <1>1, <1>2, <2>2, <2>3
<1>4. rank \in Injection(S, 0 .. n - 1)
  <2>1. rank \in [S -> 0 .. n - 1]
    BY <1>2
  <2>2. ASSUME NEW r \in S, NEW s \in S, rank[r] = rank[s]
        PROVE  r = s
    <3>1. ~(r.path < s.path) /\ ~(s.path < r.path)
      <4> HIDE DEF rank, Below, n
      <4> QED BY <1>1, <1>2, <1>3, <2>2
    <3>2. r.path = s.path
      BY <3>1
    <3> QED BY <3>2
  <2> HIDE DEF rank
  <2> QED BY <2>1, <2>2 DEF Injection, IsInjective
<1>5. rank \in Surjection(S, 0 .. n - 1)
  <2>1. IsFiniteSet(0 .. n - 1) /\ Cardinality(0 .. n - 1) = n
    BY <1>1, FS_Interval
  <2> HIDE DEF rank
  <2> QED BY <1>4, <2>1, FS_Injection
<1>6. InOrder(S) = [i \in 1 .. n |-> at(i)]
  BY DEF InOrder
<1>7. ASSUME NEW i \in 1 .. n
      PROVE  at(i) \in S /\ rank[at(i)] = i - 1
  <2>1. i - 1 \in 0 .. n - 1
    BY <1>1
  <2>2. \E r \in S : rank[r] = i - 1
    <3> HIDE DEF rank
    <3> QED BY <1>5, <2>1 DEF Surjection
  <2>3. \E r \in S : Cardinality(Below(r)) = i - 1
    BY <2>2
  <2>4. at(i) \in S /\ Cardinality(Below(at(i))) = i - 1
    <3> HIDE DEF Below
    <3> QED BY <2>3
  <2> HIDE DEF at, Below
  <2> QED BY <2>4
<1> HIDE DEF rank, at, Below
<1> DEFINE f == InOrder(S)
<1>8. f \in [1 .. n -> S] /\ \A i \in 1 .. n : rank[f[i]] = i - 1
  BY <1>6, <1>7
<1> HIDE DEF f, n
<1>9. f \in Injection(1 .. n, S)
  <2>1. ASSUME NEW i \in 1 .. n, NEW j \in 1 .. n, f[i] = f[j] PROVE i = j
    <3>1. i - 1 = j - 1
      BY <1>8, <2>1
    <3> QED BY <3>1
  <2> QED BY <1>8, <2>1 DEF Injection, IsInjective
<1>10. f \in Surjection(1 .. n, S)
  <2>1. ASSUME NEW r \in S PROVE \E i \in 1 .. n : f[i] = r
    <3>1. rank[r] + 1 \in 1 .. n /\ (rank[r] + 1) - 1 = rank[r]
      BY <1>1, <1>2
    <3>2. f[rank[r] + 1] \in S /\ rank[f[rank[r] + 1]] = rank[r]
      BY <1>8, <3>1
    <3>3. f[rank[r] + 1] = r
      BY <1>4, <3>2 DEF Injection, IsInjective
    <3> QED BY <3>1, <3>3
  <2> QED BY <1>8, <2>1 DEF Surjection
<1> QED BY <1>9, <1>10 DEF Bijection, f, n

\* What a bijection reaches a set from is as much as the set.
LEMMA CountAlong ==
  ASSUME NEW X, NEW S, NEW f \in Bijection(X, S), NEW Q \in SUBSET S, IsFiniteSet(S)
  PROVE  Cardinality({x \in X : f[x] \in Q}) = Cardinality(Q)
<1> DEFINE Y == {x \in X : f[x] \in Q}
           g == [x \in Y |-> f[x]]
<1>1. g \in Injection(Y, Q) /\ g \in Surjection(Y, Q)
  BY DEF Injection, IsInjective, Surjection, Bijection
<1>2. IsFiniteSet(Q)
  BY FS_Subset
<1> HIDE DEF Y, g
<1>3. Cardinality(Y) = Cardinality(Q)
  BY <1>1, <1>2, FS_Injection
<1> QED BY <1>3 DEF Y

RowsOf(text, type) == {i \in 1 .. Len(text) : text[i].line = "row" /\ text[i].type = type}

LEMMA RowsOfBoth ==
  ASSUME NEW x, NEW y, IsText(x), IsText(y), NEW type
  PROVE  /\ IsFiniteSet(RowsOf(x, type)) /\ IsFiniteSet(RowsOf(y, type))
         /\ Cardinality(RowsOf(x \o y, type)) =
              Cardinality(RowsOf(x, type)) + Cardinality(RowsOf(y, type))
<1>1. PICK T : x \in Seq(T) /\ y \in Seq(T)
  BY TextGrows
<1> DEFINE n == Len(x)
           m == Len(y)
           z == x \o y
           U == RowsOf(x, type)
           V == RowsOf(y, type)
           W == {n + i : i \in V}
           f == [i \in V |-> n + i]
<1>2. n \in Nat /\ m \in Nat
  BY <1>1
<1>3. /\ Len(z) = n + m
      /\ \A i \in 1 .. n + m : z[i] = IF i <= n THEN x[i] ELSE y[i - n]
  BY <1>1, ConcatProperties
<1>4. IsFiniteSet(U) /\ IsFiniteSet(V) /\ V \subseteq 1 .. m /\ U \subseteq 1 .. n
  <2>1. U \in SUBSET (1 .. n) /\ V \in SUBSET (1 .. m)
    BY DEF RowsOf
  <2> HIDE DEF U, V, n, m
  <2>2. IsFiniteSet(1 .. n) /\ IsFiniteSet(1 .. m)
    BY <1>2, FS_Interval
  <2> QED BY <2>1, <2>2, FS_Subset
<1> HIDE DEF n, m, z
<1>5. RowsOf(z, type) = U \cup W
  <2>1. ASSUME NEW i \in RowsOf(z, type) PROVE i \in U \cup W
    <3>1. i \in 1 .. n + m /\ z[i].line = "row" /\ z[i].type = type
      BY <1>3, <2>1 DEF RowsOf
    <3>2. CASE i <= n
      <4>1. i \in 1 .. n /\ z[i] = x[i]
        BY <1>2, <1>3, <3>1, <3>2
      <4> QED BY <3>1, <4>1 DEF RowsOf, n
    <3>3. CASE ~(i <= n)
      <4>1. i - n \in 1 .. m /\ z[i] = y[i - n] /\ i = n + (i - n)
        BY <1>2, <1>3, <3>1, <3>3
      <4>2. i - n \in V
        BY <3>1, <4>1 DEF RowsOf, m
      <4> HIDE DEF U, V
      <4> QED BY <4>1, <4>2
    <3> QED BY <3>2, <3>3
  <2>2. ASSUME NEW i \in U PROVE i \in RowsOf(z, type)
    <3>1. i \in 1 .. n /\ x[i].line = "row" /\ x[i].type = type
      BY DEF RowsOf, n
    <3>2. i \in 1 .. n + m /\ z[i] = x[i]
      BY <1>2, <1>3, <3>1
    <3> QED BY <1>3, <3>1, <3>2 DEF RowsOf
  <2>3. ASSUME NEW j \in V PROVE n + j \in RowsOf(z, type)
    <3>1. j \in 1 .. m /\ y[j].line = "row" /\ y[j].type = type
      BY DEF RowsOf, m
    <3>2. n + j \in 1 .. n + m /\ ~(n + j <= n) /\ (n + j) - n = j
      BY <1>2, <3>1
    <3>3. z[n + j] = y[j]
      BY <1>3, <3>2
    <3> QED BY <1>3, <3>1, <3>2, <3>3 DEF RowsOf
  <2> HIDE DEF U, V
  <2> QED BY <2>1, <2>2, <2>3
<1> HIDE DEF U, V
<1>6. f \in Injection(V, W) /\ f \in Surjection(V, W)
  <2>1. \A i \in V : i \in Int
    BY <1>4
  <2>2. f \in [V -> W] /\ \A i \in V : f[i] = n + i
    OBVIOUS
  <2>3. \A w \in W : \E i \in V : w = n + i
    OBVIOUS
  <2> HIDE DEF f, W
  <2>4. ASSUME NEW i \in V, NEW j \in V, f[i] = f[j] PROVE i = j
    <3>1. n + i = n + j
      BY <2>2, <2>4
    <3>2. i \in Int /\ j \in Int /\ n \in Int
      BY <1>2, <2>1
    <3> QED BY <3>1, <3>2
  <2> QED BY <2>2, <2>3, <2>4 DEF Injection, IsInjective, Surjection
<1>7. U \cap W = {}
  BY <1>2, <1>4
<1> HIDE DEF W, f
<1>8. IsFiniteSet(W) /\ Cardinality(W) = Cardinality(V)
  BY <1>4, <1>6, FS_Surjection
<1>9. Cardinality(U) \in Nat /\ Cardinality(V) \in Nat
  BY <1>4, FS_CardinalityType
<1>10. Cardinality(U \cup W) = Cardinality(U) + Cardinality(V)
  <2>1. Cardinality(U \cup W) = Cardinality(U) + Cardinality(W) - Cardinality(U \cap W)
    BY <1>4, <1>8, FS_Union
  <2>2. Cardinality(U \cap W) = 0
    BY <1>7, FS_EmptySet
  <2> QED BY <1>8, <1>9, <2>1, <2>2
<1> QED BY <1>4, <1>5, <1>10 DEF U, V, z

\* A text with no row in it.
LEMMA NoRows ==
  ASSUME NEW text, \A i \in 1 .. Len(text) : text[i].line # "row", NEW type
  PROVE  Cardinality(RowsOf(text, type)) = 0
<1>1. RowsOf(text, type) = {}
  BY DEF RowsOf
<1> QED BY <1>1, FS_EmptySet

\* What the table of a set of records has of one type.
LEMMA RowsCounted ==
  ASSUME IsFiniteSet(report), \A r \in report : r.path \in Int,
         \A r, s \in report : r.path = s.path => r = s,
         NEW type, type # "UNCHANGED"
  PROVE  Cardinality(RowsOf(ReportText, type)) = Cardinality({r \in report : r.type = type})
<1> DEFINE S == {r \in report : r.type # "UNCHANGED"}
           changed == InOrder(S)
           n == Cardinality(S)
<1>1. IsFiniteSet(S) /\ S \subseteq report
  <2>1. S \in SUBSET report
    OBVIOUS
  <2> QED BY <2>1, FS_Subset
<1>2. changed \in Bijection(1 .. n, S) /\ n \in Nat
  <2> HIDE DEF S
  <2> QED BY <1>1, InOrderIsAll, FS_CardinalityType
<1>3. changed \in [1 .. n -> S]
  BY <1>2 DEF Bijection, Injection
<1>4. Len(changed) = n
  <2> HIDE DEF changed, n, S
  <2> QED BY <1>2, <1>3
<1>5. /\ Rows(report) = [i \in 1 .. n |-> Row(changed[i])]
      /\ IsText(Rows(report)) /\ Len(Rows(report)) = n
  <2>1. Rows(report) = [i \in 1 .. Len(changed) |-> Row(changed[i])]
    BY DEF Rows
  <2> HIDE DEF changed, n
  <2>2. Rows(report) = [i \in 1 .. n |-> Row(changed[i])]
    BY <1>4, <2>1
  <2>3. Rows(report) = [i \in 1 .. n |-> Rows(report)[i]]
    BY <2>2
  <2> QED BY <1>2, <2>2, <2>3, Listing
<1>6. Cardinality(RowsOf(Rows(report), type)) = Cardinality({r \in report : r.type = type})
  <2> DEFINE Q == {r \in report : r.type = type}
  <2>1. Q \in SUBSET S
    OBVIOUS
  <2>2. RowsOf(Rows(report), type) = {i \in 1 .. n : changed[i] \in Q}
    <3>1. ASSUME NEW i \in 1 .. n
          PROVE  /\ Rows(report)[i].line = "row" /\ Rows(report)[i].type = changed[i].type
                 /\ changed[i] \in report
      <4>1. Rows(report)[i] = Row(changed[i]) /\ changed[i] \in S
        <5> HIDE DEF changed, n, S
        <5> QED BY <1>3, <1>5, <3>1
      <4> HIDE DEF changed, n
      <4> QED BY <4>1 DEF Row
    <3> HIDE DEF changed, n, S
    <3> QED BY <1>5, <3>1 DEF RowsOf
  <2> HIDE DEF changed, n, S, Q
  <2>3. Cardinality({i \in 1 .. n : changed[i] \in Q}) = Cardinality(Q)
    BY <1>1, <1>2, <2>1, CountAlong
  <2> QED BY <2>2, <2>3 DEF Q
<1> HIDE DEF S, changed, n
<1> DEFINE a == Header(config)
           b == Counters(stats, Results)
           c == Heading("DETAILED COMPARISON")
           d == Rows(report)
           e == Heading("SIDE-BY-SIDE")
           f == Differences(report)
           g == Heading("END OF REPORT")
           Rowless(text) == IsText(text) /\ Cardinality(RowsOf(text, type)) = 0
<1>7. ASSUME NEW text, IsText(text), \A i \in 1 .. Len(text) : text[i].line # "row"
      PROVE  Rowless(text)
  BY <1>7, NoRows
<1>8. Rowless(a)
  <2>1. IsText(a)
    BY OneLine DEF Header
  <2>2. Len(a) = 1 /\ a[1].line # "row"
    BY DEF Header
  <2>3. \A i \in 1 .. Len(a) : a[i].line # "row"
    BY <2>2
  <2> HIDE DEF a, Rowless
  <2> QED BY <1>7, <2>1, <2>3
<1>9. ASSUME NEW name, name # "row"
      PROVE  Rowless(Heading(name))
  <2> DEFINE h == Heading(name)
  <2>1. IsText(h)
    BY OneLine DEF Heading
  <2>2. Len(h) = 1 /\ h[1].line # "row"
    BY <1>9 DEF Heading
  <2>3. \A i \in 1 .. Len(h) : h[i].line # "row"
    BY <2>2
  <2> HIDE DEF h, Rowless
  <2>4. Rowless(h)
    BY <1>7, <2>1, <2>3
  <2> QED BY <2>4 DEF h
<1>10. Rowless(c) /\ Rowless(e) /\ Rowless(g)
  <2> HIDE DEF Rowless
  <2> QED BY <1>9
<1>11. ASSUME NEW x, NEW y, Rowless(x), IsText(y)
       PROVE  /\ IsText(x \o y) /\ IsText(y \o x)
              /\ Cardinality(RowsOf(x \o y, type)) = Cardinality(RowsOf(y, type))
              /\ Cardinality(RowsOf(y \o x, type)) = Cardinality(RowsOf(y, type))
  <2>1. IsText(x \o y) /\ IsText(y \o x)
    BY <1>11, TextGrows
  <2>2. Cardinality(RowsOf(y, type)) \in Nat
    BY <1>11, RowsOfBoth, FS_CardinalityType
  <2>3. Cardinality(RowsOf(x, type)) = 0
    BY <1>11
  <2> QED BY <1>11, <2>1, <2>2, <2>3, RowsOfBoth
<1>12. Rowless(b)
  <2> DEFINE four == [i \in 1 .. 4 |->
                        LET kind == <<"UNCHANGED", "MODIFIED", "ADDED", "REMOVED">>[i]
                        IN [line |-> "count", type |-> kind, n |-> Results.tally[kind]]]
             total == <<[line |-> "total", n |-> stats.total_files_scanned]>>
  <2>1. b = total \o four
    BY DEF Counters
  <2>2. Rowless(four)
    <3>1. four = [i \in 1 .. 4 |-> four[i]]
      OBVIOUS
    <3>2. \A i \in 1 .. 4 : four[i].line # "row"
      OBVIOUS
    <3> HIDE DEF four, Rowless
    <3>3. IsText(four) /\ Len(four) = 4
      BY <3>1, Listing
    <3> QED BY <1>7, <3>2, <3>3
  <2>3. Rowless(total)
    <3>1. IsText(total)
      BY OneLine
    <3>2. Len(total) = 1 /\ total[1].line # "row"
      OBVIOUS
    <3>3. \A i \in 1 .. Len(total) : total[i].line # "row"
      BY <3>2
    <3> HIDE DEF total, Rowless
    <3> QED BY <1>7, <3>1, <3>3
  <2> HIDE DEF four, total, b
  <2> QED BY <1>11, <2>1, <2>2, <2>3
<1>13. Rowless(f)
  <2> DEFINE differing == InOrder({r \in report : r.detail_kind = "LINES"})
             k == Cardinality({r \in report : r.detail_kind = "LINES"})
  <2>1. IsFiniteSet({r \in report : r.detail_kind = "LINES"})
    BY FS_Subset
  <2>2. k \in Nat
    BY <2>1, FS_CardinalityType
  <2>3. differing = [i \in 1 .. k |-> differing[i]]
    <3> DEFINE R == {r \in report : r.detail_kind = "LINES"}
               at(i) == CHOOSE r \in R : Cardinality({q \in R : q.path < r.path}) = i - 1
    <3>1. differing = [i \in 1 .. k |-> at(i)]
      BY DEF InOrder
    <3> HIDE DEF at, k
    <3> QED BY <3>1
  <2>4. Len(differing) = k
    <3> HIDE DEF differing, k
    <3> QED BY <2>2, <2>3, Listing
  <2>5. f = [i \in 1 .. k |->
               [line |-> "lines of", path |-> differing[i].path, type |-> differing[i].type]]
    <3>1. f = [i \in 1 .. Len(differing) |->
                 [line |-> "lines of", path |-> differing[i].path, type |-> differing[i].type]]
      BY DEF Differences
    <3> HIDE DEF differing, k, f
    <3> QED BY <2>4, <3>1
  <2> HIDE DEF differing, k, f, Rowless
  <2>6. f = [i \in 1 .. k |-> f[i]] /\ \A i \in 1 .. k : f[i].line # "row"
    BY <2>5
  <2>7. IsText(f) /\ Len(f) = k
    BY <2>2, <2>6, Listing
  <2> QED BY <1>7, <2>6, <2>7
<1>14. ReportText = (((((a \o b) \o c) \o d) \o e) \o f) \o g
  BY DEF ReportText, DetailedReport, Results
<1>15. IsText(d)
  BY <1>5
<1> DEFINE front == (a \o b) \o c
<1>16. Rowless(front)
  <2>1. IsText(a) /\ IsText(b) /\ IsText(c)
    BY <1>8, <1>10, <1>12
  <2>2. Rowless(a \o b)
    <3> HIDE DEF a, b
    <3>1. IsText(a \o b) /\ Cardinality(RowsOf(a \o b, type)) = Cardinality(RowsOf(b, type))
      <4> HIDE DEF Rowless
      <4> QED BY <1>8, <2>1, <1>11
    <3> QED BY <1>12, <3>1
  <2> DEFINE ab == a \o b
  <2> HIDE DEF ab, c
  <2>3. Rowless(ab \o c)
    <3>1. IsText(ab \o c) /\ Cardinality(RowsOf(ab \o c, type)) = Cardinality(RowsOf(c, type))
      <4> HIDE DEF Rowless
      <4> QED BY <2>1, <2>2, <1>11 DEF ab
    <3> QED BY <1>10, <3>1
  <2> QED BY <2>3 DEF ab
<1> DEFINE table == front \o d
           count == Cardinality(RowsOf(d, type))
<1> HIDE DEF a, b, c, d, e, f, g, front, count, Rowless
<1>17. IsText(table) /\ Cardinality(RowsOf(table, type)) = count
  BY <1>11, <1>15, <1>16 DEF count
<1> HIDE DEF table
<1>18. IsText(table \o e) /\ Cardinality(RowsOf(table \o e, type)) = count
  BY <1>10, <1>11, <1>17
<1>19. IsText((table \o e) \o f) /\ Cardinality(RowsOf((table \o e) \o f, type)) = count
  BY <1>11, <1>13, <1>18
<1>20. Cardinality(RowsOf(((table \o e) \o f) \o g, type)) = count
  BY <1>10, <1>11, <1>19
<1> QED BY <1>6, <1>14, <1>20 DEF table, front, count, d

----------------------------------------------------------------------------
(* The figures *)

Decided == Compare!AllPaths \ pending
OfType(paths, c) == {p \in paths : Compare!Type(p) = c}

\* Report and counters are those of the paths decided so far.
Counted ==
  /\ tally \in [Compare!ChangeType -> Nat]
  /\ \A c \in Compare!ChangeType : tally[c] = Cardinality(OfType(Decided, c))
  /\ report = {Compare!Verdict(p) : p \in {q \in Decided : Compare!Listed(q)}}

BeforePlan == {"args", "init", "scan_a", "scan_b"}

CountInv ==
  /\ \A index \in {input.index_a, input.index_b} :
       DOMAIN index \subseteq Path /\ IsFiniteSet(DOMAIN index)
  /\ pc \in BeforePlan =>
       /\ report = {} /\ tally = [c \in Compare!ChangeType |-> 0]
       /\ result = "running" /\ ~failed
  /\ pc = "compare" /\ ~failed => Counted /\ pending \subseteq Compare!AllPaths
  /\ result = "success" => Counted /\ pending = {}
  /\ result = "success" /\ pc # "compare" => stats.total_files_scanned = TotalScanned

LEMMA CountInvInit == Init => CountInv
<1> SUFFICES ASSUME Init PROVE CountInv
  OBVIOUS
<1>1. /\ input = [index_a |-> <<>>, index_b |-> <<>>, equal |-> {}, lines |-> {},
                  include_unchanged |-> TRUE]
      /\ pc = "args" /\ report = {} /\ tally = [c \in Compare!ChangeType |-> 0]
      /\ result = "running" /\ failed = FALSE
  BY DEF Init
<1>2. \A index \in {input.index_a, input.index_b} : DOMAIN index = {}
  BY <1>1
<1> QED BY <1>1, <1>2, FS_EmptySet DEF CountInv

LEMMA PathsAreFinite ==
  ASSUME CountInv
  PROVE  IsFiniteSet(Compare!AllPaths) /\ Compare!AllPaths \subseteq Path
BY FS_Union DEF CountInv, Compare!AllPaths

\* The verdict on a path depends on the trees alone.
LEMMA TypesStay ==
  ASSUME input' = input
  PROVE  /\ Compare!AllPaths' = Compare!AllPaths
         /\ \A p : /\ Compare!Verdict(p)' = Compare!Verdict(p)
                   /\ Compare!Type(p)' = Compare!Type(p)
                   /\ Compare!Listed(p)' = Compare!Listed(p)
BY DEF Compare!AllPaths, Compare!Verdict, Compare!Type, Compare!Detail, Compare!SizeIn,
       Compare!Listed

LEMMA CountedStays ==
  ASSUME Counted, UNCHANGED <<input, pending, report, tally>>
  PROVE  Counted'
<1>1. Decided' = Decided /\ \A c : OfType(Decided, c)' = OfType(Decided, c)
  BY TypesStay DEF Decided, OfType
<1>2. {Compare!Verdict(p) : p \in {q \in Decided : Compare!Listed(q)}}' =
        {Compare!Verdict(p) : p \in {q \in Decided : Compare!Listed(q)}}
  BY <1>1, TypesStay
<1> QED BY <1>1, <1>2 DEF Counted

\* One path more is decided.
LEMMA DecidingCounts ==
  ASSUME CountInv, Counted, pending \subseteq Compare!AllPaths,
         NEW p \in Path, Compare!Decide(p)
  PROVE  Counted'
<1>1. /\ p \in pending /\ pending' = pending \ {p} /\ input' = input
      /\ report' = report \cup {v \in {Compare!Verdict(p)} : Compare!Listed(p)}
      /\ tally' = [tally EXCEPT ![Compare!Type(p)] = @ + 1]
  BY DEF Compare!Decide
<1>2. Decided' = Decided \cup {p} /\ p \notin Decided /\ IsFiniteSet(Decided)
  <2>1. Decided \in SUBSET Compare!AllPaths
    BY DEF Decided
  <2>2. IsFiniteSet(Decided)
    BY <2>1, PathsAreFinite, FS_Subset
  <2> QED BY <1>1, <2>2, TypesStay DEF Decided
<1>3. report' = {Compare!Verdict(q) : q \in {r \in Decided : Compare!Listed(r)}}'
  <2>1. {Compare!Verdict(q) : q \in {r \in Decided : Compare!Listed(r)}}' =
          {Compare!Verdict(q) : q \in {r \in Decided' : Compare!Listed(r)}}
    BY <1>1, TypesStay
  <2>2. {Compare!Verdict(q) : q \in {r \in Decided' : Compare!Listed(r)}} =
          {Compare!Verdict(q) : q \in {r \in Decided : Compare!Listed(r)}}
            \cup {v \in {Compare!Verdict(p)} : Compare!Listed(p)}
    BY <1>2
  <2> QED BY <1>1, <2>1, <2>2 DEF Counted
<1>4. Compare!Type(p) \in Compare!ChangeType
  BY DEF Compare!Type, Compare!ChangeType
<1>5. tally \in [Compare!ChangeType -> Nat] /\ tally' \in [Compare!ChangeType -> Nat]
  BY <1>1, <1>4 DEF Counted
<1>6. ASSUME NEW c \in Compare!ChangeType
      PROVE  tally'[c] = Cardinality(OfType(Decided, c)')
  <2>1. tally[c] = Cardinality(OfType(Decided, c))
    BY DEF Counted
  <2>2. IsFiniteSet(OfType(Decided, c))
    BY <1>2, FS_Subset DEF OfType
  <2>3. OfType(Decided, c)' = {q \in Decided' : Compare!Type(q) = c}
    BY <1>1, TypesStay DEF OfType
  <2>4. CASE c = Compare!Type(p)
    <3>1. OfType(Decided, c)' = OfType(Decided, c) \cup {p} /\ p \notin OfType(Decided, c)
      BY <1>2, <2>3, <2>4 DEF OfType
    <3> DEFINE S == OfType(Decided, c)
    <3> HIDE DEF S
    <3>2. Cardinality(S \cup {p}) = Cardinality(S) + 1
      BY <2>2, <3>1, FS_AddElement DEF S
    <3>3. tally'[c] = tally[c] + 1
      BY <1>1, <1>5, <2>4
    <3> QED BY <2>1, <3>1, <3>2, <3>3 DEF S
  <2>5. CASE c # Compare!Type(p)
    <3>1. OfType(Decided, c)' = OfType(Decided, c)
      BY <1>2, <2>3, <2>5 DEF OfType
    <3>2. tally'[c] = tally[c]
      BY <1>1, <1>5, <2>5
    <3> QED BY <2>1, <3>1, <3>2
  <2> QED BY <2>4, <2>5
<1> QED BY <1>3, <1>5, <1>6 DEF Counted

\* A step that touches neither the comparison nor its figures.
LEMMA CountsStay ==
  ASSUME CountInv, UNCHANGED <<compareVars, stats>>,
         pc' \in BeforePlan => pc \in BeforePlan, pc' = "compare" => pc = "compare",
         pc = "compare" => pc' = "compare"
  PROVE  CountInv'
<1>1. UNCHANGED <<input, pending, report, tally, failed, result, stats>>
  BY DEF compareVars
<1>2. Compare!AllPaths' = Compare!AllPaths /\ TotalScanned' = TotalScanned
  BY <1>1, TypesStay DEF TotalScanned
<1>3. Counted => Counted'
  BY <1>1, CountedStays
<1> QED BY <1>1, <1>2, <1>3 DEF CountInv, BeforePlan

LEMMA CountInvInductive == CountInv /\ [Next]_vars => CountInv'
<1> SUFFICES ASSUME CountInv, [Next]_vars PROVE CountInv'
  OBVIOUS
<1> USE DEF BeforePlan
<1>1. CASE Informs \/ Flag \/ Threads \/ OutputFile \/ BadOption \/ Directories
  <2>1. /\ UNCHANGED <<compareVars, stats>> /\ pc = "args" /\ pc' \in {"args", "init", "exit"}
    BY <1>1 DEF Informs, Flag, Threads, OutputFile, BadOption, Directories, At, Exits, AfterArgs
  <2> QED BY <2>1, CountsStay
<1>2. CASE Setup \/ PhaseFails
  <2>1. /\ UNCHANGED <<compareVars, stats>> /\ pc # "compare"
        /\ pc' = "cleanup" \/ (pc = "init" /\ pc' = "scan_a")
    BY <1>2 DEF Setup, PhaseFails, Goes
  <2> QED BY <2>1, CountsStay
<1>3. CASE ScanA
  <2>1. PICK trees \in Inputs :
          input' = [index_a |-> trees.index_a, index_b |-> trees.index_b,
                    equal |-> trees.equal,
                    lines |-> IF config.include_lines THEN trees.lines ELSE {},
                    include_unchanged |-> config.include_unchanged]
    BY <1>3 DEF ScanA
  <2>2. input'.index_a = trees.index_a /\ input'.index_b = trees.index_b
    BY <2>1
  <2>3. /\ UNCHANGED <<report, tally, failed, result, stats>>
        /\ pc = "scan_a" /\ pc' = "scan_b"
    BY <1>3 DEF ScanA, Goes
  <2> QED BY <2>2, <2>3, TreesAssumption DEF CountInv
<1>4. CASE ScanB
  <2>1. /\ UNCHANGED <<input, report, tally, failed, result, stats>>
        /\ pending' = Compare!AllPaths /\ pc = "scan_b" /\ pc' = "compare"
    BY <1>4 DEF ScanB, Goes
  <2>2. /\ report = {} /\ tally = [c \in Compare!ChangeType |-> 0] /\ result = "running"
    BY <2>1 DEF CountInv
  <2>3. Decided' = {} /\ Compare!AllPaths' = Compare!AllPaths
    BY <2>1, TypesStay DEF Decided
  <2>4. \A c : OfType(Decided, c)' = {}
    BY <2>3 DEF OfType
  <2>5. {Compare!Verdict(p) : p \in {q \in Decided : Compare!Listed(q)}}' = {}
    BY <2>3
  <2>6. Counted'
    BY <2>1, <2>2, <2>4, <2>5, FS_EmptySet DEF Counted
  <2> QED BY <2>1, <2>2, <2>3, <2>6 DEF CountInv
<1>5. CASE Plan
  <2>1. Compare!Next /\ pc = "compare" /\ UNCHANGED <<pc, stats>>
    BY <1>5 DEF Plan
  <2>2. ASSUME NEW p \in Path, Compare!Decide(p) PROVE CountInv'
    <3>1. /\ UNCHANGED <<input, failed, result>> /\ result = "running"
          /\ pending' = pending \ {p}
      BY <2>2 DEF Compare!Decide
    <3>2. ~failed => Counted'
      BY <2>1, <2>2, DecidingCounts DEF CountInv
    <3>3. Compare!AllPaths' = Compare!AllPaths
      BY <3>1, TypesStay
    <3> QED BY <2>1, <3>1, <3>2, <3>3 DEF CountInv
  <2>3. ASSUME NEW lost, Compare!Fail(lost) PROVE CountInv'
    <3>1. UNCHANGED <<input, result>> /\ result = "running" /\ failed' = TRUE
      BY <2>3 DEF Compare!Fail
    <3> QED BY <2>1, <3>1 DEF CountInv
  <2>4. CASE Compare!Finish
    <3>1. /\ UNCHANGED <<input, pending, report, tally, failed>>
          /\ ~failed => pending = {}
          /\ result' = IF failed THEN "failure" ELSE "success"
      BY <2>4 DEF Compare!Finish
    <3>2. Counted => Counted'
      BY <3>1, CountedStays
    <3>3. Compare!AllPaths' = Compare!AllPaths
      BY <3>1, TypesStay
    <3> QED BY <2>1, <3>1, <3>2, <3>3 DEF CountInv
  <2>5. CASE Compare!Refuse
    <3>1. UNCHANGED input /\ failed' = TRUE /\ result' = "failure"
      BY <2>5 DEF Compare!Refuse
    <3> QED BY <2>1, <3>1 DEF CountInv
  <2> QED BY <2>1, <2>2, <2>3, <2>4, <2>5 DEF Compare!Next
<1>6. CASE Planned
  <2>1. /\ UNCHANGED <<input, pending, report, tally, failed, result>>
        /\ pc = "compare" /\ pc' \in {"open", "cleanup"}
        /\ result = "success" => stats' = [total_files_scanned |-> TotalScanned]
    BY <1>6 DEF Planned, RcOfPlan, compareVars
  <2>2. Counted => Counted'
    BY <2>1, CountedStays
  <2>3. TotalScanned' = TotalScanned
    BY <2>1 DEF TotalScanned
  <2> QED BY <2>1, <2>2, <2>3 DEF CountInv
<1>7. CASE OpenReport \/ WriteLine \/ TextEnds
             \/ \E n \in 0 .. BufferSize : WriteFails(n) \/ CloseReport(n) \/ Return(n)
  <2>1. /\ UNCHANGED <<compareVars, stats>> /\ pc # "compare"
        /\ pc' \in {"report", "close", "summary", "cleanup", "exit"}
    BY <1>7 DEF OpenReport, WriteLine, TextEnds, WriteFails, CloseReport, Return, Goes, Exits,
                StopsWriting, TargetBecomes
  <2> QED BY <2>1, CountsStay
<1>8. CASE UNCHANGED vars
  <2>1. UNCHANGED <<compareVars, stats>> /\ pc' = pc
    BY <1>8 DEF vars
  <2> QED BY <2>1, CountsStay
<1> QED BY <1>1, <1>2, <1>3, <1>4, <1>5, <1>6, <1>7, <1>8 DEF Next, Exited

\* Four kinds of paths are all paths, and those the first tree has not are the
\* added ones.
LEMMA KindsAreAll ==
  ASSUME CountInv
  PROVE  /\ Cardinality(Compare!AllPaths) =
              Cardinality(DOMAIN input.index_a) + Cardinality(OfType(Compare!AllPaths, "ADDED"))
         /\ Cardinality(Compare!AllPaths) =
              ((Cardinality(OfType(Compare!AllPaths, "UNCHANGED"))
                + Cardinality(OfType(Compare!AllPaths, "MODIFIED")))
               + Cardinality(OfType(Compare!AllPaths, "ADDED")))
              + Cardinality(OfType(Compare!AllPaths, "REMOVED"))
<1> DEFINE All == Compare!AllPaths
           A == DOMAIN input.index_a
           unchanged == OfType(All, "UNCHANGED")
           modified == OfType(All, "MODIFIED")
           added == OfType(All, "ADDED")
           removed == OfType(All, "REMOVED")
<1>1. /\ unchanged \in SUBSET All /\ modified \in SUBSET All
      /\ added \in SUBSET All /\ removed \in SUBSET All
  BY DEF OfType
<1>2. IsFiniteSet(All) /\ IsFiniteSet(A)
  BY PathsAreFinite DEF CountInv
<1>3. All = A \cup added /\ A \cap added = {}
  BY DEF Compare!AllPaths, OfType, Compare!Type
<1>4. /\ unchanged \cap modified = {} /\ (unchanged \cup modified) \cap added = {}
      /\ ((unchanged \cup modified) \cup added) \cap removed = {}
  BY DEF OfType
<1>5. All = ((unchanged \cup modified) \cup added) \cup removed
  BY DEF OfType, Compare!Type
<1>6. /\ IsFiniteSet(unchanged) /\ IsFiniteSet(modified) /\ IsFiniteSet(added)
      /\ IsFiniteSet(removed)
  <2> HIDE DEF All, unchanged, modified, added, removed
  <2> QED BY <1>1, <1>2, FS_Subset
<1> HIDE DEF All, A, unchanged, modified, added, removed
<1>7. ASSUME NEW S, NEW T, IsFiniteSet(S), IsFiniteSet(T), S \cap T = {}
      PROVE  IsFiniteSet(S \cup T) /\ Cardinality(S \cup T) = Cardinality(S) + Cardinality(T)
  <2>1. /\ IsFiniteSet(S \cup T)
        /\ Cardinality(S \cup T) = Cardinality(S) + Cardinality(T) - Cardinality(S \cap T)
    BY <1>7, FS_Union
  <2>2. Cardinality(S \cap T) = 0 /\ Cardinality(S) \in Nat /\ Cardinality(T) \in Nat
    BY <1>7, FS_EmptySet, FS_CardinalityType
  <2> QED BY <2>1, <2>2
<1>8. Cardinality(All) = Cardinality(A) + Cardinality(added)
  BY <1>2, <1>3, <1>6, <1>7
<1>9. /\ IsFiniteSet(unchanged \cup modified)
      /\ Cardinality(unchanged \cup modified) = Cardinality(unchanged) + Cardinality(modified)
  BY <1>4, <1>6, <1>7
<1>10. /\ IsFiniteSet((unchanged \cup modified) \cup added)
       /\ Cardinality((unchanged \cup modified) \cup added) =
            (Cardinality(unchanged) + Cardinality(modified)) + Cardinality(added)
  BY <1>4, <1>6, <1>7, <1>9
<1>11. Cardinality(All) =
         ((Cardinality(unchanged) + Cardinality(modified)) + Cardinality(added))
         + Cardinality(removed)
  BY <1>4, <1>5, <1>6, <1>7, <1>10
<1> QED BY <1>8, <1>11 DEF All, A, unchanged, modified, added, removed

\* The records of a type are as many as the paths of it, unless they are left out.
LEMMA RecordsOfType ==
  ASSUME CountInv, Counted, pending = {}, NEW c \in {"MODIFIED", "ADDED", "REMOVED"}
  PROVE  /\ IsFiniteSet(report) /\ \A r \in report : r.path \in Int
         /\ \A r, s \in report : r.path = s.path => r = s
         /\ Cardinality({r \in report : r.type = c}) = Cardinality(OfType(Compare!AllPaths, c))
<1> DEFINE All == Compare!AllPaths
           due == {q \in All : Compare!Listed(q)}
           P == OfType(All, c)
           R == {r \in report : r.type = c}
           f == [p \in P |-> Compare!Verdict(p)]
           g == [p \in due |-> Compare!Verdict(p)]
<1>1. report = {Compare!Verdict(p) : p \in due}
  BY DEF Counted, Decided
<1>2. \A p : /\ Compare!Verdict(p).path = p
             /\ Compare!Verdict(p).type = Compare!Type(p)
  BY DEF Compare!Verdict
<1>3. IsFiniteSet(All) /\ All \subseteq Int
  BY PathsAreFinite, TreesAssumption
<1>4. IsFiniteSet(report)
  <2>1. due \in SUBSET All
    OBVIOUS
  <2>2. g \in Surjection(due, report)
    BY <1>1 DEF Surjection
  <2> HIDE DEF due, All, g
  <2> QED BY <1>3, <2>1, <2>2, FS_Subset, FS_Surjection
<1>5. ASSUME NEW r \in report
      PROVE  r.path \in Int /\ r = Compare!Verdict(r.path)
  <2>1. PICK p \in due : r = Compare!Verdict(p)
    BY <1>1
  <2>2. p \in All /\ r.path = p
    BY <1>2, <2>1
  <2> QED BY <1>3, <2>1, <2>2
<1>6. R = {Compare!Verdict(p) : p \in P}
  <2>1. ASSUME NEW p \in P PROVE Compare!Verdict(p) \in R
    <3>1. p \in All /\ Compare!Type(p) = c
      BY DEF OfType
    <3>2. p \in due
      BY <3>1 DEF Compare!Listed
    <3> QED BY <1>1, <1>2, <3>1, <3>2
  <2>2. ASSUME NEW r \in R PROVE r \in {Compare!Verdict(p) : p \in P}
    <3>1. PICK p \in due : r = Compare!Verdict(p)
      BY <1>1
    <3>2. p \in P
      BY <1>2, <3>1 DEF OfType
    <3> QED BY <3>1, <3>2
  <2> HIDE DEF R, P
  <2> QED BY <2>1, <2>2
<1>7. IsFiniteSet(P)
  <2>1. P \in SUBSET All
    BY DEF OfType
  <2> HIDE DEF P, All
  <2> QED BY <1>3, <2>1, FS_Subset
<1>8. f \in Injection(P, R) /\ f \in Surjection(P, R)
  <2>1. f \in [P -> R] /\ \A r \in R : \E p \in P : f[p] = r
    BY <1>6
  <2>2. ASSUME NEW p \in P, NEW q \in P, f[p] = f[q] PROVE p = q
    <3>1. Compare!Verdict(p) = Compare!Verdict(q)
      BY <2>2
    <3> QED BY <1>2, <3>1
  <2> HIDE DEF f, P, R
  <2> QED BY <2>1, <2>2 DEF Injection, IsInjective, Surjection
<1> HIDE DEF f, P, R
<1>9. Cardinality(R) = Cardinality(P)
  BY <1>7, <1>8, FS_Surjection
<1> QED BY <1>4, <1>5, <1>9 DEF P, R

\* After exit code 0 the figures agree with each other and with the table, for
\* trees of any size: the total, computed from one index and one counter
\* (src/main.c:144), counts every path of either tree once, as do the four
\* counters together, and each counter but the first counts the rows of its type.
THEOREM FiguresAddUpEver == Spec => []FiguresAddUp
<1>1. TypeInv /\ TextInv /\ CountInv => FiguresAddUp
  <2> SUFFICES ASSUME TypeInv, TextInv, CountInv, exit = 0, argv \notin BadArgvs
               PROVE  /\ stats.total_files_scanned = Cardinality(Compare!AllPaths)
                      /\ stats.total_files_scanned = tally["UNCHANGED"] + tally["MODIFIED"]
                                                     + tally["ADDED"] + tally["REMOVED"]
                      /\ \A type \in {"MODIFIED", "ADDED", "REMOVED"} :
                           tally[type] = Cardinality(RowsOf(Written(detail), type))
    BY DEF FiguresAddUp, RowsOf
  <2>1. /\ pc = "exit" /\ result = "success" /\ Written(detail) = ReportText
    BY DEF TypeInv, TextInv, NoExit
  <2>2. Counted /\ pending = {} /\ stats.total_files_scanned = TotalScanned
    BY <2>1 DEF CountInv
  <2>3. \A c \in Compare!ChangeType : tally[c] = Cardinality(OfType(Compare!AllPaths, c))
    BY <2>2 DEF Counted, Decided
  <2>4. /\ tally["UNCHANGED"] = Cardinality(OfType(Compare!AllPaths, "UNCHANGED"))
        /\ tally["MODIFIED"] = Cardinality(OfType(Compare!AllPaths, "MODIFIED"))
        /\ tally["ADDED"] = Cardinality(OfType(Compare!AllPaths, "ADDED"))
        /\ tally["REMOVED"] = Cardinality(OfType(Compare!AllPaths, "REMOVED"))
    BY <2>3 DEF Compare!ChangeType
  <2>5. stats.total_files_scanned = Cardinality(Compare!AllPaths)
    BY <2>2, <2>4, KindsAreAll DEF TotalScanned
  <2>6. Cardinality(Compare!AllPaths) =
          ((tally["UNCHANGED"] + tally["MODIFIED"]) + tally["ADDED"]) + tally["REMOVED"]
    BY <2>4, KindsAreAll
  <2>7. ASSUME NEW type \in {"MODIFIED", "ADDED", "REMOVED"}
        PROVE  tally[type] = Cardinality(RowsOf(Written(detail), type))
    <3>1. Cardinality(RowsOf(ReportText, type)) = Cardinality({r \in report : r.type = type})
      BY <2>2, RecordsOfType, RowsCounted
    <3>2. Cardinality({r \in report : r.type = type}) = Cardinality(OfType(Compare!AllPaths, type))
      BY <2>2, RecordsOfType
    <3> QED BY <2>1, <2>4, <3>1, <3>2
  <2> QED BY <2>5, <2>6, <2>7
<1> QED BY <1>1, ArgsInvInit, ArgsInvInductive, TypeInvInit, TypeInvInductive,
           TextInvInit, TextInvInductive, CountInvInit, CountInvInductive, PTL DEF Spec
=============================================================================
