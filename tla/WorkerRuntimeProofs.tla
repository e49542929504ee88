------------------------- MODULE WorkerRuntimeProofs -------------------------
(* Proofs about WorkerRuntime.  The invariant ties the running workers to the *)
(* exit stacks, which hold them in the order they started, and says which of  *)
(* the wanted workers a level still has to start.                             *)
EXTENDS WorkerRuntime, FiniteSetTheorems, TLAPS

\* Names are taken once, and the shadow names are those of shadow workers.
RegistryOK ==
    /\ \A i, j \in DOMAIN registry : NameOf[registry[i]] = NameOf[registry[j]] => i = j
    /\ \A k \in DOMAIN shadow : \E i \in DOMAIN registry :
         NameOf[registry[i]] = shadow[k] /\ registry[i] \in Shadow

RunOK ==
    /\ mode = "idle" <=> phase = "off"
    /\ Len(lifespans) <= MaxStarts /\ Len(plan) <= MaxStarts
    /\ phase # "off" => level \in 1 .. Len(plan)
    /\ phase # "off" => outcome = "none"
    /\ phase = "off" => stack = <<>>
    /\ phase # "start" => pending = <<>>

\* The stacks hold the running workers in the order they started.
StackOK ==
    /\ up = Range(stack)
    /\ \A i, j \in DOMAIN stack : i < j => Before(stack[i], stack[j])
    /\ \A i, j \in DOMAIN pending : i < j => Before(pending[i], pending[j])
    /\ \A i \in DOMAIN stack, j \in DOMAIN pending : Before(stack[i], pending[j])
    /\ \A i \in up : IF phase = "build" THEN i.level < level ELSE i.level <= level
    /\ \A i \in Range(pending) : i.level = level

ServedOK ==
    /\ phase = "body" => served
    /\ phase = "unwind" /\ stack = <<>> /\ exc = "none" => served
    /\ FailedStartIsSeen

Answers(i, l, n) == i.level = l /\ NameOf[i.cls] = n

\* Every level below has all it was asked for; this one has it up or pending.
AskedOK ==
    /\ \A l \in DOMAIN plan :
         (phase \in {"build", "start"} /\ l < level) \/ phase = "body" =>
           \A n \in Range(plan[l]) : \E i \in up : Answers(i, l, n)
    /\ phase = "start" =>
         \A n \in Range(plan[level]) : \E i \in up \cup Range(pending) : Answers(i, level, n)
    /\ \A i \in up \cup Range(pending) :
         \/ NameOf[i.cls] \in Range(plan[i.level])
         \/ mode = "serve" /\ i.cls \in Shadow

IInv == TypeOK /\ RegistryOK /\ RunOK /\ StackOK /\ ServedOK /\ AskedOK

------------------------------------------------------------------------------
(* Sequences                                                                  *)

LEMMA RangeOf ==
    ASSUME NEW S, NEW s \in Seq(S)
    PROVE  /\ Range(s) \subseteq S
           /\ s = <<>> => Range(s) = {}
           /\ \A i \in DOMAIN s : s[i] \in Range(s)
           /\ \A x \in Range(s) : \E i \in DOMAIN s : x = s[i]
BY DEF Range

LEMMA EmptyRange == Range(<<>>) = {}
BY DEF Range

LEMMA Appending ==
    ASSUME NEW S, NEW s \in Seq(S), NEW x \in S
    PROVE  /\ Append(s, x) \in Seq(S) /\ Append(s, x) # <<>>
           /\ Range(Append(s, x)) = Range(s) \cup {x}
           /\ DOMAIN s = 1 .. Len(s) /\ Len(s) \in Nat
           /\ DOMAIN Append(s, x) = 1 .. (Len(s) + 1)
           /\ \A i \in DOMAIN s : Append(s, x)[i] = s[i]
           /\ Append(s, x)[Len(s) + 1] = x
<1>1. /\ Append(s, x) \in Seq(S) /\ Append(s, x) # <<>>
      /\ DOMAIN s = 1 .. Len(s) /\ Len(s) \in Nat
      /\ DOMAIN Append(s, x) = 1 .. (Len(s) + 1)
      /\ \A i \in DOMAIN s : Append(s, x)[i] = s[i]
      /\ Append(s, x)[Len(s) + 1] = x
  OBVIOUS
<1> QED BY <1>1 DEF Range

LEMMA Heading ==
    ASSUME NEW S, NEW s \in Seq(S), s # <<>>
    PROVE  /\ Head(s) \in S /\ Tail(s) \in Seq(S) /\ Head(s) = s[1]
           /\ DOMAIN s = 1 .. Len(s) /\ Len(s) \in Nat \ {0}
           /\ DOMAIN Tail(s) = 1 .. (Len(s) - 1)
           /\ \A i \in DOMAIN Tail(s) : Tail(s)[i] = s[i + 1]
           /\ Range(s) = {Head(s)} \cup Range(Tail(s))
<1>1. /\ Head(s) \in S /\ Tail(s) \in Seq(S) /\ Head(s) = s[1]
      /\ DOMAIN s = 1 .. Len(s) /\ Len(s) \in Nat \ {0}
      /\ DOMAIN Tail(s) = 1 .. (Len(s) - 1)
      /\ \A i \in DOMAIN Tail(s) : Tail(s)[i] = s[i + 1]
  OBVIOUS
<1>2. \A i \in DOMAIN s : i = 1 \/ (i - 1 \in DOMAIN Tail(s) /\ s[i] = Tail(s)[i - 1])
  BY <1>1
<1>3. \A i \in DOMAIN Tail(s) : i + 1 \in DOMAIN s
  BY <1>1
<1>4. Range(s) \subseteq {Head(s)} \cup Range(Tail(s))
  BY <1>1, <1>2 DEF Range
<1>5. Head(s) \in Range(s) /\ Range(Tail(s)) \subseteq Range(s)
  BY <1>1, <1>3 DEF Range
<1> QED BY <1>1, <1>4, <1>5

LEMMA Fronting ==
    ASSUME NEW S, NEW s \in Seq(S), s # <<>>
    PROVE  /\ Last(s) \in S /\ Front(s) \in Seq(S)
           /\ DOMAIN s = 1 .. Len(s) /\ Len(s) \in Nat \ {0} /\ Last(s) = s[Len(s)]
           /\ DOMAIN Front(s) = 1 .. (Len(s) - 1)
           /\ \A i \in DOMAIN Front(s) : Front(s)[i] = s[i]
           /\ Range(s) = Range(Front(s)) \cup {Last(s)}
<1>1. /\ Last(s) \in S /\ Front(s) \in Seq(S)
      /\ DOMAIN s = 1 .. Len(s) /\ Len(s) \in Nat \ {0} /\ Last(s) = s[Len(s)]
      /\ DOMAIN Front(s) = 1 .. (Len(s) - 1)
      /\ \A i \in DOMAIN Front(s) : Front(s)[i] = s[i]
  BY DEF Last, Front
<1>2. \A i \in DOMAIN s : i = Len(s) \/ i \in DOMAIN Front(s)
  BY <1>1
<1> QED BY <1>1, <1>2 DEF Range

\* What InOrder enumerates the positions of a sequence by.
LEMMA InOrderDomain ==
    ASSUME NEW S, NEW s \in Seq(S), NEW D \in SUBSET DOMAIN s, NEW f \in InOrder(D)
    PROVE  \E n \in Nat : f \in [1 .. n -> DOMAIN s]
<1>1. IsFiniteSet(DOMAIN s)
  BY FS_Interval
<1>2. Cardinality(D) \in Nat
  BY <1>1, FS_Subset, FS_CardinalityType
<1>3. f \in [1 .. Cardinality(D) -> D]
  BY DEF InOrder, Bijection, Injection, Surjection
<1> QED BY <1>2, <1>3

------------------------------------------------------------------------------
LEMMA InitInv == Init => IInv
<1> SUFFICES ASSUME Init PROVE IInv
  OBVIOUS
<1>1. /\ registry \in Seq(Classes) /\ shadow \in Seq(Names) /\ offered \in Seq(Names)
      /\ lifespans \in Seq(Seq(Names)) /\ plan \in Seq(Seq(Names))
      /\ pending \in Seq(Instances) /\ stack \in Seq(Instances)
  BY DEF Init
<1>4. 0 \in 0 .. MaxStarts
  BY StartsAssumption
<1>3. /\ built \in BOOLEAN /\ mode = "idle" /\ phase = "off" /\ level \in 0 .. MaxStarts
      /\ up \subseteq Instances /\ stop \in BOOLEAN /\ served \in BOOLEAN
      /\ exc = "none" /\ outcome = "none"
  BY <1>4 DEF Init
<1>2. TypeOK
  BY <1>1, <1>3 DEF TypeOK
<1> QED BY <1>2, EmptyRange, StartsAssumption
        DEF Init, IInv, RegistryOK, RunOK, StackOK, ServedOK, AskedOK, FailedStartIsSeen

LEMMA AddStep ==
    ASSUME IInv, NEW c \in Classes, Add(c) PROVE IInv'
<1>0. mode = "idle" /\ phase = "off" /\ UNCHANGED <<built, offered, lifespans, run>>
  BY DEF Add, IInv, RunOK
<1>1. (registry' \in Seq(Classes) /\ shadow' \in Seq(Names)) /\ RegistryOK'
  <2>1. CASE UNCHANGED <<registry, shadow>>
    BY <2>1 DEF IInv, TypeOK, RegistryOK
  <2>2. ASSUME ~Registered(NameOf[c]), registry' = Append(registry, c),
               shadow' = IF c \in Shadow THEN Append(shadow, NameOf[c]) ELSE shadow
        PROVE  (registry' \in Seq(Classes) /\ shadow' \in Seq(Names)) /\ RegistryOK'
    <3> DEFINE r == Append(registry, c)
               k == Len(registry) + 1
    <3>1. /\ r \in Seq(Classes) /\ DOMAIN registry = 1 .. Len(registry) /\ Len(registry) \in Nat
          /\ DOMAIN r = 1 .. k /\ r[k] = c
          /\ \A i \in DOMAIN registry : r[i] = registry[i]
      BY Appending DEF IInv, TypeOK
    <3> HIDE DEF r
    <3>2. \A i \in DOMAIN registry : NameOf[registry[i]] # NameOf[c]
      BY <2>2 DEF Registered
    <3>3. \A i \in DOMAIN r : i \in DOMAIN registry \/ i = k
      BY <3>1
    <3>4. \A i, j \in DOMAIN r : NameOf[r[i]] = NameOf[r[j]] => i = j
      BY <3>1, <3>2, <3>3 DEF IInv, RegistryOK
    <3>5. registry' = r
      BY <2>2 DEF r
    <3>6. DOMAIN registry \subseteq DOMAIN r /\ k \in DOMAIN r
      BY <3>1
    <3>7. CASE c \notin Shadow
      <4>1. shadow' = shadow
        BY <2>2, <3>7
      <4>2. \A h \in DOMAIN shadow : \E i \in DOMAIN r :
               NameOf[r[i]] = shadow[h] /\ r[i] \in Shadow
        BY <3>1, <3>6 DEF IInv, RegistryOK
      <4>3. shadow' \in Seq(Names)
        BY <4>1 DEF IInv, TypeOK
      <4> HIDE DEF k
      <4> QED BY <3>1, <3>4, <3>5, <4>1, <4>2, <4>3 DEF RegistryOK
    <3>8. ASSUME c \in Shadow
          PROVE  shadow' \in Seq(Names) /\ \A h \in DOMAIN shadow' : \E i \in DOMAIN r :
                   NameOf[r[i]] = shadow'[h] /\ r[i] \in Shadow
      <4>1. shadow' = Append(shadow, NameOf[c]) /\ NameOf[c] \in Names
        BY <2>2, <3>8, NameOfAssumption
      <4>2. /\ shadow' \in Seq(Names) /\ DOMAIN shadow' = 1 .. (Len(shadow) + 1)
            /\ DOMAIN shadow = 1 .. Len(shadow) /\ Len(shadow) \in Nat
            /\ \A i \in DOMAIN shadow : shadow'[i] = shadow[i]
            /\ shadow'[Len(shadow) + 1] = NameOf[c]
        BY <4>1, Appending DEF IInv, TypeOK
      <4>3. ASSUME NEW h \in DOMAIN shadow'
            PROVE  \E i \in DOMAIN r : NameOf[r[i]] = shadow'[h] /\ r[i] \in Shadow
        <5>1. CASE h \in DOMAIN shadow
          BY <3>1, <3>6, <4>2, <5>1 DEF IInv, RegistryOK
        <5>2. CASE h = Len(shadow) + 1
          BY <3>1, <3>6, <3>8, <4>2, <5>2
        <5> QED BY <4>2, <5>1, <5>2
      <4> QED BY <4>2, <4>3
    <3> QED BY <3>1, <3>4, <3>5, <3>7, <3>8 DEF RegistryOK
  <2> QED BY <2>1, <2>2 DEF Add
<1>2. TypeOK'
  BY <1>0, <1>1 DEF IInv, TypeOK, run
<1> QED BY <1>0, <1>1, <1>2 DEF IInv, RunOK, StackOK, ServedOK, AskedOK, FailedStartIsSeen,
                                Before, Answers, run

LEMMA ConstructStep == ASSUME IInv, Construct PROVE IInv'
<1>0. built' = TRUE /\ UNCHANGED <<registry, shadow, lifespans, run>>
  BY DEF Construct
<1>1. offered' \in Seq(Names)
  <2> DEFINE D == {i \in DOMAIN registry : registry[i] \notin Shadow}
  <2>1. PICK f \in InOrder(D) : offered' = Visible(f)
    BY DEF Construct
  <2>2. PICK n \in Nat : f \in [1 .. n -> DOMAIN registry]
    BY InOrderDomain DEF IInv, TypeOK
  <2>3. \A i \in 1 .. n : NameOf[registry[f[i]]] \in Names
    BY <2>2, NameOfAssumption DEF IInv, TypeOK
  <2> QED BY <2>1, <2>2, <2>3 DEF Visible
<1>2. TypeOK'
  BY <1>0, <1>1 DEF IInv, TypeOK, run
<1> QED BY <1>0, <1>2 DEF IInv, RegistryOK, RunOK, StackOK, ServedOK, AskedOK,
                          FailedStartIsSeen, run

LEMMA BeginStep ==
    ASSUME IInv, mode = "idle", NEW m \in {"run", "serve"}, NEW lists \in Seq(Seq(Names)),
           Len(lists) \in 1 .. MaxStarts, Begin(m, lists),
           UNCHANGED <<registry, shadow, built, offered>>,
           lifespans' \in Seq(Seq(Names)), Len(lifespans') <= MaxStarts
    PROVE  IInv'
<1>0. phase = "off" /\ stack = <<>> /\ up = {}
  BY EmptyRange DEF IInv, RunOK, StackOK
<1>1. /\ mode' = m /\ phase' = "build" /\ plan' = lists /\ level' = 1
      /\ pending' = <<>> /\ stack' = <<>> /\ up' = {}
      /\ stop' = FALSE /\ exc' = "none" /\ served' = FALSE /\ outcome' = "none"
  BY <1>0 DEF Begin
<1>2. pending' \in Seq(Instances) /\ stack' \in Seq(Instances)
  BY <1>1
<1>8. 1 \in 0 .. MaxStarts
  BY StartsAssumption
<1>7. /\ mode' \in {"idle", "run", "serve"} /\ phase' = "build" /\ level' \in 0 .. MaxStarts
      /\ up' \subseteq Instances /\ stop' \in BOOLEAN /\ served' \in BOOLEAN
      /\ exc' = "none" /\ outcome' = "none" /\ plan' \in Seq(Seq(Names))
  BY <1>1, <1>8
<1>3. TypeOK'
  BY <1>2, <1>7 DEF IInv, TypeOK
<1>4. RunOK'
  BY <1>1 DEF IInv, RunOK
<1>5. StackOK' /\ ServedOK' /\ RegistryOK'
  BY <1>1, EmptyRange DEF IInv, StackOK, ServedOK, FailedStartIsSeen, RegistryOK
<1>6. AskedOK'
  BY <1>1, EmptyRange DEF AskedOK
<1> QED BY <1>3, <1>4, <1>5, <1>6 DEF IInv

LEMMA CommandStep ==
    ASSUME IInv
    PROVE  /\ \A n \in Names : RunCommand(n) => IInv'
           /\ \A names \in Seq(Names) : Start(names) => IInv'
           /\ \A on \in SUBSET DOMAIN offered : StartCommand(on) => IInv'
<1>1. ASSUME NEW n \in Names, RunCommand(n) PROVE IInv'
  <2>1. <<<<n>>>> \in Seq(Seq(Names)) /\ Len(<<<<n>>>>) \in 1 .. MaxStarts
    BY StartsAssumption
  <2>2. lifespans' = lifespans /\ Begin("run", <<<<n>>>>) /\ mode = "idle"
        /\ UNCHANGED <<registry, shadow, built, offered>>
    BY <1>1 DEF RunCommand, registration
  <2>3. lifespans' \in Seq(Seq(Names)) /\ Len(lifespans') <= MaxStarts
    BY <2>2 DEF IInv, TypeOK, RunOK
  <2> QED BY <2>1, <2>2, <2>3, BeginStep
<1>2. ASSUME NEW names \in Seq(Names), Start(names) PROVE IInv'
  <2>1. lifespans \in Seq(Seq(Names)) /\ Len(lifespans) < MaxStarts
        /\ lifespans' = Append(lifespans, names) /\ mode = "idle"
        /\ Begin("serve", lifespans') /\ UNCHANGED <<registry, shadow, built, offered>>
    BY <1>2 DEF IInv, TypeOK, Start
  <2> DEFINE ls == Append(lifespans, names)
  <2>2. ls \in Seq(Seq(Names)) /\ Len(ls) \in 1 .. MaxStarts /\ Len(ls) <= MaxStarts
    BY <2>1, StartsAssumption
  <2>3. lifespans' = ls /\ Begin("serve", ls)
    BY <2>1 DEF Begin
  <2> HIDE DEF ls
  <2> QED BY <2>1, <2>2, <2>3, BeginStep
<1>3. ASSUME NEW on \in SUBSET DOMAIN offered, StartCommand(on) PROVE IInv'
  <2>1. PICK f \in InOrder(on) : Start(Toggled(f))
    BY <1>3 DEF StartCommand
  <2>2. PICK n \in Nat : f \in [1 .. n -> DOMAIN offered]
    BY InOrderDomain DEF IInv, TypeOK
  <2>3. Toggled(f) \in Seq(Names)
    BY <2>2 DEF Toggled, IInv, TypeOK
  <2> QED BY <1>2, <2>1, <2>3
<1> QED BY <1>1, <1>2, <1>3

LEMMA SignalStep == ASSUME IInv, Signal PROVE IInv'
<1>1. /\ stop' = TRUE
      /\ UNCHANGED <<registration, mode, phase, plan, level, pending, stack, up, exc, served, outcome>>
  BY DEF Signal
<1>2. TypeOK'
  BY <1>1 DEF IInv, TypeOK, registration
<1> QED BY <1>1, <1>2 DEF IInv, RegistryOK, RunOK, StackOK, ServedOK, AskedOK,
                          FailedStartIsSeen, registration

------------------------------------------------------------------------------
(* A run                                                                      *)

LEMMA NamedClass ==
    ASSUME IInv, NEW n, Registered(n)
    PROVE  /\ ClassNamed(n) \in Classes /\ NameOf[ClassNamed(n)] = n
           /\ n \in Range(shadow) => ClassNamed(n) \in Shadow
<1> DEFINE k == CHOOSE i \in DOMAIN registry : NameOf[registry[i]] = n
<1>1. k \in DOMAIN registry /\ NameOf[registry[k]] = n
  BY DEF Registered
<1>2. ClassNamed(n) = registry[k]
  BY DEF ClassNamed
<1> HIDE DEF k
<1>3. registry[k] \in Classes
  BY <1>1 DEF IInv, TypeOK
<1>4. ASSUME n \in Range(shadow) PROVE registry[k] \in Shadow
  <2>1. PICK h \in DOMAIN shadow : shadow[h] = n
    BY <1>4 DEF Range
  <2>2. PICK i \in DOMAIN registry : NameOf[registry[i]] = n /\ registry[i] \in Shadow
    BY <2>1 DEF IInv, RegistryOK
  <2> QED BY <1>1, <2>2 DEF IInv, RegistryOK
<1> QED BY <1>1, <1>2, <1>3, <1>4

LEMMA WantedNames ==
    ASSUME IInv, phase # "off"
    PROVE  /\ Wanted(level) \in Seq(Names)
           /\ Range(plan[level]) \subseteq Range(Wanted(level))
           /\ \A n \in Range(Wanted(level)) :
                n \in Range(plan[level]) \/ (mode = "serve" /\ n \in Range(shadow))
<1> DEFINE p == plan[level]
<1>1. p \in Seq(Names) /\ shadow \in Seq(Names)
  BY DEF IInv, TypeOK, RunOK
<1> HIDE DEF p
<1>2. CASE mode = "serve"
  <2>1. Wanted(level) = p \o shadow
    BY <1>2 DEF Wanted, p
  <2> DEFINE w == p \o shadow
  <2>2. /\ w \in Seq(Names) /\ DOMAIN w = 1 .. (Len(p) + Len(shadow))
        /\ DOMAIN p = 1 .. Len(p) /\ DOMAIN shadow = 1 .. Len(shadow)
        /\ Len(p) \in Nat /\ Len(shadow) \in Nat
        /\ \A i \in DOMAIN p : w[i] = p[i]
        /\ \A i \in DOMAIN w : i > Len(p) => w[i] = shadow[i - Len(p)]
    BY <1>1
  <2> HIDE DEF w
  <2>3. \A i \in DOMAIN p : i \in DOMAIN w
    BY <2>2
  <2>4. \A i \in DOMAIN w : i \in DOMAIN p \/ (i > Len(p) /\ i - Len(p) \in DOMAIN shadow)
    BY <2>2
  <2>5. Range(p) \subseteq Range(w) /\ Range(w) \subseteq Range(p) \cup Range(shadow)
    BY <2>2, <2>3, <2>4 DEF Range
  <2> QED BY <1>2, <2>1, <2>2, <2>5 DEF w, p
<1>3. CASE mode # "serve"
  <2>1. Wanted(level) = p
    BY <1>1, <1>3 DEF Wanted, p
  <2> QED BY <1>1, <2>1 DEF p
<1> QED BY <1>2, <1>3

LEMMA BuildStep == ASSUME IInv, Build PROVE IInv'
<1>1. /\ phase = "build"
      /\ UNCHANGED <<registration, mode, plan, level, stack, up, stop, served, outcome>>
  BY DEF Build
<1>2. CASE /\ \E n \in Range(Wanted(level)) : ~Registered(n)
           /\ phase' = "unwind" /\ exc' = "error" /\ UNCHANGED pending
  <2>1. TypeOK'
    BY <1>1, <1>2 DEF IInv, TypeOK, registration
  <2> QED BY <1>1, <1>2, <2>1 DEF IInv, RegistryOK, RunOK, StackOK, ServedOK, AskedOK,
                                  TypeOK, Instances, FailedStartIsSeen, registration
<1>3. ASSUME \A n \in Range(Wanted(level)) : Registered(n),
             pending' = Instance(level, Wanted(level)), phase' = "start", UNCHANGED exc
      PROVE  IInv'
  <2> DEFINE w == Wanted(level)
             q == Instance(level, w)
  <2>1. /\ w \in Seq(Names) /\ Range(plan[level]) \subseteq Range(w)
        /\ \A n \in Range(w) :
             n \in Range(plan[level]) \/ (mode = "serve" /\ n \in Range(shadow))
    BY <1>1, WantedNames
  <2>2. /\ level \in 1 .. MaxStarts /\ level \in 1 .. Len(plan)
        /\ up \subseteq Instances /\ stack \in Seq(Instances)
    BY <1>1, StartsAssumption DEF IInv, RunOK, TypeOK
  <2>3. \A n \in Range(w) : /\ ClassNamed(n) \in Classes /\ NameOf[ClassNamed(n)] = n
                            /\ n \in Range(shadow) => ClassNamed(n) \in Shadow
    BY <1>3, NamedClass
  <2>13. /\ DOMAIN w = 1 .. Len(w) /\ Len(w) \in Nat /\ DOMAIN q = DOMAIN w
         /\ \A i \in DOMAIN w : i \in Nat /\ w[i] \in Range(w)
    BY <2>1, RangeOf DEF Instance
  <2>14. \A i \in DOMAIN w : q[i] = [level |-> level, pos |-> i, cls |-> ClassNamed(w[i])]
    BY DEF Instance
  <2> HIDE DEF w
  <2>5. \A i \in DOMAIN w : q[i] \in Instances
    <3> SUFFICES ASSUME NEW i \in DOMAIN w PROVE q[i] \in Instances
      OBVIOUS
    <3>11. w[i] \in Range(w) /\ i \in Nat
      BY <2>13
    <3>12. ClassNamed(w[i]) \in Classes
      BY <2>3, <3>11
    <3>1. ClassNamed(w[i]) \in Classes /\ i \in Nat /\ level \in 1 .. MaxStarts
      BY <2>2, <3>11, <3>12
    <3>2. q[i] = [level |-> level, pos |-> i, cls |-> ClassNamed(w[i])]
      BY <2>14
    <3> QED BY <3>1, <3>2 DEF Instances
  <2>12. q = [i \in DOMAIN w |-> q[i]]
    BY <2>13 DEF Instance
  <2> HIDE DEF q
  <2>4. \A i \in DOMAIN w : q[i].level = level /\ q[i].pos = i /\ q[i].cls = ClassNamed(w[i])
    <3> SUFFICES ASSUME NEW i \in DOMAIN w
                 PROVE  q[i].level = level /\ q[i].pos = i /\ q[i].cls = ClassNamed(w[i])
      OBVIOUS
    <3>1. q[i] = [level |-> level, pos |-> i, cls |-> ClassNamed(w[i])]
      BY <2>14
    <3> QED BY <3>1
  <2>6. q \in Seq(Instances)
    BY <2>13, <2>5, <2>12
  <2>7. pending' = q
    BY <1>3 DEF q, w
  <2>8. TypeOK'
    BY <1>1, <1>3, <2>6, <2>7 DEF IInv, TypeOK, registration
  <2>9. \A x \in Range(q) : /\ x.level = level
                            /\ NameOf[x.cls] \in Range(plan[x.level])
                                 \/ (mode = "serve" /\ x.cls \in Shadow)
    <3> SUFFICES ASSUME NEW i \in DOMAIN w
                 PROVE  /\ q[i].level = level
                        /\ NameOf[q[i].cls] \in Range(plan[q[i].level])
                              \/ (mode = "serve" /\ q[i].cls \in Shadow)
      BY <2>13 DEF Range
    <3>1. q[i].level = level /\ q[i].cls = ClassNamed(w[i]) /\ w[i] \in Range(w)
      BY <2>4, <2>13
    <3> QED BY <2>1, <2>3, <3>1
  <2>10. StackOK'
    <3>1. \A i, j \in DOMAIN q : i < j => Before(q[i], q[j])
      BY <2>4, <2>13 DEF Before
    <3>2. \A i \in DOMAIN stack, j \in DOMAIN q : Before(stack[i], q[j])
      BY <1>1, <2>2, <2>4, <2>13, RangeOf DEF IInv, StackOK, Before, Instances
    <3>3. ASSUME NEW i \in up PROVE i.level <= level
      <4>1. i \in Instances /\ i.level < level
        BY <1>1, <2>2 DEF IInv, StackOK
      <4>2. i.level \in 1 .. MaxStarts
        BY <4>1 DEF Instances
      <4> QED BY <2>2, <4>1, <4>2
    <3>4. \A i \in Range(q) : i.level = level
      BY <2>9
    <3>5. up' = Range(stack') /\ stack' = stack /\ level' = level
          /\ \A i, j \in DOMAIN stack : i < j => Before(stack[i], stack[j])
      BY <1>1 DEF IInv, StackOK
    <3> QED BY <1>1, <1>3, <2>7, <3>1, <3>2, <3>3, <3>4, <3>5 DEF StackOK
  <2>11. AskedOK'
    <3>1. \A n \in Range(plan[level]) : \E i \in Range(q) : Answers(i, level, n)
      <4> SUFFICES ASSUME NEW n \in Range(plan[level])
                   PROVE  \E i \in Range(q) : Answers(i, level, n)
        OBVIOUS
      <4>1. PICK i \in DOMAIN w : w[i] = n
        BY <2>1, RangeOf
      <4>2. q[i] \in Range(q)
        BY <2>13 DEF Range
      <4>3. q[i].level = level /\ NameOf[q[i].cls] = n
        BY <2>3, <2>4, <2>13, <4>1
      <4> QED BY <4>2, <4>3 DEF Answers
    <3> QED BY <1>1, <1>3, <2>7, <2>9, <3>1 DEF IInv, AskedOK
  <2> QED BY <1>1, <1>3, <2>7, <2>8, <2>10, <2>11
          DEF IInv, RegistryOK, RunOK, ServedOK, FailedStartIsSeen, registration
<1> QED BY <1>2, <1>3 DEF Build
LEMMA EnterWorkerStep == ASSUME IInv, EnterWorker PROVE IInv'
<1> DEFINE h == Head(pending)
           t == Tail(pending)
           a == Append(stack, h)
<1>1. /\ phase = "start" /\ pending # <<>>
      /\ stack' = a /\ up' = up \cup {h} /\ pending' = t
      /\ UNCHANGED <<registration, mode, phase, plan, level, stop, exc, served, outcome>>
  BY DEF EnterWorker
<1>2. /\ h \in Instances /\ t \in Seq(Instances) /\ h = pending[1]
      /\ DOMAIN pending = 1 .. Len(pending) /\ Len(pending) \in Nat \ {0}
      /\ DOMAIN t = 1 .. (Len(pending) - 1)
      /\ \A i \in DOMAIN t : t[i] = pending[i + 1]
      /\ Range(pending) = {h} \cup Range(t)
  BY <1>1, Heading DEF IInv, TypeOK
<1> HIDE DEF h, t
<1>3. /\ a \in Seq(Instances) /\ a # <<>> /\ Range(a) = Range(stack) \cup {h}
      /\ DOMAIN stack = 1 .. Len(stack) /\ Len(stack) \in Nat
      /\ DOMAIN a = 1 .. (Len(stack) + 1)
      /\ \A i \in DOMAIN stack : a[i] = stack[i]
      /\ a[Len(stack) + 1] = h
  <2>1. stack \in Seq(Instances) /\ h \in Instances
    BY <1>2 DEF IInv, TypeOK
  <2> QED BY <2>1, Appending
<1> HIDE DEF a
<1>4. TypeOK'
  BY <1>1, <1>2, <1>3 DEF IInv, TypeOK, registration
<1>5. StackOK'
  <2>1. \A i \in DOMAIN t : i + 1 \in DOMAIN pending /\ 1 < i + 1 /\ 1 \in DOMAIN pending
    BY <1>2
  <2>2. \A i \in DOMAIN a : i \in DOMAIN stack \/ (i = Len(stack) + 1 /\ a[i] = pending[1])
    BY <1>2, <1>3
  <2>3. \A i, j \in DOMAIN a : i < j => i \in DOMAIN stack
    BY <1>3
  <2>4. \A i, j \in DOMAIN a : i < j => Before(a[i], a[j])
    BY <1>2, <1>3, <2>2, <2>3 DEF IInv, StackOK
  <2>5. \A i, j \in DOMAIN t : i < j => Before(t[i], t[j])
    <3> SUFFICES ASSUME NEW i \in DOMAIN t, NEW j \in DOMAIN t, i < j
                 PROVE  Before(pending[i + 1], pending[j + 1])
      BY <1>2
    <3>1. i + 1 < j + 1
      BY <1>2
    <3> QED BY <2>1, <3>1 DEF IInv, StackOK
  <2>6. \A i \in DOMAIN a, j \in DOMAIN t : Before(a[i], t[j])
    <3> SUFFICES ASSUME NEW i \in DOMAIN a, NEW j \in DOMAIN t
                 PROVE  Before(a[i], pending[j + 1])
      BY <1>2
    <3>1. CASE i \in DOMAIN stack
      BY <1>3, <2>1, <3>1 DEF IInv, StackOK
    <3>2. CASE a[i] = pending[1]
      BY <2>1, <3>2 DEF IInv, StackOK
    <3> QED BY <2>2, <3>1, <3>2
  <2>7. h.level = level
    BY <1>2 DEF IInv, StackOK
  <2>8. level <= level
    BY StartsAssumption DEF IInv, TypeOK
  <2>9. \A i \in up \cup {h} : i.level <= level
    BY <1>1, <2>7, <2>8 DEF IInv, StackOK
  <2> QED BY <1>1, <1>2, <1>3, <2>4, <2>5, <2>6, <2>9 DEF IInv, StackOK
<1>6. AskedOK'
  <2>1. up' \cup Range(pending') = up \cup Range(pending)
    BY <1>1, <1>2
  <2>2. \A l \in DOMAIN plan : l < level =>
          \A n \in Range(plan[l]) : \E i \in up' : Answers(i, l, n)
    BY <1>1 DEF IInv, AskedOK
  <2>3. \A n \in Range(plan[level]) : \E i \in up' \cup Range(pending') : Answers(i, level, n)
    BY <1>1, <2>1 DEF IInv, AskedOK
  <2> QED BY <1>1, <2>1, <2>2, <2>3 DEF IInv, AskedOK
<1> QED BY <1>1, <1>3, <1>4, <1>5, <1>6
        DEF IInv, RegistryOK, RunOK, ServedOK, FailedStartIsSeen, registration

LEMMA EnterFailsStep == ASSUME IInv, EnterFails PROVE IInv'
<1>1. /\ phase = "start" /\ exc' \in {"error", "cancelled"} /\ phase' = "unwind"
      /\ pending' = <<>>
      /\ UNCHANGED <<registration, mode, plan, level, stack, up, stop, served, outcome>>
  BY DEF EnterFails
<1>2. pending' \in Seq(Instances)
  BY <1>1
<1>3. TypeOK'
  BY <1>1, <1>2 DEF IInv, TypeOK, registration
<1>4. StackOK'
  BY <1>1, EmptyRange DEF IInv, StackOK
<1>5. AskedOK'
  BY <1>1, EmptyRange DEF IInv, AskedOK
<1> QED BY <1>1, <1>3, <1>4, <1>5
        DEF IInv, RegistryOK, RunOK, ServedOK, FailedStartIsSeen, registration

LEMMA LevelUpStep == ASSUME IInv, LevelUp PROVE IInv'
<1>1. /\ phase = "start" /\ pending = <<>>
      /\ UNCHANGED <<registration, mode, plan, pending, stack, up, stop, exc, outcome>>
  BY DEF LevelUp
<1>2. /\ level \in 1 .. Len(plan) /\ Len(plan) \in 1 .. MaxStarts /\ Len(plan) \in Nat
      /\ DOMAIN plan = 1 .. Len(plan)
  BY <1>1, StartsAssumption DEF IInv, RunOK, TypeOK
<1>3. \A l \in DOMAIN plan : l <= level =>
        \A n \in Range(plan[l]) : \E i \in up : Answers(i, l, n)
  <2>1. \A l \in DOMAIN plan : l <= level => l < level \/ l = level
    BY <1>2
  <2> QED BY <1>1, <2>1, EmptyRange DEF IInv, AskedOK
<1>4. ASSUME level < Len(plan), level' = level + 1, phase' = "build", UNCHANGED served
      PROVE  IInv'
  <2>1. level + 1 \in 0 .. MaxStarts /\ level + 1 \in 1 .. Len(plan)
    BY <1>2, <1>4, StartsAssumption
  <2>2. TypeOK'
    BY <1>1, <1>4, <2>1 DEF IInv, TypeOK, registration
  <2>3. StackOK'
    <3>1. ASSUME NEW i \in up PROVE i.level < level + 1
      <4>1. i \in Instances /\ i.level <= level
        BY <1>1 DEF IInv, StackOK, TypeOK
      <4>2. i.level \in Nat
        BY <4>1, StartsAssumption DEF Instances
      <4> QED BY <1>2, <4>1, <4>2
    <3> QED BY <1>1, <1>4, <3>1, EmptyRange DEF IInv, StackOK
  <2>4. AskedOK'
    <3>1. \A l \in DOMAIN plan : l < level + 1 => l <= level
      BY <1>2
    <3>2. \A i \in up \cup Range(pending) :
            \/ NameOf[i.cls] \in Range(plan[i.level])
            \/ mode = "serve" /\ i.cls \in Shadow
      BY DEF IInv, AskedOK
    <3> QED BY <1>1, <1>3, <1>4, <3>1, <3>2 DEF AskedOK
  <2> QED BY <1>1, <1>4, <2>1, <2>2, <2>3, <2>4
          DEF IInv, RegistryOK, RunOK, ServedOK, FailedStartIsSeen, registration
<1>5. ASSUME ~(level < Len(plan)), phase' = "body", served' = TRUE, UNCHANGED level
      PROVE  IInv'
  <2>1. \A l \in DOMAIN plan : l <= level
    BY <1>2, <1>5
  <2>2. TypeOK'
    BY <1>1, <1>5 DEF IInv, TypeOK, registration
  <2>3. AskedOK'
    BY <1>1, <1>3, <1>5, <2>1 DEF IInv, AskedOK
  <2>4. StackOK'
    BY <1>1, <1>5 DEF IInv, StackOK
  <2> QED BY <1>1, <1>5, <2>2, <2>3, <2>4
          DEF IInv, RegistryOK, RunOK, ServedOK, FailedStartIsSeen, registration
<1> QED BY <1>4, <1>5 DEF LevelUp

LEMMA BodyStep == ASSUME IInv, Stopping \/ Cancelled PROVE IInv'
<1>1. /\ phase = "body" /\ phase' = "unwind" /\ (exc' = "cancelled" \/ UNCHANGED exc)
      /\ UNCHANGED <<registration, mode, plan, level, pending, stack, up, stop, served, outcome>>
  BY DEF Stopping, Cancelled
<1>2. TypeOK'
  BY <1>1 DEF IInv, TypeOK, registration
<1>3. AskedOK'
  BY <1>1 DEF IInv, AskedOK
<1>4. StackOK'
  BY <1>1 DEF IInv, StackOK
<1> QED BY <1>1, <1>2, <1>3, <1>4
        DEF IInv, RegistryOK, RunOK, ServedOK, FailedStartIsSeen, registration

\* The instance on top of the stacks started after all the others.
LEMMA TopOfStack ==
    ASSUME IInv, stack # <<>>
    PROVE  /\ Range(Front(stack)) = up \ {Last(stack)}
           /\ \A j \in up : ~Before(Last(stack), j)
<1> DEFINE x == Last(stack)
           f == Front(stack)
<1>1. /\ x \in Instances /\ f \in Seq(Instances) /\ Len(stack) \in Nat \ {0}
      /\ DOMAIN stack = 1 .. Len(stack) /\ x = stack[Len(stack)]
      /\ DOMAIN f = 1 .. (Len(stack) - 1)
      /\ \A i \in DOMAIN f : f[i] = stack[i]
      /\ Range(stack) = Range(f) \cup {x}
  BY Fronting DEF IInv, TypeOK
<1> HIDE DEF x, f
<1>2. \A i \in DOMAIN f : /\ i \in DOMAIN stack /\ i < Len(stack)
                          /\ Len(stack) \in DOMAIN stack
  BY <1>1
<1>3. \A i \in DOMAIN f : Before(stack[i], x)
  BY <1>1, <1>2 DEF IInv, StackOK
<1>4. \A j \in Range(f) : Before(j, x)
  BY <1>1, <1>3 DEF Range
<1>5. ASSUME NEW j \in Instances PROVE ~(Before(j, x) /\ Before(x, j)) /\ ~Before(x, x)
  <2>1. j.level \in Nat /\ j.pos \in Nat /\ x.level \in Nat /\ x.pos \in Nat
    BY <1>1, StartsAssumption DEF Instances
  <2> QED BY <2>1 DEF Before
<1>6. up = Range(f) \cup {x} /\ up \subseteq Instances
  BY <1>1 DEF IInv, StackOK, TypeOK
<1> QED BY <1>1, <1>4, <1>5, <1>6 DEF x, f

LEMMA ExitWorkerStep == ASSUME IInv, ExitWorker PROVE IInv'
<1> DEFINE f == Front(stack)
<1>1. /\ phase = "unwind" /\ stack # <<>>
      /\ stack' = f /\ up' = up \ {Last(stack)}
      /\ UNCHANGED <<registration, mode, phase, plan, level, pending, stop, served, outcome>>
  BY DEF ExitWorker
<1>2. PICK e \in {exc, "error", "none"} : exc' = Unyielded(e)
  BY DEF ExitWorker
<1>3. exc' \in {"none", "error", "cancelled"} /\ (f = <<>> /\ exc' = "none" => served)
  BY <1>2 DEF Unyielded, IInv, TypeOK
<1>4. /\ f \in Seq(Instances) /\ Range(f) = up' /\ up' \subseteq up
      /\ DOMAIN f \subseteq DOMAIN stack
      /\ \A i \in DOMAIN f : f[i] = stack[i]
  <2>1. /\ f \in Seq(Instances) /\ Len(stack) \in Nat /\ DOMAIN stack = 1 .. Len(stack)
        /\ DOMAIN f = 1 .. (Len(stack) - 1) /\ \A i \in DOMAIN f : f[i] = stack[i]
    BY <1>1, Fronting DEF IInv, TypeOK
  <2>2. DOMAIN f \subseteq DOMAIN stack
    BY <2>1
  <2> QED BY <1>1, <2>1, <2>2, TopOfStack
<1> HIDE DEF f
<1>5. TypeOK'
  BY <1>1, <1>3, <1>4 DEF IInv, TypeOK, registration
<1>6. StackOK'
  <2>1. pending = <<>>
    BY <1>1 DEF IInv, RunOK
  <2>2. \A i, j \in DOMAIN f : i < j => Before(f[i], f[j])
    BY <1>4 DEF IInv, StackOK
  <2>3. \A i \in up' : i.level <= level
    BY <1>1, <1>4 DEF IInv, StackOK
  <2> QED BY <1>1, <1>4, <2>1, <2>2, <2>3, EmptyRange DEF StackOK
<1>7. AskedOK'
  BY <1>1, <1>4 DEF IInv, AskedOK
<1> QED BY <1>1, <1>3, <1>5, <1>6, <1>7
        DEF IInv, RegistryOK, RunOK, ServedOK, FailedStartIsSeen, registration

LEMMA EndStep == ASSUME IInv, End PROVE IInv'
<1>1. /\ phase = "unwind" /\ stack = <<>> /\ mode' = "idle" /\ phase' = "off"
      /\ outcome' = Outcome
      /\ UNCHANGED <<registration, plan, level, pending, stack, up, stop, exc, served>>
  BY DEF End
<1>2. outcome' \in {"clean", "error"} /\ (outcome' = "clean" => served \/ exc = "cancelled")
  BY <1>1 DEF Outcome, IInv, ServedOK, TypeOK
<1>3. up = {} /\ Range(pending) = {} /\ pending = <<>>
  BY <1>1, EmptyRange DEF IInv, StackOK, RunOK
<1>4. TypeOK'
  BY <1>1, <1>2 DEF IInv, TypeOK, registration
<1>5. StackOK' /\ AskedOK'
  BY <1>1, <1>3, EmptyRange DEF StackOK, AskedOK
<1> QED BY <1>1, <1>2, <1>3, <1>4, <1>5
        DEF IInv, RegistryOK, RunOK, ServedOK, FailedStartIsSeen, registration

LEMMA NextStep == IInv /\ [Next]_vars => IInv'
<1> SUFFICES ASSUME IInv, [Next]_vars PROVE IInv'
  OBVIOUS
<1>1. CASE UNCHANGED vars
  BY <1>1 DEF vars, registration, run, IInv, TypeOK, RegistryOK, RunOK, StackOK, ServedOK,
              AskedOK, FailedStartIsSeen
<1>2. CASE Runner
  BY <1>2, BuildStep, EnterWorkerStep, EnterFailsStep, LevelUpStep, BodyStep,
     ExitWorkerStep, EndStep DEF Runner
<1>3. \A names \in Requests : Start(names) => IInv'
  BY CommandStep, RequestsAssumption
<1> QED BY <1>1, <1>2, <1>3, AddStep, ConstructStep, CommandStep, SignalStep, BodyStep DEF Next

------------------------------------------------------------------------------
(* Theorems                                                                   *)

\* The inductive invariant holds throughout.
THEOREM Invariant == Spec => []IInv
BY InitInv, NextStep, PTL DEF Spec

\* The state of registry, CLI and runs stays within its type.
THEOREM TypeCorrect == Spec => []TypeOK
<1>1. IInv => TypeOK
  BY DEF IInv
<1> QED BY <1>1, Invariant, PTL

\* Whichever lifespans fail to start, raise or suppress, for any number of
\* workers and levels, a command that is over has left no worker running.
THEOREM NothingLeftRunningHolds == Spec => []NothingLeftRunning
<1>1. IInv => NothingLeftRunning
  BY EmptyRange DEF IInv, RunOK, StackOK, NothingLeftRunning
<1> QED BY <1>1, Invariant, PTL

\* The body of a command runs with all it asked for and nothing else but, in a
\* server, the shadow workers.
THEOREM RunsWhatWasAskedHolds == Spec => []RunsWhatWasAsked
<1>1. IInv => RunsWhatWasAsked
  BY DEF IInv, AskedOK, RunsWhatWasAsked, Answers
<1> QED BY <1>1, Invariant, PTL

\* A clean end is the end of a run whose body was reached or that was cancelled.
THEOREM FailedStartIsSeenHolds == Spec => []FailedStartIsSeen
<1>1. IInv => FailedStartIsSeen
  BY DEF IInv, ServedOK
<1> QED BY <1>1, Invariant, PTL

\* Across levels too, no step stops a worker under one that started after it.
THEOREM StopsInReverseHolds == Spec => StopsInReverse
<1> DEFINE A == \A i, j \in up : Before(i, j) /\ i \notin up' => j \notin up'
<1>1. ASSUME IInv, [Next]_vars PROVE A \/ UNCHANGED vars
  <2>1. CASE ExitWorker
    <3>1. stack # <<>> /\ up' = up \ {Last(stack)}
      BY <2>1 DEF ExitWorker
    <3> QED BY <1>1, <3>1, TopOfStack
  <2>2. ASSUME ~ExitWorker PROVE A
    <3>1. Next => up \subseteq up' \/ UNCHANGED up
      BY <2>2 DEF Next, Runner, Add, Construct, RunCommand, Start, StartCommand, Begin,
                  Signal, Build, EnterWorker, EnterFails, LevelUp, Stopping, Cancelled, End, run
    <3> QED BY <1>1, <3>1 DEF vars, run
  <2> QED BY <2>1, <2>2
<1>2. IInv /\ [Next]_vars => [A]_vars
  BY <1>1
<1> QED BY <1>2, Invariant, PTL DEF Spec, StopsInReverse

------------------------------------------------------------------------------
(* Each worker once: RunsWhatWasAsked does not say how often a worker runs.   *)

\* The instances of the levels up to k: one for each place in what a level is to
\* start, of the class that is registered under the name there.
Slots(k) ==
    {s \in Instances :
       /\ s.level \in 1 .. k
       /\ s.level \in DOMAIN plan
       /\ s.pos \in DOMAIN Wanted(s.level)
       /\ s.cls = ClassNamed(Wanted(s.level)[s.pos])}

\* What is up, or about to be, is what the levels begun so far are to start.
ExactInv ==
    /\ phase = "build" => up = Slots(level - 1)
    /\ phase = "start" => up \cup Range(pending) = Slots(level)
    /\ phase = "body" => level = Len(plan) /\ up = Slots(level)
    /\ phase = "unwind" => up \subseteq Slots(level)

LEMMA SlotsKept ==
    ASSUME UNCHANGED <<registry, shadow, mode, plan>>
    PROVE  \A k : Slots(k)' = Slots(k)
<1>1. \A l : Wanted(l)' = Wanted(l)
  BY DEF Wanted
<1>2. \A n : ClassNamed(n)' = ClassNamed(n)
  BY DEF ClassNamed
<1> QED BY <1>1, <1>2 DEF Slots

\* A level adds the instances built for it to those of the levels before.
LEMMA SlotsOfLevel ==
    ASSUME IInv, phase # "off", \A n \in Range(Wanted(level)) : Registered(n)
    PROVE  Slots(level) = Slots(level - 1) \cup Range(Instance(level, Wanted(level)))
<1> DEFINE w == Wanted(level)
           q == Instance(level, w)
<1>1. /\ level \in 1 .. Len(plan) /\ DOMAIN plan = 1 .. Len(plan) /\ Len(plan) \in Nat
      /\ level \in 1 .. MaxStarts
  BY StartsAssumption DEF IInv, TypeOK, RunOK
<1>2. w \in Seq(Names)
  BY WantedNames
<1>3. \A i \in DOMAIN w : i \in Nat /\ ClassNamed(w[i]) \in Classes
  BY <1>2, RangeOf, NamedClass
<1>4. \A i \in DOMAIN w : [level |-> level, pos |-> i, cls |-> ClassNamed(w[i])] \in Instances
  BY <1>1, <1>3 DEF Instances
<1>5. Range(q) = {[level |-> level, pos |-> i, cls |-> ClassNamed(w[i])] : i \in DOMAIN w}
  BY DEF Instance, Range
<1>6. \A s \in Instances :
        s \in Range(q) <=> s.level = level /\ s.pos \in DOMAIN w /\ s.cls = ClassNamed(w[s.pos])
  <2> SUFFICES ASSUME NEW s \in Instances
               PROVE  s \in Range(q) <=> /\ s.level = level /\ s.pos \in DOMAIN w
                                         /\ s.cls = ClassNamed(w[s.pos])
    OBVIOUS
  <2>1. s = [level |-> s.level, pos |-> s.pos, cls |-> s.cls]
    BY DEF Instances
  <2> QED BY <1>5, <2>1
<1>7. Range(q) \subseteq Instances
  BY <1>4, <1>5
<1>8. \A s \in Instances : s.level \in 1 .. level <=> s.level \in 1 .. level - 1 \/ s.level = level
  BY <1>1 DEF Instances
<1>9. \A s \in Instances : s.level = level => s.level \in DOMAIN plan /\ Wanted(s.level) = w
  BY <1>1
<1>10. ASSUME NEW s \in Instances
       PROVE  s \in Slots(level) <=> s \in Slots(level - 1) \/ s \in Range(q)
  <2> HIDE DEF q, w
  <2> QED BY <1>6, <1>8, <1>9 DEF Slots
<1>11. Slots(level) \subseteq Instances /\ Slots(level - 1) \subseteq Instances
  BY DEF Slots
<1> QED BY <1>7, <1>10, <1>11

LEMMA ExactStep ==
    ASSUME IInv, ExactInv, [Next]_vars
    PROVE  ExactInv'
<1> USE DEF ExactInv
<1>1. ASSUME UNCHANGED <<registry, shadow, run>> PROVE ExactInv'
  BY <1>1, SlotsKept DEF run
<1>2. CASE mode = "idle" /\ phase' = "off"
  BY <1>2
<1>3. ASSUME NEW m, NEW lists, mode = "idle", Begin(m, lists) PROVE ExactInv'
  <2>1. up' = {} /\ phase' = "build" /\ level' = 1
    BY <1>3, EmptyRange DEF Begin, IInv, RunOK, StackOK
  <2>2. 1 .. level' - 1 = {}
    BY <2>1
  <2> QED BY <2>1, <2>2 DEF Slots
<1>4. CASE Build
  <2>1. /\ phase = "build" /\ UNCHANGED <<registry, shadow, mode, plan, level, up>>
    BY <1>4 DEF Build, registration
  <2>2. level \in Nat
    BY DEF IInv, TypeOK
  <2>3. Slots(level - 1) \subseteq Slots(level)
    BY <2>2, StartsAssumption DEF Slots, Instances
  <2>4. CASE phase' = "unwind"
    BY <2>1, <2>3, <2>4, SlotsKept
  <2>5. CASE phase' = "start"
    <3>1. /\ pending' = Instance(level, Wanted(level))
          /\ \A n \in Range(Wanted(level)) : Registered(n)
      BY <1>4, <2>5 DEF Build
    <3> QED BY <2>1, <2>5, <3>1, SlotsKept, SlotsOfLevel
  <2> QED BY <1>4, <2>4, <2>5 DEF Build
<1>5. CASE EnterWorker
  <2>1. /\ phase = "start" /\ phase' = "start" /\ pending # <<>>
        /\ up' = up \cup {Head(pending)} /\ pending' = Tail(pending)
        /\ UNCHANGED <<registry, shadow, mode, plan, level>>
    BY <1>5 DEF EnterWorker, registration
  <2>2. Range(pending) = {Head(pending)} \cup Range(Tail(pending))
    BY <2>1, Heading DEF IInv, TypeOK
  <2>3. up' \cup Range(pending') = up \cup Range(pending)
    BY <2>1, <2>2
  <2> QED BY <2>1, <2>3, SlotsKept
<1>6. CASE EnterFails
  BY <1>6, SlotsKept DEF EnterFails, registration
<1>7. CASE LevelUp
  <2>1. /\ phase = "start" /\ pending = <<>> /\ up = Slots(level)
        /\ UNCHANGED <<registry, shadow, mode, plan, up>>
    BY <1>7, EmptyRange DEF LevelUp, registration
  <2>2. level \in 1 .. Len(plan) /\ Len(plan) \in Nat
    BY <2>1 DEF IInv, TypeOK, RunOK
  <2>3. CASE level < Len(plan) /\ level' = level + 1 /\ phase' = "build"
    <3>1. level' - 1 = level
      BY <2>2, <2>3
    <3> QED BY <2>1, <2>3, <3>1, SlotsKept
  <2>4. CASE ~(level < Len(plan)) /\ level' = level /\ phase' = "body"
    BY <2>1, <2>2, <2>4, SlotsKept
  <2> QED BY <1>7, <2>3, <2>4 DEF LevelUp
<1>8. CASE Stopping \/ Cancelled
  BY <1>8, SlotsKept DEF Stopping, Cancelled, registration
<1>9. CASE ExitWorker
  BY <1>9, SlotsKept DEF ExitWorker, registration
<1>10. CASE Signal
  BY <1>10, SlotsKept DEF Signal, registration
<1>11. CASE End
  BY <1>11 DEF End
<1>12. ASSUME NEW c \in Classes, Add(c) PROVE ExactInv'
  BY <1>12 DEF Add, run, IInv, RunOK
<1>13. CASE Construct
  BY <1>1, <1>13 DEF Construct
<1>14. ASSUME NEW n, RunCommand(n) PROVE ExactInv'
  BY <1>3, <1>14 DEF RunCommand
<1>15. ASSUME NEW names, Start(names) PROVE ExactInv'
  BY <1>3, <1>15 DEF Start, Begin
<1>16. CASE UNCHANGED vars
  BY <1>1, <1>16 DEF vars, registration
<1> QED BY <1>4, <1>5, <1>6, <1>7, <1>8, <1>9, <1>10, <1>11, <1>12, <1>13, <1>14, <1>15, <1>16
        DEF Next, Runner, StartCommand

\* The exact account of what is up holds throughout.
LEMMA ExactInvariant == Spec => [](IInv /\ ExactInv)
<1>1. Init => ExactInv
  BY DEF Init, ExactInv
<1>2. IInv /\ ExactInv /\ [Next]_vars => ExactInv'
  BY ExactStep
<1> QED BY <1>1, <1>2, Invariant, PTL DEF Spec

\* In the body of a command each worker it asked for, and in each level of a
\* server each shadow worker, runs once, as the class registered under its name,
\* and nothing else does; in startup and unwinding none runs that is not of these.
THEOREM RunsEachOnce ==
    Spec => [](/\ phase = "body" => up = Slots(Len(plan))
               /\ phase # "off" => up \subseteq Slots(level))
<1> DEFINE Exact == /\ phase = "body" => up = Slots(Len(plan))
                    /\ phase # "off" => up \subseteq Slots(level)
<1>1. IInv /\ ExactInv => Exact
  <2> SUFFICES ASSUME IInv, ExactInv PROVE Exact
    OBVIOUS
  <2>1. level \in Nat
    BY DEF IInv, TypeOK
  <2>2. Slots(level - 1) \subseteq Slots(level)
    BY <2>1, StartsAssumption DEF Slots, Instances
  <2>3. phase \in {"off", "build", "start", "body", "unwind"}
    BY DEF IInv, TypeOK
  <2> QED BY <2>2, <2>3 DEF ExactInv
<1> HIDE DEF Exact
<1>2. Spec => []Exact
  BY <1>1, ExactInvariant, PTL
<1> QED BY <1>2 DEF Exact

\* A worker is entered only when all that are to be before it, in its own list and
\* in the levels around it, are up: it may rely on them while it starts.
THEOREM StartsInOrder ==
    Spec => [][\A i \in up' \ up : \A j \in Slots(level) : Before(j, i) => j \in up]_vars
<1> DEFINE A == \A i \in up' \ up : \A j \in Slots(level) : Before(j, i) => j \in up
<1>1. ASSUME IInv, ExactInv, Next PROVE A
  <2>1. CASE EnterWorker
    <3> DEFINE h == Head(pending)
    <3>1. /\ phase = "start" /\ pending # <<>> /\ up' = up \cup {h}
          /\ pending \in Seq(Instances)
      BY <1>1, <2>1 DEF EnterWorker, IInv, TypeOK
    <3>2. /\ h = pending[1] /\ h \in Instances
          /\ DOMAIN pending = 1 .. Len(pending) /\ Len(pending) \in Nat \ {0}
      BY <3>1, Heading
    <3>3. up \cup Range(pending) = Slots(level)
      BY <1>1, <3>1 DEF ExactInv
    <3>4. ASSUME NEW k \in DOMAIN pending PROVE ~Before(pending[k], h)
      <4>1. pending[k] \in Instances
        BY <3>1
      <4>2. /\ h.level \in Nat /\ h.pos \in Nat
            /\ pending[k].level \in Nat /\ pending[k].pos \in Nat
        BY <3>2, <4>1, StartsAssumption DEF Instances
      <4>3. CASE k = 1
        BY <3>2, <4>2, <4>3 DEF Before
      <4>4. CASE k # 1
        <5>1. 1 \in DOMAIN pending /\ 1 < k
          BY <3>2, <4>4
        <5>2. Before(h, pending[k])
          BY <1>1, <3>2, <5>1 DEF IInv, StackOK
        <5> QED BY <4>2, <5>2 DEF Before
      <4> QED BY <4>3, <4>4
    <3>5. \A j \in Range(pending) : ~Before(j, h)
      BY <3>4 DEF Range
    <3> QED BY <3>1, <3>3, <3>5
  <2>2. CASE ~EnterWorker
    <3>1. up' \subseteq up
      BY <1>1, <2>2 DEF Next, Runner, Add, Construct, RunCommand, Start, StartCommand, Begin,
                  Signal, Build, EnterFails, LevelUp, Stopping, Cancelled, ExitWorker, End, run
    <3> QED BY <3>1
  <2> QED BY <2>1, <2>2
<1>2. IInv /\ ExactInv /\ [Next]_vars => [A]_vars
  BY <1>1
<1> QED BY <1>2, ExactInvariant, PTL DEF Spec

------------------------------------------------------------------------------
(* What SignalStops rests on besides fairness: a command goes forward only,   *)
(* through startup, body and unwinding, level by level and worker by worker.  *)

Stage ==
    CASE phase = "off" -> 0
      [] phase = "unwind" -> 1
      [] phase = "body" -> 2
      [] OTHER -> 3

LevelsLeft ==
    CASE phase = "build" -> 2 * (Len(plan) - level) + 1
      [] phase = "start" -> 2 * (Len(plan) - level)
      [] OTHER -> 0

WorkersLeft ==
    CASE phase = "start" -> Len(pending)
      [] phase = "unwind" -> Len(stack)
      [] OTHER -> 0

Away == <<Stage, LevelsLeft, WorkersLeft>>

\* Away is smaller, in lexicographic order.
Nearer ==
    \/ Stage' < Stage
    \/ Stage' = Stage /\ LevelsLeft' < LevelsLeft
    \/ Stage' = Stage /\ LevelsLeft' = LevelsLeft /\ WorkersLeft' < WorkersLeft

LEMMA AwayType == IInv => Stage \in Nat /\ LevelsLeft \in Nat /\ WorkersLeft \in Nat
<1> SUFFICES ASSUME IInv PROVE Stage \in Nat /\ LevelsLeft \in Nat /\ WorkersLeft \in Nat
  OBVIOUS
<1>1. /\ Len(plan) \in Nat /\ Len(pending) \in Nat /\ Len(stack) \in Nat
      /\ phase # "off" => level \in 1 .. Len(plan)
  BY DEF IInv, TypeOK, RunOK
<1>2. phase # "off" => 2 * (Len(plan) - level) \in Nat
  BY <1>1
<1> QED BY <1>1, <1>2 DEF Stage, LevelsLeft, WorkersLeft

LEMMA RunnerNearer == ASSUME IInv, Runner PROVE Nearer
<1>1. CASE Build
  <2>1. phase = "build" /\ (phase' = "start" \/ phase' = "unwind") /\ plan' = plan /\ level' = level
    BY <1>1 DEF Build
  <2>2. CASE phase' = "unwind"
    BY <2>1, <2>2 DEF Nearer, Stage
  <2>3. CASE phase' = "start"
    <3>1. Stage' = Stage
      BY <2>1, <2>3 DEF Stage
    <3>2. LevelsLeft = 2 * (Len(plan) - level) + 1 /\ LevelsLeft' = 2 * (Len(plan) - level)
      BY <2>1, <2>3 DEF LevelsLeft
    <3>3. LevelsLeft \in Nat
      BY AwayType
    <3>4. Len(plan) \in Nat /\ level \in Nat
      BY DEF IInv, TypeOK
    <3> QED BY <3>1, <3>2, <3>3, <3>4 DEF Nearer
  <2> QED BY <2>1, <2>2, <2>3
<1>2. CASE EnterWorker
  <2>1. /\ phase = "start" /\ phase' = phase /\ plan' = plan /\ level' = level
        /\ pending # <<>> /\ pending' = Tail(pending)
    BY <1>2 DEF EnterWorker
  <2>2. Stage' = Stage /\ LevelsLeft' = LevelsLeft
    BY <2>1 DEF Stage, LevelsLeft
  <2>3. Len(pending') < Len(pending)
    BY <2>1 DEF IInv, TypeOK
  <2> QED BY <2>1, <2>2, <2>3 DEF Nearer, WorkersLeft
<1>3. CASE EnterFails
  <2>1. phase = "start" /\ phase' = "unwind"
    BY <1>3 DEF EnterFails
  <2> QED BY <2>1 DEF Nearer, Stage
<1>4. CASE LevelUp
  <2>1. CASE phase' = "body"
    <3>1. phase = "start"
      BY <1>4 DEF LevelUp
    <3> QED BY <2>1, <3>1 DEF Nearer, Stage
  <2>2. CASE phase' # "body"
    <3>1. phase = "start" /\ phase' = "build" /\ level' = level + 1 /\ plan' = plan
      BY <1>4, <2>2 DEF LevelUp
    <3>2. LevelsLeft = 2 * (Len(plan) - level) /\ LevelsLeft' = 2 * (Len(plan) - (level + 1)) + 1
      BY <3>1 DEF LevelsLeft
    <3>3. Len(plan) \in Nat /\ level \in Nat
      BY DEF IInv, TypeOK
    <3>4. LevelsLeft' < LevelsLeft
      BY <3>2, <3>3
    <3>5. Stage' = Stage
      BY <3>1 DEF Stage
    <3> QED BY <3>4, <3>5 DEF Nearer
  <2> QED BY <2>1, <2>2
<1>5. CASE Stopping
  <2>1. phase = "body" /\ phase' = "unwind"
    BY <1>5 DEF Stopping
  <2> QED BY <2>1 DEF Nearer, Stage
<1>6. CASE ExitWorker
  <2>1. phase = "unwind" /\ phase' = phase /\ stack # <<>> /\ stack' = Front(stack)
    BY <1>6 DEF ExitWorker
  <2>2. Stage' = Stage /\ LevelsLeft' = LevelsLeft
    BY <2>1 DEF Stage, LevelsLeft
  <2>3. Len(stack') < Len(stack)
    BY <2>1 DEF IInv, TypeOK, Front
  <2> QED BY <2>1, <2>2, <2>3 DEF Nearer, WorkersLeft
<1>7. CASE End
  <2>1. phase = "unwind" /\ phase' = "off"
    BY <1>7 DEF End
  <2> QED BY <2>1 DEF Nearer, Stage
<1> QED BY <1>1, <1>2, <1>3, <1>4, <1>5, <1>6, <1>7 DEF Runner

\* While a command is under way each step of its runner takes it nearer its end
\* in a well-founded order, nothing else takes it away from there, and a signal
\* that came is not forgotten before the command is over.
THEOREM CommandRunsOut ==
    Spec => [][ /\ Away \in Nat \X Nat \X Nat
                /\ Runner => Nearer
                /\ mode # "idle" => Nearer \/ UNCHANGED Away
                /\ mode # "idle" /\ stop => stop' /\ mode' \in {mode, "idle"} ]_vars
<1> DEFINE A == /\ Away \in Nat \X Nat \X Nat
                /\ Runner => Nearer
                /\ mode # "idle" => Nearer \/ UNCHANGED Away
                /\ mode # "idle" /\ stop => stop' /\ mode' \in {mode, "idle"}
<1>0. IInv => Away \in Nat \X Nat \X Nat
  BY AwayType DEF Away
<1>1. ASSUME IInv, Next PROVE A
  <2>1. CASE Runner
    <3>1. stop' = stop /\ mode' \in {mode, "idle"}
      BY <2>1 DEF Runner, Build, EnterWorker, EnterFails, LevelUp, Stopping, ExitWorker, End
    <3> QED BY <1>0, <1>1, <2>1, <3>1, RunnerNearer
  <2>2. CASE Cancelled /\ ~Runner
    <3>1. phase = "body" /\ phase' = "unwind" /\ stop' = stop /\ mode' = mode
      BY <2>2 DEF Cancelled
    <3> QED BY <1>0, <1>1, <2>2, <3>1 DEF Nearer, Stage
  <2>3. CASE ~Runner /\ ~Cancelled /\ mode # "idle"
    <3>1. \/ \E c \in Classes : Add(c)
          \/ Construct
          \/ Signal
      BY <1>1, <2>3 DEF Next, RunCommand, Start, StartCommand
    <3>2. /\ UNCHANGED <<phase, plan, level, pending, stack>>
          /\ mode' = mode /\ (stop' = stop \/ stop')
      BY <3>1 DEF Add, Construct, Signal, run
    <3>3. UNCHANGED Away
      BY <3>2 DEF Away, Stage, LevelsLeft, WorkersLeft
    <3>4. stop => stop'
      BY <3>2
    <3> QED BY <1>0, <1>1, <2>3, <3>2, <3>3, <3>4
  <2>4. CASE ~Runner /\ ~Cancelled /\ mode = "idle"
    BY <1>0, <1>1, <2>4
  <2> QED BY <2>1, <2>2, <2>3, <2>4
<1>2. IInv /\ [Next]_vars => [A]_vars
  BY <1>1
<1> QED BY <1>2, Invariant, PTL DEF Spec
=============================================================================
