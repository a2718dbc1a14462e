-------------------------- MODULE RequestGuardsProofs --------------------------
(***************************************************************************)
(* The response cache, the pairing of signatures and the fixed window, for *)
(* any number of signatures and keys, any lifetimes and any limit.         *)
(***************************************************************************)
EXTENDS RequestGuards, FiniteSetTheorems, TLAPS

\* What the proofs assume of the constants.
Parameters ==
    /\ None \notin Signature
    /\ ClockSkew \in Nat /\ ResponseTtl \in Nat /\ MaxTime \in Nat
    /\ Limit \in Nat \ {0} /\ Window \in Nat \ {0}

OneRun == [sig : Signature, key : Key, at : Nat, ok : BOOLEAN]

\* Every run so far, the last one included.
Runs == (ran \cup {last}) \ {NoRun}

Shape ==
    /\ now \in Nat
    /\ dated \in [Signature -> Int]
    /\ responses \in [Key -> Int]
    /\ pairing \in [Signature -> [key : Key \cup {None}, expiresAt : Int]]
    /\ ran \subseteq OneRun
    /\ last \in OneRun \cup {NoRun}
    /\ last = NoRun => ran = {}

\* The cache holds what succeeded for its whole lifetime.
ResponsesKept ==
    \A e \in Runs : e.at <= now /\ (e.ok => responses[e.key] >= e.at + ResponseTtl)

\* f made the pairing under which e ran; it is still there, or has lapsed.
PairedBy(e, f) ==
    /\ f.sig = e.sig /\ f.key = e.key
    /\ \/ pairing[e.sig] = [key |-> e.key, expiresAt |-> f.at + ClockSkew]
       \/ now >= f.at + ClockSkew

RunsPaired == \A e \in Runs : \E f \in Runs : PairedBy(e, f)

\* A pairing that has not lapsed was made by a run.
PairingsBacked ==
    \A s \in Signature : Paired(s) =>
        \E f \in Runs : /\ f.sig = s /\ f.key = pairing[s].key
                        /\ pairing[s].expiresAt = f.at + ClockSkew

Inv == Shape /\ ResponsesKept /\ RunsPaired /\ PairingsBacked /\ RetryIsCached /\ SignatureBound

-----------------------------------------------------------------------------
\* Before the first run, and after a restart, there is nothing to keep.
LEMMA NothingRan ==
    ASSUME Parameters, now \in Nat, dated \in [Signature -> Int],
           responses = NoResponses, pairing = NoPairings, ran = {}, last = NoRun
    PROVE  Inv
<1>1. Runs = {}
  BY DEF Runs
<1>2. Shape
  BY DEF Shape, NoResponses, NoPairings, NoPairing
<1>3. PairingsBacked
  BY DEF PairingsBacked, Paired, NoPairings, NoPairing
<1> QED
  BY <1>1, <1>2, <1>3 DEF Inv, ResponsesKept, RunsPaired, RetryIsCached, SignatureBound

LEMMA InitInv == ASSUME Parameters PROVE Init => Inv
<1> SUFFICES ASSUME Init PROVE Inv
  OBVIOUS
<1>1. now \in Nat /\ dated \in [Signature -> Int]
  BY DEF Init, Parameters
<1> QED
  BY <1>1, NothingRan DEF Init

LEMMA RestartStep == ASSUME Parameters, Inv, Restart PROVE Inv'
<1>1. Runs' = {}
  BY DEF Runs, Restart
<1>2. Shape'
  BY DEF Inv, Shape, Restart, NoResponses, NoPairings, NoPairing
<1>3. PairingsBacked'
  BY DEF Inv, Shape, PairingsBacked, Paired, Restart, NoPairings, NoPairing
<1> QED
  BY <1>1, <1>2, <1>3 DEF Inv, ResponsesKept, RunsPaired, RetryIsCached, SignatureBound, Restart

\* Time passes, or a request is answered without running.
LEMMA QuietStep ==
    ASSUME Parameters, Inv, UNCHANGED <<dated, responses, pairing, ran, last>>,
           now' = now \/ now' = now + 1
    PROVE  Inv'
<1>1. Runs' = Runs /\ now' \in Nat /\ now' >= now
  BY DEF Runs, Inv, Shape
<1>2. Shape'
  BY <1>1 DEF Inv, Shape
<1>3. Runs \subseteq OneRun
  BY DEF Runs, Inv, Shape
<1>4. ResponsesKept'
  BY <1>1, <1>3 DEF Inv, ResponsesKept, OneRun, Shape
<1>5. RunsPaired'
  <2> SUFFICES ASSUME NEW e \in Runs PROVE \E f \in Runs : PairedBy(e, f)'
    BY <1>1 DEF RunsPaired
  <2>1. PICK f \in Runs : PairedBy(e, f)
    BY DEF Inv, RunsPaired
  <2> QED
    BY <2>1, <1>1, <1>3 DEF PairedBy, OneRun, Inv, Shape, Parameters
<1>6. PairingsBacked'
  BY <1>1 DEF Inv, Shape, PairingsBacked, Paired
<1>7. RetryIsCached' /\ SignatureBound'
  BY DEF Inv, RetryIsCached, SignatureBound
<1> QED
  BY <1>2, <1>4, <1>5, <1>6, <1>7 DEF Inv

-----------------------------------------------------------------------------
\* What a run adds.
LEMMA RunAdds ==
    ASSUME Parameters, Inv, NEW s \in Signature, NEW k \in Key, NEW ok \in BOOLEAN, Run(s, k, ok),
           NEW e, e = [sig |-> s, key |-> k, at |-> now, ok |-> ok]
    PROVE  /\ e \in OneRun /\ last' = e
           /\ ran' = Runs
           /\ Runs' = Runs \cup {e}
           /\ Runs \subseteq OneRun
           /\ UNCHANGED <<now, dated>>
<1>1. NoRun \notin OneRun
  BY DEF Parameters, NoRun, OneRun
<1>2. e \in OneRun /\ last' = e
  BY DEF OneRun, Run, Inv, Shape
<1>3. ran' = Runs
  BY <1>1 DEF Run, Runs, Inv, Shape
<1>4. Runs \subseteq OneRun
  BY DEF Runs, Inv, Shape
<1> QED
  BY <1>1, <1>2, <1>3, <1>4 DEF Runs, Run

LEMMA RunStep ==
    ASSUME Parameters, Inv, NEW s \in Signature, NEW k \in Key, NEW ok \in BOOLEAN, Run(s, k, ok),
           NEW e, e = [sig |-> s, key |-> k, at |-> now, ok |-> ok]
    PROVE  Inv'
<1>0. /\ e \in OneRun /\ last' = e
      /\ ran' = Runs
      /\ Runs' = Runs \cup {e}
      /\ Runs \subseteq OneRun
      /\ UNCHANGED <<now, dated>>
  BY RunAdds
<1>a. e.sig = s /\ e.key = k /\ e.at = now /\ e.ok = ok
  OBVIOUS
<1>b. now \in Nat /\ ClockSkew \in Nat /\ ResponseTtl \in Nat /\ responses \in [Key -> Int]
      /\ pairing \in [Signature -> [key : Key \cup {None}, expiresAt : Int]]
      /\ dated \in [Signature -> Int]
  BY DEF Parameters, Inv, Shape
\* All of the shape but the pairing.
<1>c. /\ now' \in Nat /\ dated' \in [Signature -> Int]
      /\ ran' \subseteq OneRun /\ last' \in OneRun
  BY <1>0, <1>b
<1>d. last' # NoRun
  BY <1>c DEF Parameters, NoRun, OneRun
<1>e. responses' \in [Key -> Int]
  <2>1. ResponseExpiry \in Int
    BY <1>b DEF ResponseExpiry
  <2>2. responses' = responses \/ responses' = [responses EXCEPT ![k] = ResponseExpiry]
    BY DEF Run
  <2> QED
    BY <1>b, <2>1, <2>2
\* The key was not cached, so whatever succeeded under it has lapsed.
<1>1. \A d \in Runs : d.ok /\ d.key = k => now >= d.at + ResponseTtl
  BY <1>0, <1>b DEF Inv, ResponsesKept, Run, Cached, OneRun
\* The pairing afterwards: the old one while it lasts, or a new one.
<1>2. CASE ~Paired(s)
  <2>1. pairing' = [pairing EXCEPT ![s] = [key |-> k, expiresAt |-> now + ClockSkew]]
    BY <1>2 DEF Run, PairFirst
  <2>2. \A d \in Runs : d.sig = s =>
            \E f \in Runs : f.sig = s /\ f.key = d.key /\ now >= f.at + ClockSkew
    <3> SUFFICES ASSUME NEW d \in Runs, d.sig = s
                 PROVE  \E f \in Runs : f.sig = s /\ f.key = d.key /\ now >= f.at + ClockSkew
      OBVIOUS
    <3>1. PICK f \in Runs : PairedBy(d, f)
      BY DEF Inv, RunsPaired
    <3>2. now >= f.at + ClockSkew
      BY <1>2, <3>1, <1>0, <1>b DEF PairedBy, Paired, OneRun
    <3> QED
      BY <3>1, <3>2 DEF PairedBy
  <2> QED
    <3>1. Shape'
      <4>1. pairing' \in [Signature -> [key : Key \cup {None}, expiresAt : Int]]
        BY <1>b, <2>1
      <4> QED
        BY <1>c, <1>d, <1>e, <4>1 DEF Shape
    <3>2. ResponsesKept'
      BY <1>0, <1>a, <1>b DEF Inv, ResponsesKept, Run, Cached, ResponseExpiry, OneRun
    <3>3. RunsPaired'
      <4> SUFFICES ASSUME NEW d \in Runs' PROVE \E f \in Runs' : PairedBy(d, f)'
        BY DEF RunsPaired
      <4>1. CASE d = e
        <5>1. PairedBy(e, e)'
          BY <1>0, <1>a, <1>b, <2>1 DEF PairedBy
        <5> QED
          BY <4>1, <5>1, <1>0
      <4>2. CASE d \in Runs /\ d.sig = s
        <5>1. PICK f \in Runs : f.sig = s /\ f.key = d.key /\ now >= f.at + ClockSkew
          BY <4>2, <2>2
        <5>2. PairedBy(d, f)'
          BY <4>2, <5>1, <1>0 DEF PairedBy
        <5> QED
          BY <5>2, <1>0
      <4>3. CASE d \in Runs /\ d.sig # s
        <5>1. PICK f \in Runs : PairedBy(d, f)
          BY <4>3 DEF Inv, RunsPaired
        <5>2. PairedBy(d, f)'
          BY <4>3, <5>1, <1>0, <1>b, <2>1 DEF PairedBy, OneRun
        <5> QED
          BY <5>2, <1>0
      <4> QED
        BY <4>1, <4>2, <4>3, <1>0
    <3>4. PairingsBacked'
      <4> SUFFICES ASSUME NEW t \in Signature, Paired(t)'
                   PROVE  \E f \in Runs' : /\ f.sig = t /\ f.key = pairing'[t].key
                                           /\ pairing'[t].expiresAt = f.at + ClockSkew
        BY DEF PairingsBacked
      <4>1. CASE t = s
        BY <4>1, <1>0, <1>a, <1>b, <2>1
      <4>2. CASE t # s
        <5>1. pairing'[t] = pairing[t] /\ Paired(t)
          BY <4>2, <2>1, <1>0, <1>b DEF Paired
        <5> QED
          BY <5>1, <1>0 DEF Inv, PairingsBacked
      <4> QED
        BY <4>1, <4>2
    <3>5. RetryIsCached'
      BY <1>0, <1>1, <1>a DEF RetryIsCached
    <3>6. SignatureBound'
      <4> SUFFICES ASSUME NEW d \in Runs, d.sig = s, d.key # k
                   PROVE  \E f \in Runs : /\ f.sig = d.sig /\ f.key = d.key
                                          /\ now >= f.at + ClockSkew /\ dated[f.sig] >= f.at
        BY <1>0, <1>a DEF SignatureBound
      <4>1. PICK f \in Runs : f.sig = s /\ f.key = d.key /\ now >= f.at + ClockSkew
        BY <2>2
      <4>2. dated[s] >= f.at
        BY <4>1, <1>0, <1>b DEF Run, SignatureFresh, OneRun
      <4> QED
        BY <4>1, <4>2
    <3> QED
      BY <3>1, <3>2, <3>3, <3>4, <3>5, <3>6 DEF Inv
<1>3. CASE Paired(s)
  <2>1. pairing' = pairing /\ pairing[s].key = k
    BY <1>3 DEF Run, PairFirst
  <2>2. PICK g \in Runs : /\ g.sig = s /\ g.key = k
                          /\ pairing[s].expiresAt = g.at + ClockSkew
    BY <1>3, <2>1 DEF Inv, PairingsBacked
  <2>3. Shape'
    BY <1>b, <1>c, <1>d, <1>e, <2>1 DEF Shape
  <2>4. ResponsesKept'
    BY <1>0, <1>a, <1>b DEF Inv, ResponsesKept, Run, Cached, ResponseExpiry, OneRun
  <2>5. RunsPaired'
    <3> SUFFICES ASSUME NEW d \in Runs' PROVE \E f \in Runs' : PairedBy(d, f)'
      BY DEF RunsPaired
    <3>1. CASE d = e
      <4>1. pairing[s] = [key |-> k, expiresAt |-> g.at + ClockSkew]
        BY <1>b, <2>1, <2>2
      <4>2. PairedBy(e, g)'
        BY <4>1, <2>1, <2>2, <1>a DEF PairedBy
      <4> QED
        BY <3>1, <4>2, <1>0
    <3>2. CASE d \in Runs
      <4>1. PICK f \in Runs : PairedBy(d, f)
        BY <3>2 DEF Inv, RunsPaired
      <4>2. PairedBy(d, f)'
        BY <4>1, <2>1, <1>0 DEF PairedBy
      <4> QED
        BY <4>2, <1>0
    <3> QED
      BY <3>1, <3>2, <1>0
  <2>6. PairingsBacked'
    BY <1>0, <2>1 DEF Inv, PairingsBacked, Paired
  <2>7. RetryIsCached'
    BY <1>0, <1>1, <1>a DEF RetryIsCached
  <2>8. SignatureBound'
    <3> SUFFICES ASSUME NEW d \in Runs, d.sig = s, d.key # k
                 PROVE  \E f \in Runs : /\ f.sig = d.sig /\ f.key = d.key
                                        /\ now >= f.at + ClockSkew /\ dated[f.sig] >= f.at
      BY <1>0, <1>a DEF SignatureBound
    <3>1. PICK f \in Runs : PairedBy(d, f)
      BY DEF Inv, RunsPaired
    <3>2. now >= f.at + ClockSkew
      BY <3>1, <2>1 DEF PairedBy
    <3>3. dated[s] >= f.at
      BY <3>2, <1>0, <1>b DEF Run, SignatureFresh, OneRun
    <3> QED
      BY <3>1, <3>2, <3>3 DEF PairedBy
  <2> QED
    BY <2>3, <2>4, <2>5, <2>6, <2>7, <2>8 DEF Inv
<1> QED
  BY <1>2, <1>3

LEMMA NextInv == ASSUME Parameters, Inv, [Next]_vars PROVE Inv'
<1>1. CASE UNCHANGED vars
  BY <1>1, QuietStep DEF vars
<1>2. CASE Tick
  BY <1>2, QuietStep DEF Tick
<1>3. CASE Restart
  BY <1>3, RestartStep
<1>4. ASSUME NEW s \in Signature, NEW k \in Key, AnswerWithoutRunning(s, k)
      PROVE  Inv'
  BY <1>4, QuietStep DEF AnswerWithoutRunning
<1>5. ASSUME NEW s \in Signature, NEW k \in Key, NEW ok \in BOOLEAN, Run(s, k, ok)
      PROVE  Inv'
  <2>1. PICK e : e = [sig |-> s, key |-> k, at |-> now, ok |-> ok]
    OBVIOUS
  <2> QED
    BY <1>5, <2>1, RunStep
<1> QED
  BY <1>1, <1>2, <1>3, <1>4, <1>5 DEF Next

-----------------------------------------------------------------------------
\* A window that is still open has counted the call that opened it.
CounterShape ==
    /\ counter \in [count : Nat, windowStart : Int]
    /\ counter.windowStart <= now
    /\ now - counter.windowStart < Window => counter.count >= 1

\* Where a call let through stands: in its window, the first one at its start.
Placed(e) ==
    /\ e.window <= e.at /\ e.at < e.window + Window /\ e.at <= now
    /\ e.nth = 1 => e.at = e.window
    /\ e.window <= counter.windowStart
    /\ e.window = counter.windowStart => e.nth <= counter.count
    /\ e.window < counter.windowStart => e.window + Window <= counter.windowStart

\* Windows do not overlap, and no place in a window is given twice.
Apart(e, f) ==
    /\ e.window < f.window => e.window + Window <= f.window
    /\ e.window = f.window /\ e.nth = f.nth => e = f

RateInv ==
    /\ CounterShape
    /\ admitted \subseteq [window : Int, nth : 1 .. Limit, at : Int]
    /\ \A e \in admitted : Placed(e)
    /\ \A e, f \in admitted : Apart(e, f)

LEMMA InitRate == ASSUME Parameters PROVE Init => RateInv
<1> SUFFICES ASSUME Init PROVE RateInv
  OBVIOUS
<1>1. Window \in Nat \ {0}
  BY DEF Parameters
<1>2. CounterShape
  BY <1>1 DEF Init, CounterShape, NoCounter
<1>3. admitted = {}
  BY DEF Init
<1> QED
  BY <1>2, <1>3 DEF RateInv

LEMMA RestartRate == ASSUME Parameters, Inv, Restart PROVE RateInv'
<1>1. Window \in Nat \ {0} /\ now \in Nat /\ now' = now
  BY DEF Parameters, Inv, Shape, Restart
<1>2. counter' = [count |-> 0, windowStart |-> -Window]
  BY DEF Restart, NoCounter
<1>3. CounterShape'
  BY <1>1, <1>2 DEF CounterShape
<1>4. admitted' = {}
  BY DEF Restart
<1> QED
  BY <1>3, <1>4 DEF RateInv

LEMMA TickRate ==
    ASSUME Parameters, Inv, RateInv, UNCHANGED <<counter, admitted>>, now' = now \/ now' = now + 1
    PROVE  RateInv'
<1>1. Window \in Nat \ {0} /\ now \in Nat /\ now' \in Nat /\ now' >= now
  BY DEF Parameters, Inv, Shape
<1>2. CounterShape'
  BY <1>1 DEF RateInv, CounterShape
<1>3. \A e \in admitted : Placed(e)'
  BY <1>1 DEF RateInv, Placed
<1>4. \A e, f \in admitted : Apart(e, f)'
  BY DEF RateInv, Apart
<1> QED
  BY <1>2, <1>3, <1>4 DEF RateInv

\* A call let through takes a place nobody had, so that counting the members
\* of admitted counts the calls.
LEMMA AdmissionIsNew ==
    ASSUME Parameters, Inv, RateInv, WithinLimit, NEW e, e = Admission, counter' = CountCall,
           now' = now, admitted' = admitted \cup {e}
    PROVE  RateInv' /\ e \notin admitted
<1>1. Window \in Nat \ {0} /\ Limit \in Nat \ {0} /\ now \in Nat
  BY DEF Parameters, Inv, Shape
<1>2. counter \in [count : Nat, windowStart : Int]
  BY DEF RateInv, CounterShape
<1>c. counter.count \in Nat /\ counter.windowStart \in Int
  BY <1>2
<1>3. admitted \subseteq [window : Int, nth : 1 .. Limit, at : Int]
  BY DEF RateInv
<1>p. \A f \in admitted : /\ f.window \in Int /\ f.nth \in 1 .. Limit /\ f.at \in Int
                          /\ Placed(f)
  BY <1>3 DEF RateInv
<1>q. \A f, g \in admitted : Apart(f, g)
  BY DEF RateInv
<1>4. CASE now - counter.windowStart >= Window
  <2>1. counter' = [count |-> 1, windowStart |-> now]
    BY <1>4 DEF CountCall
  <2>2. e = [window |-> now, nth |-> 1, at |-> now]
    BY <1>4 DEF Admission, CountCall
  <2>3. e.window = now /\ e.nth = 1 /\ e.at = now
        /\ counter'.windowStart = now /\ counter'.count = 1
    BY <2>1, <2>2
  <2>4. e \in [window : Int, nth : 1 .. Limit, at : Int]
    BY <2>2, <1>1
  <2>5. CounterShape'
    BY <2>1, <1>1 DEF CounterShape
  <2>6. \A f \in admitted : f.window < now /\ f.window + Window <= now
    BY <1>1, <1>c, <1>p, <1>4 DEF Placed
  <2>7. \A f \in admitted : Placed(f)'
    BY <1>1, <1>p, <2>3, <2>6 DEF Placed
  <2>8. Placed(e)'
    BY <1>1, <2>3 DEF Placed
  <2>9. \A f \in admitted : Apart(e, f)' /\ Apart(f, e)'
    BY <1>1, <1>p, <2>3, <2>6 DEF Apart
  <2>10. Apart(e, e)'
    BY <2>3, <1>1 DEF Apart
  <2>11. \A f, g \in admitted : Apart(f, g)'
    BY <1>q DEF Apart
  <2>12. e \notin admitted
    BY <2>3, <2>6, <1>1
  <2> QED
    BY <1>3, <2>4, <2>5, <2>7, <2>8, <2>9, <2>10, <2>11, <2>12 DEF RateInv
<1>5. CASE ~(now - counter.windowStart >= Window)
  <2>0. counter.count < Limit /\ now - counter.windowStart < Window
        /\ counter.windowStart <= now /\ counter.count >= 1
    BY <1>1, <1>c, <1>5 DEF WithinLimit, RateInv, CounterShape
  <2>1. counter' = [counter EXCEPT !.count = @ + 1]
    BY <1>5 DEF CountCall
  <2>2. CountCall.windowStart = counter.windowStart /\ CountCall.count = counter.count + 1
    BY <1>5, <1>2 DEF CountCall
  <2>3. e.window = counter.windowStart /\ e.nth = counter.count + 1 /\ e.at = now
        /\ counter'.windowStart = counter.windowStart /\ counter'.count = counter.count + 1
    BY <1>2, <2>1, <2>2 DEF Admission
  <2>4. e \in [window : Int, nth : 1 .. Limit, at : Int]
    <3>1. e = [window |-> counter.windowStart, nth |-> counter.count + 1, at |-> now]
      BY <2>2 DEF Admission
    <3>2. counter.count + 1 \in 1 .. Limit /\ now \in Int
      BY <2>0, <1>c, <1>1
    <3> QED
      BY <3>1, <3>2, <1>c
  <2>5. CounterShape'
    <3>1. counter' \in [count : Nat, windowStart : Int]
      BY <1>2, <2>1, <1>c
    <3> QED
      BY <3>1, <2>0, <2>3, <1>1, <1>c DEF CounterShape
  <2>7. \A f \in admitted : Placed(f)'
    BY <1>1, <1>c, <1>p, <2>3 DEF Placed
  <2>8. Placed(e)'
    BY <1>1, <1>c, <2>0, <2>3 DEF Placed
  <2>9. \A f \in admitted : Apart(e, f)' /\ Apart(f, e)'
    BY <1>1, <1>c, <1>p, <2>3 DEF Apart, Placed
  <2>10. Apart(e, e)'
    BY <2>3, <1>1, <1>c DEF Apart
  <2>11. \A f, g \in admitted : Apart(f, g)'
    BY <1>q DEF Apart
  <2>12. e \notin admitted
    BY <2>3, <1>p, <1>c DEF Placed
  <2> QED
    BY <1>3, <2>4, <2>5, <2>7, <2>8, <2>9, <2>10, <2>11, <2>12 DEF RateInv
<1> QED
  BY <1>4, <1>5

LEMMA NextRate == ASSUME Parameters, Inv, RateInv, [Next]_vars PROVE RateInv'
<1>1. CASE UNCHANGED vars
  BY <1>1, TickRate DEF vars
<1>2. CASE Tick
  BY <1>2, TickRate DEF Tick
<1>3. CASE Restart
  BY <1>3, RestartRate
<1>4. ASSUME NEW s \in Signature, NEW k \in Key,
             AnswerWithoutRunning(s, k) \/ \E ok \in BOOLEAN : Run(s, k, ok)
      PROVE  RateInv'
  <2>1. PICK e : e = Admission
    OBVIOUS
  <2>2. /\ WithinLimit /\ counter' = CountCall
        /\ now' = now /\ admitted' = admitted \cup {e}
    BY <1>4, <2>1 DEF AnswerWithoutRunning, Run
  <2> QED
    BY <2>1, <2>2, AdmissionIsNew
<1> QED
  BY <1>1, <1>2, <1>3, <1>4 DEF Next

\* The calls of one window's length fall in two windows at most, and the
\* opening of the earlier one is not among them.
LEMMA RateFollows == ASSUME Parameters, Inv, RateInv PROVE RateBounded
<1> SUFFICES ASSUME NEW t \in 0 .. now
             PROVE  Cardinality({e \in admitted : t - Window < e.at /\ e.at <= t}) < 2 * Limit
  BY DEF RateBounded
<1>1. Window \in Nat \ {0} /\ Limit \in Nat \ {0} /\ now \in Nat /\ t \in Nat
  BY DEF Parameters, Inv, Shape
<1> DEFINE A == {e \in admitted : t - Window < e.at /\ e.at <= t}
           g == [e \in A |-> IF e.window <= t - Window THEN e.nth ELSE Limit + e.nth]
<1>2. \A e \in A : /\ e \in admitted /\ t - Window < e.at /\ e.at <= t
                   /\ e.window \in Int /\ e.nth \in 1 .. Limit /\ e.at \in Int
                   /\ Placed(e)
  BY DEF RateInv
<1>3. \A e, f \in A : Apart(e, f)
  BY DEF RateInv
<1>4. \A e \in A : g[e] = IF e.window <= t - Window THEN e.nth ELSE Limit + e.nth
  OBVIOUS
<1>5. DOMAIN g = A /\ g = [e \in A |-> g[e]]
  OBVIOUS
<1> HIDE DEF A, g
<1>6. \A e \in A : g[e] \in 2 .. 2 * Limit
  BY <1>1, <1>2, <1>4 DEF Placed
<1>7. \A e, f \in A : e.window <= t - Window /\ f.window <= t - Window => e.window = f.window
  BY <1>1, <1>2, <1>3 DEF Placed, Apart
<1>8. \A e, f \in A : e.window > t - Window /\ f.window > t - Window => e.window = f.window
  BY <1>1, <1>2, <1>3 DEF Placed, Apart
<1>9. ASSUME NEW e \in A, NEW f \in A, g[e] = g[f] PROVE e = f
  <2>1. e.nth \in 1 .. Limit /\ f.nth \in 1 .. Limit /\ e.window \in Int /\ f.window \in Int
    BY <1>2
  <2>2. e.nth = f.nth /\ e.window = f.window
    BY <2>1, <1>1, <1>4, <1>7, <1>8, <1>9
  <2> QED
    BY <2>2, <1>3 DEF Apart
<1>10. g \in Injection(A, 2 .. 2 * Limit)
  <2>1. g \in [A -> 2 .. 2 * Limit]
    BY <1>5, <1>6
  <2> QED
    BY <2>1, <1>5, <1>9 DEF Injection, IsInjective
<1>11. 2 \in Int /\ 2 * Limit \in Int
  BY <1>1
<1>12. /\ IsFiniteSet(2 .. 2 * Limit)
       /\ Cardinality(2 .. 2 * Limit) = IF 2 > 2 * Limit THEN 0 ELSE 2 * Limit - 2 + 1
  BY <1>11, FS_Interval
<1>13. IsFiniteSet(A) /\ Cardinality(A) <= Cardinality(2 .. 2 * Limit)
  BY <1>10, <1>12, FS_Injection
<1>14. Cardinality(A) \in Nat
  BY <1>13, FS_CardinalityType
<1>15. Cardinality(A) < 2 * Limit
  BY <1>1, <1>12, <1>13, <1>14
<1> QED
  BY <1>15 DEF A

=============================================================================
