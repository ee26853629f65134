---------------------------- MODULE DecisionsProofs ----------------------------
(***************************************************************************)
(* Proofs about Decisions, for every input of the shape the code has       *)
(* checked: files of any number of columns, panels of any length, any      *)
(* number of adapters, and experiments with any data.                      *)
(***************************************************************************)
EXTENDS Decisions, SetArithmetic, SequenceTheorems

-----------------------------------------------------------------------------
(* The gate of the local application *)

LEMMA LocalCardinality == \A S : Local!Cardinality(S) = Cardinality(S)
BY DEF Local!Cardinality, Cardinality

LEMMA RowTypes ==
  ASSUME NEW i, IsExperiment(i), NEW e \in DOMAIN i.data, NEW d
  PROVE  /\ Local!At(i.data, e, d) \in LocalRow
         /\ d \in Local!DaysOf(i.data, e) <=> Local!At(i.data, e, d).copies > 0
         /\ d \in Local!DaysOf(i.data, e) => Local!At(i.data, e, d) = i.data[e][d]
<1>1. CASE d \in DOMAIN i.data[e]
  BY <1>1 DEF IsExperiment, Local!At, Local!DaysOf
<1>2. CASE d \notin DOMAIN i.data[e]
  <2>1. Local!NoRow \in LocalRow /\ Local!NoRow.copies = 0
    BY DEF Local!NoRow, LocalRow, Local!Missing, Local!NoProof
  <2> QED
    BY <1>2, <2>1 DEF Local!At, Local!DaysOf
<1> QED
  BY <1>1, <1>2

\* Every model predicts every entity of what passes.
LEMMA AllPredicted ==
  ASSUME NEW i, IsExperiment(i), Local!ModelsFeasible(i.spec, i.data),
         NEW o \in i.spec.origins, NEW h \in 1 .. i.spec.horizon, NEW m \in i.spec.models
  PROVE  Local!Predicted(i.spec, i.data, m, o.day, h) = Local!Entities(i.data)
<1> DEFINE all == Local!Entities(i.data)
           some == Local!Predicted(i.spec, i.data, m, o.day, h)
<1>1. some \in SUBSET all
  BY DEF Local!Predicted
<1>2. Cardinality(some) = Cardinality(all)
  BY LocalCardinality DEF Local!ModelsFeasible
<1>3. IsFiniteSet(DOMAIN i.data) /\ all \in SUBSET DOMAIN i.data
  BY DEF IsExperiment, Local!Entities
<1> HIDE DEF all, some
<1>4. IsFiniteSet(all)
  BY <1>3, FS_Subset
<1> QED
  BY <1>1, <1>2, <1>4, FS_Subset DEF all, some

\* A row of a forecast day counts for a model if and only if the gate counted it.
LEMMA CountedRows ==
  ASSUME NEW i, IsExperiment(i), ~Local!DataBlocks(i.spec, i.data),
         NEW c \in Local!Grid(i.spec, i.data)
  PROVE  LET row == Local!At(i.data, c.entity, c.day)
         IN Local!Eligible(row, i.spec.asOf) <=>
              /\ row.copies = 1 /\ row.observed = "yes"
              /\ row.target # Local!Missing /\ Local!InTime(row.known, i.spec.asOf)
<1> DEFINE row == Local!At(i.data, c.entity, c.day)
<1>1. /\ c.entity \in Local!Entities(i.data) /\ c.entity \in DOMAIN i.data
      /\ c.day \in i.spec.start .. i.spec.end
  <2>1. PICK o \in i.spec.origins, h \in 1 .. i.spec.horizon, e \in Local!Entities(i.data) :
               c = [origin |-> o, horizon |-> h, entity |-> e, day |-> o.day + h - 1]
    BY DEF Local!Grid
  <2>2. /\ i.spec.horizon \in Nat /\ i.spec.start \in Int /\ i.spec.end \in Int
        /\ o.day \in Int /\ i.spec.start <= o.day
        /\ o.day + i.spec.horizon - 1 <= i.spec.end
    BY DEF IsExperiment, IsLocalSpec
  <2>3. o.day + h - 1 \in i.spec.start .. i.spec.end
    BY <2>2
  <2> QED
    BY <2>1, <2>3 DEF Local!Entities
<1>2. row \in LocalRow /\ i.spec.asOf \in Int
  BY <1>1, RowTypes DEF IsExperiment, IsLocalSpec
<1>3. CASE row.copies > 0
  <2>1. c.day \in Local!DaysOf(i.data, c.entity) /\ row = i.data[c.entity][c.day]
    BY <1>1, <1>3, RowTypes
  <2>2. ~(row.copies > 1)
    BY <1>1, <2>1 DEF Local!DataBlocks, Local!HasDuplicates
  <2>3. c.day \in Local!Relevant(i.spec, i.data, c.entity)
    BY <1>1, <2>1 DEF Local!Relevant
  <2>4. ~Local!BadRow(i.spec, row, c.day)
    BY <1>1, <2>1, <2>3 DEF Local!DataBlocks
  <2>5. row.known # Local!NoProof
    BY <2>4 DEF Local!BadRow
  <2>6. row.copies = 1
    BY <1>2, <1>3, <2>2 DEF LocalRow
  <2>7. row.known \in Int
    BY <1>2 DEF LocalRow
  <2> HIDE DEF row
  <2> QED
    BY <1>2, <2>5, <2>6, <2>7 DEF Local!Eligible, Local!InTime, row
<1>4. CASE ~(row.copies > 0)
  BY <1>4 DEF Local!Eligible
<1> QED
  BY <1>3, <1>4

LEMMA GateTells ==
  ASSUME NEW i, IsExperiment(i)
  PROVE  Local!Foretold(i.spec, i.data)
<1> DEFINE included == Local!Included(i.spec, i.data)
           scorable == Local!Scorable(i.spec, i.data)
           common == Local!CommonRows(i.spec, i.data)
<1> SUFFICES ASSUME Local!Passed(i.spec, i.data)
             PROVE  /\ ~Local!RunFails(i.spec, i.data)
                    /\ \A m \in i.spec.models : Local!RowsOf(i.spec, i.data, m) = scorable
                    /\ Local!Covers(i.spec, common, included)
  BY DEF Local!Foretold
<1>1. /\ ~Local!DataBlocks(i.spec, i.data) /\ Local!ModelsFeasible(i.spec, i.data)
      /\ Local!Covers(i.spec, scorable, included)
  BY DEF Local!Passed
<1>2. i.spec.models # {}
  BY DEF IsExperiment, IsLocalSpec
<1>3. ~Local!RunFails(i.spec, i.data)
  <2>1. ~(Cardinality({}) >= 2)
    BY FS_EmptySet
  <2> QED
    BY <1>1, <2>1, LocalCardinality DEF Local!RunFails, Local!ModelsFeasible
<1>4. \A m \in i.spec.models : \A c \in Local!Grid(i.spec, i.data) :
        c \in Local!RowsOf(i.spec, i.data, m) <=> c \in scorable
  <2> TAKE m \in i.spec.models
  <2> TAKE c \in Local!Grid(i.spec, i.data)
  <2> DEFINE row == Local!At(i.data, c.entity, c.day)
  <2>1. c.entity \in Local!Predicted(i.spec, i.data, m, c.origin.day, c.horizon)
    BY <1>1, AllPredicted DEF Local!Grid
  <2>2. c \in Local!RowsOf(i.spec, i.data, m) <=> Local!Eligible(row, i.spec.asOf)
    BY <2>1 DEF Local!RowsOf
  <2>3. row.copies = 1 /\ row.observed = "yes" => c \in included
    BY DEF Local!Included, Local!ObservedIn
  <2>4. c \in scorable <=>
          /\ c \in included
          /\ row.copies = 1 /\ row.observed = "yes"
          /\ row.target # Local!Missing /\ Local!InTime(row.known, i.spec.asOf)
    BY DEF Local!Scorable
  <2> QED
    BY <1>1, <2>2, <2>3, <2>4, CountedRows
<1>5. scorable \subseteq Local!Grid(i.spec, i.data)
  BY DEF Local!Scorable, Local!Included
<1>6. \A m \in i.spec.models : Local!RowsOf(i.spec, i.data, m) = scorable
  <2> TAKE m \in i.spec.models
  <2>1. Local!RowsOf(i.spec, i.data, m) \subseteq Local!Grid(i.spec, i.data)
    BY DEF Local!RowsOf
  <2> QED
    BY <1>4, <1>5, <2>1
<1>7. common = scorable
  BY <1>2, <1>5, <1>6 DEF Local!CommonRows
<1> QED
  BY <1>1, <1>3, <1>6, <1>7

-----------------------------------------------------------------------------
(* What was known on a day *)

LEMMA UntilRows ==
  ASSUME NEW i, IsExperiment(i), NEW day \in Int, NEW e \in DOMAIN i.data, NEW d
  PROVE  LET r == Local!At(i.data, e, d)
             u == Local!At(Local!Until(i.data, day), e, d)
         IN /\ u.copies = r.copies /\ u.known = r.known
            /\ u.observed = r.observed /\ u.ready = r.ready
            /\ u.target = IF Local!InTime(r.known, day) THEN r.target ELSE Local!Missing
            /\ u.value = IF Local!InTime(r.ready, day) THEN r.value ELSE Local!Missing
<1>1. CASE d \in DOMAIN i.data[e]
  <2>1. i.data[e][d] \in LocalRow
    BY <1>1 DEF IsExperiment
  <2>2. Local!At(i.data, e, d) = i.data[e][d]
    BY <1>1 DEF Local!At
  <2>3. Local!At(Local!Until(i.data, day), e, d) =
          [i.data[e][d] EXCEPT
             !.target = IF Local!InTime(i.data[e][d].known, day) THEN @ ELSE Local!Missing,
             !.value = IF Local!InTime(i.data[e][d].ready, day) THEN @ ELSE Local!Missing]
    BY <1>1 DEF Local!At, Local!Until
  <2> QED
    BY <2>1, <2>2, <2>3 DEF LocalRow
<1>2. CASE d \notin DOMAIN i.data[e]
  <2>1. Local!At(i.data, e, d) = Local!NoRow
    BY <1>2 DEF Local!At
  <2>2. Local!At(Local!Until(i.data, day), e, d) = Local!NoRow
    BY <1>2 DEF Local!At, Local!Until
  <2>3. Local!NoRow.target = Local!Missing /\ Local!NoRow.value = Local!Missing
    BY DEF Local!NoRow
  <2> QED
    BY <2>1, <2>2, <2>3
<1> QED
  BY <1>1, <1>2

LEMMA UntilDays ==
  ASSUME NEW i, IsExperiment(i), NEW day \in Int
  PROVE  /\ \A e \in DOMAIN i.data :
              Local!DaysOf(Local!Until(i.data, day), e) = Local!DaysOf(i.data, e)
         /\ Local!Entities(Local!Until(i.data, day)) = Local!Entities(i.data)
<1>1. ASSUME NEW e \in DOMAIN i.data
      PROVE  Local!DaysOf(Local!Until(i.data, day), e) = Local!DaysOf(i.data, e)
  <2>1. DOMAIN Local!Until(i.data, day)[e] = DOMAIN i.data[e]
    BY DEF Local!Until
  <2>2. ASSUME NEW d \in DOMAIN i.data[e]
        PROVE  Local!Until(i.data, day)[e][d].copies = i.data[e][d].copies
    <3>1. i.data[e][d] \in LocalRow
      BY DEF IsExperiment
    <3> QED
      BY <3>1 DEF Local!Until, LocalRow
  <2> QED
    BY <2>1, <2>2 DEF Local!DaysOf
<1>2. DOMAIN Local!Until(i.data, day) = DOMAIN i.data
  BY DEF Local!Until
<1> QED
  BY <1>1, <1>2 DEF Local!Entities

\* Every row says when it is known.
Proven(i) ==
  \A e \in DOMAIN i.data : \A d :
    LET row == Local!At(i.data, e, d)
    IN row.copies > 0 => /\ row.known # Local!NoProof
                         /\ i.spec.feature # "none" => row.ready # Local!NoProof

\* The gate sees to the days of the experiment, the precondition to the others.
LEMMA GateProves ==
  ASSUME NEW i, IsExperiment(i), Local!Passed(i.spec, i.data),
         Local!ProvenOutside(i.spec, i.data)
  PROVE  Proven(i)
<1> SUFFICES ASSUME NEW e \in DOMAIN i.data, NEW d, Local!At(i.data, e, d).copies > 0
             PROVE  /\ Local!At(i.data, e, d).known # Local!NoProof
                    /\ i.spec.feature # "none" =>
                         Local!At(i.data, e, d).ready # Local!NoProof
  BY DEF Proven
<1> DEFINE row == Local!At(i.data, e, d)
<1>1. d \in Local!DaysOf(i.data, e) /\ row = i.data[e][d]
  BY RowTypes
<1>2. e \in Local!Entities(i.data)
  BY <1>1 DEF Local!Entities
<1>3. CASE d \in i.spec.start .. i.spec.end
  <2>1. d \in Local!Relevant(i.spec, i.data, e)
    BY <1>1, <1>3 DEF Local!Relevant
  <2>2. ~Local!BadRow(i.spec, row, d)
    BY <1>1, <1>2, <2>1 DEF Local!Passed, Local!DataBlocks
  <2> HIDE DEF row
  <2>3. row.known # Local!NoProof /\ (i.spec.feature # "none" => row.ready # Local!NoProof)
    BY <2>2 DEF Local!BadRow
  <2> QED
    BY <2>3 DEF row
<1>4. CASE d \notin i.spec.start .. i.spec.end
  BY <1>1, <1>2, <1>4 DEF Local!ProvenOutside
<1> QED
  BY <1>3, <1>4

\* What is used at a cutoff is among what is known on a later day.
LEMMA UntilUsed ==
  ASSUME NEW i, IsExperiment(i), Proven(i),
         NEW day \in Int, NEW cutoff \in Int, cutoff <= day,
         NEW e \in DOMAIN i.data, NEW d
  PROVE  LET r == Local!At(i.data, e, d)
             u == Local!At(Local!Until(i.data, day), e, d)
         IN /\ Local!Eligible(u, cutoff) <=> Local!Eligible(r, cutoff)
            /\ Local!Eligible(r, cutoff) => u.target = r.target
            /\ i.spec.feature # "none" =>
                 /\ Local!Given(u, cutoff) <=> Local!Given(r, cutoff)
                 /\ Local!Given(r, cutoff) => u.value = r.value
<1> DEFINE r == Local!At(i.data, e, d)
           u == Local!At(Local!Until(i.data, day), e, d)
<1>1. r \in LocalRow
  BY RowTypes
<1>2. r.known \in Int /\ r.ready \in Int
  BY <1>1 DEF LocalRow
<1>3. /\ u.copies = r.copies /\ u.known = r.known
      /\ u.observed = r.observed /\ u.ready = r.ready
      /\ u.target = IF Local!InTime(r.known, day) THEN r.target ELSE Local!Missing
      /\ u.value = IF Local!InTime(r.ready, day) THEN r.value ELSE Local!Missing
  BY UntilRows DEF Local!InTime
<1>4. r.copies > 0 => /\ r.known # Local!NoProof
                      /\ i.spec.feature # "none" => r.ready # Local!NoProof
  BY DEF Proven
<1> HIDE DEF r, u
<1>5. r.copies > 0 /\ ~(r.known > cutoff) => Local!InTime(r.known, day)
  BY <1>2, <1>4 DEF Local!InTime
<1>6. i.spec.feature # "none" /\ r.copies > 0 /\ ~(r.ready > cutoff) =>
        Local!InTime(r.ready, day)
  BY <1>2, <1>4 DEF Local!InTime
<1>7. /\ Local!Eligible(u, cutoff) <=> Local!Eligible(r, cutoff)
      /\ Local!Eligible(r, cutoff) => u.target = r.target
  BY <1>3, <1>5 DEF Local!Eligible
<1>8. i.spec.feature # "none" =>
        /\ Local!Given(u, cutoff) <=> Local!Given(r, cutoff)
        /\ Local!Given(r, cutoff) => u.value = r.value
  BY <1>3, <1>6 DEF Local!Given
<1> QED
  BY <1>7, <1>8 DEF r, u

LEMMA UntilExample ==
  ASSUME NEW i, IsExperiment(i), Proven(i), NEW day \in Int, NEW cutoff \in Int, cutoff <= day,
         NEW e \in DOMAIN i.data, NEW s, NEW label
  PROVE  LET known == Local!Until(i.data, day)
         IN /\ Local!HasExample(i.spec, known, e, s, label, cutoff)
                 <=> Local!HasExample(i.spec, i.data, e, s, label, cutoff)
            /\ Local!HasExample(i.spec, i.data, e, s, label, cutoff) =>
                 Local!Example(i.spec, known, e, s, label)
                   = Local!Example(i.spec, i.data, e, s, label)
<1> DEFINE known == Local!Until(i.data, day)
           days == Local!PastDays(i.spec, s)
<1>1. \A d : /\ Local!Eligible(Local!At(known, e, d), cutoff)
                   <=> Local!Eligible(Local!At(i.data, e, d), cutoff)
             /\ Local!Eligible(Local!At(i.data, e, d), cutoff) =>
                  Local!At(known, e, d).target = Local!At(i.data, e, d).target
  BY UntilUsed
<1>2. i.spec.feature # "none" =>
        \E d : /\ Local!FeatureRow(i.spec, known, e, s, label) = Local!At(known, e, d)
               /\ Local!FeatureRow(i.spec, i.data, e, s, label) = Local!At(i.data, e, d)
  <2>1. i.spec.feature \in {"none", "past_only", "known_future", "static"}
    BY DEF IsExperiment, IsLocalSpec
  <2>2. Local!DaysOf(known, e) = Local!DaysOf(i.data, e)
    BY UntilDays
  <2>3. CASE i.spec.feature = "past_only"
    BY <2>3 DEF Local!FeatureRow
  <2>4. CASE i.spec.feature = "known_future"
    BY <2>4 DEF Local!FeatureRow
  <2>5. CASE i.spec.feature = "static"
    BY <2>2, <2>5 DEF Local!FeatureRow
  <2> QED
    BY <2>1, <2>3, <2>4, <2>5
<1>3. i.spec.feature # "none" =>
        /\ Local!Given(Local!FeatureRow(i.spec, known, e, s, label), cutoff)
             <=> Local!Given(Local!FeatureRow(i.spec, i.data, e, s, label), cutoff)
        /\ Local!Given(Local!FeatureRow(i.spec, i.data, e, s, label), cutoff) =>
             Local!FeatureRow(i.spec, known, e, s, label).value
               = Local!FeatureRow(i.spec, i.data, e, s, label).value
  BY <1>2, UntilUsed
<1>4. Local!HasExample(i.spec, known, e, s, label, cutoff)
        <=> Local!HasExample(i.spec, i.data, e, s, label, cutoff)
  BY <1>1, <1>3 DEF Local!HasExample
<1>5. ASSUME Local!HasExample(i.spec, i.data, e, s, label, cutoff)
      PROVE  Local!Example(i.spec, known, e, s, label)
               = Local!Example(i.spec, i.data, e, s, label)
  <2>1. \A d \in days : Local!At(known, e, d).target = Local!At(i.data, e, d).target
    BY <1>1, <1>5 DEF Local!HasExample
  <2>2. [d \in days |-> Local!At(known, e, d).target]
          = [d \in days |-> Local!At(i.data, e, d).target]
    BY <2>1
  <2>3. i.spec.feature # "none" =>
          Local!FeatureRow(i.spec, known, e, s, label).value
            = Local!FeatureRow(i.spec, i.data, e, s, label).value
    BY <1>3, <1>5 DEF Local!HasExample
  <2> HIDE DEF known
  <2> QED
    BY <2>2, <2>3 DEF Local!Example
<1> QED
  BY <1>4, <1>5

LEMMA LocalMax == \A S : Local!Max(S) = Max(S)
BY DEF Local!Max, Max

\* A sample is older than the horizon.
LEMMA SampleDays ==
  ASSUME NEW i, IsExperiment(i), NEW o \in i.spec.origins, NEW h \in 1 .. i.spec.horizon,
         NEW s \in Local!Samples(i.spec, o.day, h)
  PROVE  s \in Int /\ o.day \in Int /\ s < o.day
<1>1. /\ i.spec.horizon \in Nat /\ i.spec.window \in Nat /\ o.day \in Int
      /\ i.spec.lags \in SUBSET Nat /\ i.spec.rolling \in SUBSET Nat
      /\ i.spec.lags # {} /\ IsFiniteSet(i.spec.lags) /\ IsFiniteSet(i.spec.rolling)
  BY DEF IsExperiment, IsLocalSpec
<1> DEFINE back == i.spec.lags \cup i.spec.rolling
<1>2. IsFiniteSet(back) /\ back # {} /\ back \in SUBSET Int
  <2>1. IsFiniteSet(back)
    BY <1>1, FS_Union
  <2> QED
    BY <1>1, <2>1
<1> HIDE DEF back
<1>3. Local!Max(back) \in Int
  BY <1>2, GreatestInteger, LocalMax
<1> DEFINE first == o.day - i.spec.window + Local!Max(back)
<1>4. first \in Int
  BY <1>1, <1>3
<1>5. s \in first .. o.day - h
  BY DEF Local!Samples, back
<1> HIDE DEF first
<1>6. h \in Int /\ h >= 1
  BY <1>1
<1> QED
  BY <1>1, <1>4, <1>5, <1>6

LEMMA UntilTrain ==
  ASSUME NEW i, IsExperiment(i), Proven(i), NEW o \in i.spec.origins, NEW h \in 1 .. i.spec.horizon
  PROVE  Local!Train(i.spec, Local!Until(i.data, o.day), o.day, h)
           = Local!Train(i.spec, i.data, o.day, h)
<1> DEFINE known == Local!Until(i.data, o.day)
           pairs == Local!Entities(i.data) \X Local!Samples(i.spec, o.day, h)
           used(data, k) ==
             /\ Local!Eligible(Local!At(data, k[1], k[2] + h - 1), o.day)
             /\ Local!HasExample(i.spec, data, k[1], k[2], k[2] + h - 1, k[2])
           row(data, k) ==
             [x |-> Local!Example(i.spec, data, k[1], k[2], k[2] + h - 1),
              y |-> Local!At(data, k[1], k[2] + h - 1).target]
<1>1. Local!Entities(known) = Local!Entities(i.data)
  BY UntilDays, SampleDays DEF IsExperiment, IsLocalSpec
<1>2. \A k \in pairs : /\ used(known, k) <=> used(i.data, k)
                       /\ used(i.data, k) => row(known, k) = row(i.data, k)
  <2> TAKE k \in pairs
  <2>1. k[1] \in Local!Entities(i.data) /\ k[2] \in Local!Samples(i.spec, o.day, h)
    OBVIOUS
  <2>2. k[1] \in DOMAIN i.data
    BY <2>1 DEF Local!Entities
  <2>3. k[2] \in Int /\ o.day \in Int /\ k[2] <= o.day /\ o.day <= o.day
    <3>1. k[2] \in Int /\ o.day \in Int /\ k[2] < o.day
      BY <2>1, SampleDays
    <3> QED
      BY <3>1
  <2> DEFINE label == k[2] + h - 1
             e == k[1]
             s == k[2]
  <2> HIDE DEF label, e, s
  <2>4. /\ Local!Eligible(Local!At(known, k[1], label), o.day)
              <=> Local!Eligible(Local!At(i.data, k[1], label), o.day)
        /\ Local!Eligible(Local!At(i.data, k[1], label), o.day) =>
             Local!At(known, k[1], label).target = Local!At(i.data, k[1], label).target
    BY <2>2, <2>3, UntilUsed
  <2>5. /\ Local!HasExample(i.spec, known, e, s, label, s)
              <=> Local!HasExample(i.spec, i.data, e, s, label, s)
        /\ Local!HasExample(i.spec, i.data, e, s, label, s) =>
             Local!Example(i.spec, known, e, s, label)
               = Local!Example(i.spec, i.data, e, s, label)
    <3>1. e \in DOMAIN i.data /\ s \in Int /\ o.day \in Int /\ s <= o.day
      BY <2>2, <2>3 DEF e, s
    <3> QED
      BY <3>1, UntilExample
  <2> HIDE DEF known
  <2> QED
    BY <2>4, <2>5 DEF label, e, s
<1>3. Local!Train(i.spec, i.data, o.day, h) = {row(i.data, k) : k \in {j \in pairs : used(i.data, j)}}
  BY DEF Local!Train
<1>4. Local!Train(i.spec, known, o.day, h) = {row(known, k) : k \in {j \in pairs : used(known, j)}}
  <2> HIDE DEF known
  <2> QED
    BY <1>1 DEF Local!Train
<1> HIDE DEF pairs, used, row, known
<1>5. {j \in pairs : used(known, j)} = {j \in pairs : used(i.data, j)}
  BY <1>2
<1>6. {row(known, k) : k \in {j \in pairs : used(i.data, j)}}
        = {row(i.data, k) : k \in {j \in pairs : used(i.data, j)}}
  BY <1>2
<1> QED
  BY <1>3, <1>4, <1>5, <1>6 DEF known

\* What was not known at the origin does not change a prediction.
LEMMA UntilPrediction ==
  ASSUME NEW i, IsExperiment(i), Proven(i), Local!ModelsFeasible(i.spec, i.data),
         NEW o \in i.spec.origins, NEW h \in 1 .. i.spec.horizon,
         NEW m \in i.spec.models, NEW e \in Local!Entities(i.data)
  PROVE  Local!Prediction(i.spec, i.data, m, o.day, h, e)
           = Local!Prediction(i.spec, Local!Until(i.data, o.day), m, o.day, h, e)
<1> DEFINE known == Local!Until(i.data, o.day)
<1>1. e \in Local!Predicted(i.spec, i.data, m, o.day, h)
  BY AllPredicted
<1>2. e \in DOMAIN i.data /\ o.day \in Int /\ o.day <= o.day
  BY DEF Local!Entities, IsExperiment, IsLocalSpec
<1>3. m \in {"seasonal_naive", "moving_average", "ridge_direct"}
  BY DEF IsExperiment, IsLocalSpec
<1>4. \A d : Local!Eligible(Local!At(i.data, e, d), o.day) =>
               Local!At(known, e, d).target = Local!At(i.data, e, d).target
  BY <1>2, UntilUsed
<1>5. CASE m = "seasonal_naive"
  <2>1. Local!Eligible(Local!At(i.data, e, Local!Reference(i.spec, o.day, h)), o.day)
    BY <1>1, <1>5 DEF Local!Predicted
  <2> HIDE DEF known
  <2> QED
    BY <1>4, <1>5, <2>1 DEF Local!Prediction, known
<1>6. CASE m = "moving_average"
  <2>1. \A d \in Local!AverageDays(i.spec, o.day) :
          Local!Eligible(Local!At(i.data, e, d), o.day)
    BY <1>1, <1>6 DEF Local!Predicted
  <2> HIDE DEF known
  <2>2. [d \in Local!AverageDays(i.spec, o.day) |-> Local!At(i.data, e, d).target]
          = [d \in Local!AverageDays(i.spec, o.day) |-> Local!At(known, e, d).target]
    BY <1>4, <2>1
  <2>3. Local!Prediction(i.spec, i.data, m, o.day, h, e)
          = Local!Prediction(i.spec, known, m, o.day, h, e)
    BY <1>6, <2>2 DEF Local!Prediction
  <2> QED
    BY <2>3 DEF known
<1>7. CASE m = "ridge_direct"
  <2>1. Local!HasExample(i.spec, i.data, e, o.day, o.day + h - 1, o.day)
    BY <1>1, <1>7 DEF Local!Predicted
  <2>2. Local!Example(i.spec, known, e, o.day, o.day + h - 1)
          = Local!Example(i.spec, i.data, e, o.day, o.day + h - 1)
    <3>1. o.day \in Int /\ o.day + h - 1 \in Int /\ o.day <= o.day
      BY <1>2
    <3> HIDE DEF known
    <3> QED
      BY <1>2, <2>1, <3>1, UntilExample DEF known
  <2>3. Local!Train(i.spec, known, o.day, h) = Local!Train(i.spec, i.data, o.day, h)
    BY UntilTrain
  <2> HIDE DEF known
  <2>4. Local!Prediction(i.spec, i.data, m, o.day, h, e)
          = Local!Prediction(i.spec, known, m, o.day, h, e)
    BY <1>7, <2>2, <2>3 DEF Local!Prediction
  <2> QED
    BY <2>4 DEF known
<1> QED
  BY <1>3, <1>5, <1>6, <1>7

LEMMA LocalCausal ==
  ASSUME NEW i, IsExperiment(i)
  PROVE  Local!Causal(i.spec, i.data)
<1> SUFFICES ASSUME Local!ProvenOutside(i.spec, i.data), Local!Passed(i.spec, i.data),
                    NEW o \in i.spec.origins, NEW h \in 1 .. i.spec.horizon
             PROVE  /\ \A m \in i.spec.models, e \in Local!Entities(i.data) :
                         Local!Prediction(i.spec, i.data, m, o.day, h, e)
                           = Local!Prediction(i.spec, Local!Until(i.data, o.day),
                                              m, o.day, h, e)
                    /\ \A t \in Local!Train(i.spec, i.data, o.day, h) :
                         t.x = Local!Example(i.spec, Local!Until(i.data, t.x.sample),
                                             t.x.entity, t.x.sample, t.x.sample + h - 1)
  BY DEF Local!Causal, Local!OnlyAvailable
<1>1. Local!ModelsFeasible(i.spec, i.data) /\ Proven(i)
  BY GateProves DEF Local!Passed
<1>2. \A m \in i.spec.models, e \in Local!Entities(i.data) :
        Local!Prediction(i.spec, i.data, m, o.day, h, e)
          = Local!Prediction(i.spec, Local!Until(i.data, o.day), m, o.day, h, e)
  BY <1>1, UntilPrediction
<1>3. ASSUME NEW t \in Local!Train(i.spec, i.data, o.day, h)
      PROVE  t.x = Local!Example(i.spec, Local!Until(i.data, t.x.sample),
                                 t.x.entity, t.x.sample, t.x.sample + h - 1)
  <2>1. PICK k \in Local!Entities(i.data) \X Local!Samples(i.spec, o.day, h) :
          /\ Local!HasExample(i.spec, i.data, k[1], k[2], k[2] + h - 1, k[2])
          /\ t.x = Local!Example(i.spec, i.data, k[1], k[2], k[2] + h - 1)
    BY DEF Local!Train
  <2>2. k[1] \in DOMAIN i.data /\ k[2] \in Int /\ k[2] <= k[2]
    BY <2>1, SampleDays DEF Local!Entities
  <2>3. t.x.entity = k[1] /\ t.x.sample = k[2]
    BY <2>1 DEF Local!Example
  <2>4. Local!Example(i.spec, Local!Until(i.data, k[2]), k[1], k[2], k[2] + h - 1)
          = Local!Example(i.spec, i.data, k[1], k[2], k[2] + h - 1)
    BY <1>1, <2>1, <2>2, UntilExample
  <2> QED
    BY <2>1, <2>3, <2>4
<1> QED
  BY <1>2, <1>3

-----------------------------------------------------------------------------
(* The panel of the forecast worker *)

\* Every observed day is a day of the training window.
LEMMA ObservedDays ==
  ASSUME NEW i, IsPanel(i), ~Refused(i.panel), NEW e \in Entities(i.panel)
  PROVE  /\ First(i.panel, e) \in Int /\ First(i.panel, e) <= i.panel.end
         /\ DOMAIN Observed(i.panel)[e] = First(i.panel, e) .. i.panel.end
<1> DEFINE past == History(i.panel, e)
           cut == i.panel.end - MaxHistoryDays + 1
           two == {Min(past), cut}
<1>1. /\ i.panel.end \in Int /\ MaxHistoryDays \in Nat \ {0}
      /\ IsFiniteSet(DOMAIN i.panel.cells[e]) /\ DOMAIN i.panel.cells[e] \subseteq Int
  BY PanelAssumption DEF IsPanel, Entities
<1>2. past # {}
  BY DEF Refused
<1>3. /\ past \in SUBSET DOMAIN i.panel.cells[e]
      /\ \A d \in past : d <= i.panel.end
  BY DEF History
<1> HIDE DEF past
<1>4. IsFiniteSet(past) /\ past \in SUBSET Int
  BY <1>1, <1>3, FS_Subset
<1>5. Min(past) \in Int /\ Min(past) <= i.panel.end
  BY <1>2, <1>3, <1>4, LeastInteger
<1>6. cut \in Int /\ cut <= i.panel.end
  BY <1>1
<1> HIDE DEF cut
<1>7. IsFiniteSet(two) /\ two # {} /\ two \in SUBSET Int
  <2>1. IsFiniteSet({Min(past)}) /\ IsFiniteSet({cut})
    BY FS_Singleton
  <2>2. two = {Min(past)} \cup {cut}
    OBVIOUS
  <2>3. IsFiniteSet({Min(past)} \cup {cut})
    BY <2>1, FS_Union
  <2> QED
    BY <1>5, <1>6, <2>2, <2>3
<1>8. \A y \in two : y \in Int /\ y <= i.panel.end
  BY <1>5, <1>6
<1> HIDE DEF two
<1>9. Max(two) \in Int /\ Max(two) <= i.panel.end
  BY <1>7, <1>8, GreatestInteger
<1>10. First(i.panel, e) = Max(two)
  BY DEF First, two, cut, past
<1> QED
  BY <1>9, <1>10 DEF Observed

\* Up to its last day, what would have been known is what is known.
LEMMA KnownThen ==
  ASSUME NEW obs, NEW e \in DOMAIN obs, DOMAIN obs[e] \subseteq Int,
         NEW o \in Int, NEW d \in Int, d <= o
  PROVE  At(Until(obs, o), e, d) = At(obs, e, d)
<1>1. DOMAIN Until(obs, o)[e] = DOMAIN obs[e]
  BY DEF Until
<1>2. d \in DOMAIN obs[e] => Until(obs, o)[e][d] = obs[e][d]
  BY DEF Until
<1> QED
  BY <1>1, <1>2 DEF At

\* A seasonal mean looks back further than the forecast looks ahead.
LEMMA SeasonalLooksBack ==
  ASSUME NEW obs, NEW e \in DOMAIN obs, DOMAIN obs[e] \subseteq Int,
         NEW o \in Int, NEW h \in 1 .. Horizon, NEW t, t = o + h
  PROVE  /\ \A k \in BaselineLags :
              At(Until(obs, o), e, t - k) = At(obs, e, t - k)
         /\ Seasonal(Until(obs, o), e, t) = Seasonal(obs, e, t)
         /\ Seasonal(obs, e, t)[2] \in Nat
<1>1. \A k \in BaselineLags :
        /\ At(Until(obs, o), e, t - k) = At(obs, e, t - k)
        /\ BaselineWeight[k] \in Nat
  <2> TAKE k \in BaselineLags
  <2>1. k \in Nat /\ k >= Horizon /\ Horizon \in Nat /\ BaselineWeight[k] \in Nat
    BY PanelAssumption DEF BaselineLags
  <2>2. t - k \in Int /\ t - k <= o
    BY <2>1
  <2> QED
    BY <2>1, <2>2, KnownThen
<1> DEFINE lags == {k \in BaselineLags : At(obs, e, t - k) # Missing}
<1>2. lags = {k \in BaselineLags : At(Until(obs, o), e, t - k) # Missing}
  BY <1>1
<1>3. [k \in lags |-> BaselineWeight[k] * At(Until(obs, o), e, t - k)]
        = [k \in lags |-> BaselineWeight[k] * At(obs, e, t - k)]
  BY <1>1
<1>4. Seasonal(obs, e, t) =
        <<SumFunction([k \in lags |-> BaselineWeight[k] * At(obs, e, t - k)]),
          SumFunctionOnSet(BaselineWeight, lags)>>
  BY DEF Seasonal
<1>5. Seasonal(Until(obs, o), e, t) =
        <<SumFunction([k \in lags |-> BaselineWeight[k] * At(Until(obs, o), e, t - k)]),
          SumFunctionOnSet(BaselineWeight, lags)>>
  <2> HIDE DEF lags
  <2> QED
    BY <1>2 DEF Seasonal
<1>6. SumFunctionOnSet(BaselineWeight, lags) \in Nat
  <2>1. lags \in SUBSET BaselineLags /\ IsFiniteSet(BaselineLags)
    BY PanelAssumption DEF BaselineLags
  <2> HIDE DEF lags
  <2>2. IsFiniteSet(lags) /\ \A k \in lags : BaselineWeight[k] \in Nat
    BY <1>1, <2>1, FS_Subset
  <2>3. Sum(BaselineWeight, lags) \in Nat
    BY <2>2, SumType
  <2> QED
    BY <2>3, FunctionSums
<1> HIDE DEF lags
<1> QED
  BY <1>1, <1>3, <1>4, <1>5, <1>6

LEMMA RollingLooksBack ==
  ASSUME NEW obs, NEW e \in DOMAIN obs, DOMAIN obs[e] \subseteq Int, NEW o \in Int
  PROVE  /\ \A d \in Window(o) : At(Until(obs, o), e, d) = At(obs, e, d)
         /\ RollingMean(Until(obs, o), e, o) = RollingMean(obs, e, o)
         /\ RollingMean(obs, e, o)[2] \in Nat
<1>0. RollingWindow \in Nat \ {0}
  BY PanelAssumption
<1>1. \A d \in Window(o) : At(Until(obs, o), e, d) = At(obs, e, d)
  <2> TAKE d \in Window(o)
  <2>1. d \in Int /\ d <= o
    BY <1>0 DEF Window
  <2> QED
    BY <2>1, KnownThen
<1> DEFINE days == Known(obs, e, Window(o))
<1>2. days = Known(Until(obs, o), e, Window(o))
  BY <1>1 DEF Known
<1>3. [d \in days |-> At(Until(obs, o), e, d)] = [d \in days |-> At(obs, e, d)]
  BY <1>1 DEF Known
<1>4. RollingMean(obs, e, o)
        = <<SumFunction([d \in days |-> At(obs, e, d)]), Cardinality(days)>>
  BY DEF RollingMean
<1>5. RollingMean(Until(obs, o), e, o)
        = <<SumFunction([d \in days |-> At(Until(obs, o), e, d)]), Cardinality(days)>>
  <2> HIDE DEF days
  <2> QED
    BY <1>2 DEF RollingMean
<1>6. Cardinality(days) \in Nat
  <2>1. days \in SUBSET (o - RollingWindow + 1 .. o)
    BY DEF Known, Window
  <2>2. IsFiniteSet(o - RollingWindow + 1 .. o)
    BY <1>0, FS_Interval
  <2> HIDE DEF days
  <2> QED
    BY <2>1, <2>2, FS_Subset, FS_CardinalityType
<1> HIDE DEF days
<1> QED
  BY <1>1, <1>3, <1>4, <1>5, <1>6

\* A row is made of what was known at its origin, but for a baseline that needs a median.
LEMMA MadeRowLooksBack ==
  ASSUME NEW obs, NEW e \in DOMAIN obs, DOMAIN obs[e] \subseteq Int,
         NEW o \in Int, NEW h \in 1 .. Horizon
  PROVE  RowLooksBack(obs, MakeRow(obs, e, o, o + h))
<1> DEFINE then == Until(obs, o)
           t == o + h
<1>1. /\ \A k \in BaselineLags : At(then, e, t - k) = At(obs, e, t - k)
      /\ Seasonal(then, e, t) = Seasonal(obs, e, t)
      /\ Seasonal(obs, e, t)[2] \in Nat
  <2>1. t = o + h
    OBVIOUS
  <2> HIDE DEF t
  <2> QED
    BY <2>1, SeasonalLooksBack
<1>2. /\ \A d \in Window(o) : At(then, e, d) = At(obs, e, d)
      /\ RollingMean(then, e, o) = RollingMean(obs, e, o)
      /\ RollingMean(obs, e, o)[2] \in Nat
  BY RollingLooksBack
<1>3. \A k \in PointLags : At(then, e, o - k) = At(obs, e, o - k)
  <2> TAKE k \in PointLags
  <2>1. k \in Nat
    BY PanelAssumption
  <2>2. o - k \in Int /\ o - k <= o
    BY <2>1
  <2> QED
    BY <2>2, KnownThen
<1> HIDE DEF then, t
<1>4. Baseline(obs, e, o, t) = IF NeedsMedian(obs, e, o, t) THEN WholeMedian(obs, e)
                                ELSE Baseline(then, e, o, t)
  BY <1>1, <1>2 DEF NeedsMedian, Baseline
<1>5. /\ [k \in PointLags |-> At(obs, e, o - k)] = [k \in PointLags |-> At(then, e, o - k)]
      /\ [d \in Window(o) |-> At(obs, e, d)] = [d \in Window(o) |-> At(then, e, d)]
      /\ [k \in BaselineLags |-> At(obs, e, t - k)]
           = [k \in BaselineLags |-> At(then, e, t - k)]
  BY <1>1, <1>2, <1>3
<1>6. MakeRow(obs, e, o, t) =
        IF NeedsMedian(obs, e, o, t)
          THEN [MakeRow(then, e, o, t) EXCEPT !.baseline = WholeMedian(obs, e)]
          ELSE MakeRow(then, e, o, t)
  BY <1>4, <1>5 DEF MakeRow
<1> DEFINE r == MakeRow(obs, e, o, t)
<1>7. r.entity = e /\ r.origin = o /\ r.day = t
  BY DEF MakeRow
<1>8. r = IF NeedsMedian(obs, e, o, t)
            THEN [MakeRow(then, e, o, t) EXCEPT !.baseline = WholeMedian(obs, e)]
            ELSE MakeRow(then, e, o, t)
  BY <1>6
<1> HIDE DEF r
<1>9. RowLooksBack(obs, r)
  BY <1>7, <1>8 DEF RowLooksBack, then
<1> QED
  BY <1>9 DEF r, t

LEMMA ContextsLookBack ==
  ASSUME NEW obs, \A e \in DOMAIN obs : DOMAIN obs[e] \subseteq Int, NEW o \in Int
  PROVE  Contexts(obs, o) = Contexts(Until(obs, o), o)
<1> DEFINE then == Until(obs, o)
<1>1. DOMAIN then = DOMAIN obs
  BY DEF Until
<1>2. \A e \in DOMAIN obs : DOMAIN then[e] = DOMAIN obs[e]
  BY DEF Until
<1>3. \A e \in DOMAIN obs : \A d \in DOMAIN obs[e] : d <= o => then[e][d] = obs[e][d]
  BY DEF Until
<1> HIDE DEF then
<1>4. \A e \in DOMAIN obs : Context(then, e, o) = Context(obs, e, o)
  BY <1>2, <1>3 DEF Context
<1>5. \A e \in DOMAIN obs :
        Known(then, e, DOMAIN Context(obs, e, o)) = Known(obs, e, DOMAIN Context(obs, e, o))
  BY <1>2, <1>3 DEF Known, Context, At
<1>6. Contexts(then, o) = Contexts(obs, o)
  BY <1>1, <1>4, <1>5 DEF Contexts
<1> QED
  BY <1>6 DEF then

LEMMA PanelLooksBack ==
  ASSUME NEW i, IsPanel(i)
  PROVE  LooksBack(i.panel)
<1> DEFINE obs == Observed(i.panel)
<1> SUFFICES ASSUME ~Refused(i.panel), NEW cutoff \in Origins(i.panel)
             PROVE  /\ \A r \in {x.example : x \in Train(obs, cutoff)} \cup Predict(obs, cutoff) :
                         RowLooksBack(obs, r)
                    /\ \A x \in Train(obs, cutoff) : x.example.day <= cutoff
                    /\ Contexts(obs, cutoff) = Contexts(Until(obs, cutoff), cutoff)
  BY DEF LooksBack
<1>1. i.panel.end \in Int /\ Horizon \in Nat
  BY PanelAssumption DEF IsPanel
<1>2. cutoff \in Int
  BY <1>1 DEF Origins, HoldoutOrigin
<1>3. DOMAIN obs = Entities(i.panel)
  BY DEF Observed
<1>4. \A e \in DOMAIN obs : DOMAIN obs[e] \subseteq Int
  <2> TAKE e \in DOMAIN obs
  <2>1. DOMAIN obs[e] = First(i.panel, e) .. i.panel.end
    BY <1>3, ObservedDays
  <2> QED
    BY <2>1
<1> HIDE DEF obs
<1>5. ASSUME NEW e \in DOMAIN obs, NEW o \in Int, NEW h \in 1 .. Horizon, NEW t, t = o + h
      PROVE  RowLooksBack(obs, MakeRow(obs, e, o, t))
  BY <1>4, <1>5, MadeRowLooksBack
<1>6. ASSUME NEW x \in Train(obs, cutoff)
      PROVE  \E e \in DOMAIN obs : \E h \in 1 .. Horizon : \E t \in Int :
               /\ t <= cutoff /\ x.example = MakeRow(obs, e, t - h, t)
  <2>1. PICK k \in (DOMAIN obs) \X TrainPairs(obs, cutoff) :
               x.example = MakeRow(obs, k[1], k[2][1], k[2][2])
    BY DEF Train
  <2>2. PICK t \in Start(obs) .. cutoff, h \in 1 .. Horizon : k[2] = <<t - h, t>>
    BY DEF TrainPairs
  <2>3. t \in Int /\ t <= cutoff
    BY <1>2
  <2>4. k[1] \in DOMAIN obs /\ k[2][1] = t - h /\ k[2][2] = t
    BY <2>2
  <2> QED
    BY <2>1, <2>3, <2>4
<1>7. ASSUME NEW r \in {x.example : x \in Train(obs, cutoff)} \cup Predict(obs, cutoff)
      PROVE  RowLooksBack(obs, r)
  <2>1. CASE r \in {x.example : x \in Train(obs, cutoff)}
    <3>1. PICK e \in DOMAIN obs, h \in 1 .. Horizon, t \in Int : r = MakeRow(obs, e, t - h, t)
      BY <1>6, <2>1
    <3>2. t - h \in Int /\ t = (t - h) + h
      OBVIOUS
    <3> QED
      BY <1>5, <3>1, <3>2
  <2>2. CASE r \in Predict(obs, cutoff)
    <3>1. PICK e \in DOMAIN obs, h \in 1 .. Horizon :
                 r = MakeRow(obs, e, cutoff, cutoff + h)
      BY <2>2 DEF Predict, PredictPairs
    <3> QED
      BY <1>2, <1>5, <3>1
  <2> QED
    BY <2>1, <2>2
<1>8. ASSUME NEW x \in Train(obs, cutoff)
      PROVE  x.example.day <= cutoff
  <2>1. PICK e \in DOMAIN obs, h \in 1 .. Horizon, t \in Int :
               t <= cutoff /\ x.example = MakeRow(obs, e, t - h, t)
    BY <1>6
  <2> QED
    BY <2>1 DEF MakeRow
<1>9. Contexts(obs, cutoff) = Contexts(Until(obs, cutoff), cutoff)
  BY <1>2, <1>4, ContextsLookBack
<1> QED
  BY <1>7, <1>8, <1>9

-----------------------------------------------------------------------------
(* The document of a comparison *)

LEMMA ResultTypes ==
  ASSUME NEW i, IsComparison(i)
  PROVE  LET results == Results(i.endings, i.done, i.error)
             ended == {a \in i.done : i.endings[a].ended = "returned"}
         IN /\ DOMAIN results = DOMAIN i.endings
            /\ \A a \in DOMAIN results :
                 /\ results[a].status \in ModelStatuses
                 /\ results[a].wape \in Int
            /\ Succeeded(results) = ended
            /\ Succeeded(results) \in SUBSET (Nat \ {NoAdapter})
            /\ IsFiniteSet(Succeeded(results))
            /\ \A a \in ended : /\ results[a].wape = i.endings[a].wape
                                 /\ results[a].basis = i.endings[a].basis
<1> DEFINE results == Results(i.endings, i.done, i.error)
           ended == {a \in i.done : i.endings[a].ended = "returned"}
<1>1. /\ IsFiniteSet(DOMAIN i.endings) /\ DOMAIN i.endings \in SUBSET (Nat \ {NoAdapter})
      /\ i.done \in SUBSET DOMAIN i.endings
      /\ \A a \in DOMAIN i.endings : i.endings[a] \in Ending
  BY DEF IsComparison
<1>2. DOMAIN results = DOMAIN i.endings
  BY DEF Results
<1>3. ASSUME NEW a \in DOMAIN i.endings
      PROVE  /\ results[a].status \in ModelStatuses /\ results[a].wape \in Int
             /\ results[a].status = "succeeded" <=> a \in ended
             /\ a \in ended => /\ results[a].wape = i.endings[a].wape
                               /\ results[a].basis = i.endings[a].basis
  <2>1. results[a] = IF a \in i.done THEN ModelResult(i.endings[a])
                     ELSE NotRun(IF i.error = "value_error" THEN "invalid" ELSE "failed")
    BY DEF Results
  <2>2. i.endings[a] \in Ending /\ NoWape \in Int
    BY <1>1 DEF NoWape
  <2>3. i.endings[a].wape \in Int
    BY <2>2 DEF Ending
  <2> HIDE DEF results
  <2> QED
    BY <2>1, <2>2, <2>3 DEF ModelResult, NotRun, ModelStatuses
<1>4. Succeeded(results) = ended
  <2>1. ended \subseteq DOMAIN i.endings
    BY <1>1
  <2> HIDE DEF ended, results
  <2> QED
    BY <1>2, <1>3, <2>1 DEF Succeeded
<1>5. ended \in SUBSET DOMAIN i.endings
  BY <1>1
<1> HIDE DEF results, ended
<1>6. IsFiniteSet(ended)
  BY <1>1, <1>5, FS_Subset
<1> QED
  BY <1>1, <1>2, <1>3, <1>4, <1>5, <1>6 DEF results, ended

\* The leaderboard's order is one, and its ranks are the places in it.
LEMMA Leaderboard ==
  ASSUME NEW i, IsComparison(i), NEW results, results = Results(i.endings, i.done, i.error),
         Comparable(results)
  PROVE  /\ \A a \in Succeeded(results) : Ranks(results)[a] \in Nat \ {0}
         /\ {Ranks(results)[a] : a \in Succeeded(results)}
              = 1 .. Cardinality(Succeeded(results))
         /\ \A a, b \in Succeeded(results) :
              Before(results, a, b) => Ranks(results)[a] < Ranks(results)[b]
<1> DEFINE won == Succeeded(results)
           R == {p \in won \X won : Before(results, p[1], p[2])}
<1>1. /\ won \in SUBSET (DOMAIN results) /\ won \in SUBSET Nat /\ IsFiniteSet(won)
      /\ \A a \in won : results[a].wape \in Int
  BY ResultTypes DEF Succeeded
<1>2. \A a \in won : Ranks(results)[a]
                      = 1 + Cardinality({b \in won \ {a} : Before(results, b, a)})
  BY DEF Ranks, Succeeded
<1> HIDE DEF won
<1>3. Orders(R, won)
  <2>1. \A a, b, c \in won : Before(results, a, b) /\ Before(results, b, c)
                              => Before(results, a, c)
    BY <1>1 DEF Before
  <2>2. \A a, b \in won : a = b \/ Before(results, a, b) \/ Before(results, b, a)
    BY <1>1 DEF Before
  <2>3. \A a \in won : ~Before(results, a, a)
    BY <1>1 DEF Before
  <2> QED
    BY <2>1, <2>2, <2>3 DEF Orders
<1>4. \A a \in won : Ranks(results)[a] = Rank(R, won, a)
  <2> TAKE a \in won
  <2>1. {b \in won \ {a} : Before(results, b, a)} = Below(R, won, a)
    BY DEF Below
  <2> QED
    BY <1>2, <2>1 DEF Rank
<1>5. \A a, b \in won : Before(results, a, b) => <<a, b>> \in R
  OBVIOUS
<1> HIDE DEF R
<1>6. {Rank(R, won, a) : a \in won} = 1 .. Cardinality(won)
  BY <1>1, <1>3, RanksTaken
<1>7. \A a \in won : Rank(R, won, a) \in Nat \ {0}
  <2>1. \A a \in won : Rank(R, won, a) \in 1 .. Cardinality(won)
    BY <1>6
  <2> QED
    BY <1>1, <2>1, FS_CardinalityType
<1>8. \A a, b \in won : Before(results, a, b) => Rank(R, won, a) < Rank(R, won, b)
  BY <1>1, <1>3, <1>5, RankOrder
<1> QED
  BY <1>4, <1>6, <1>7, <1>8 DEF won

\* The first of a leaderboard is there, and nobody is before it.
LEMMA FirstOfAll ==
  ASSUME NEW i, IsComparison(i), NEW results, results = Results(i.endings, i.done, i.error),
         Comparable(results)
  PROVE  LET best == Document(results).best
         IN /\ best \in Succeeded(results) /\ Ranks(results)[best] = 1
            /\ \A a \in Succeeded(results) : results[best].wape <= results[a].wape
<1> DEFINE won == Succeeded(results)
           first == {a \in won : Ranks(results)[a] = 1}
           best == Document(results).best
<1>1. /\ \A a \in won : Ranks(results)[a] \in Nat \ {0}
      /\ {Ranks(results)[a] : a \in won} = 1 .. Cardinality(won)
      /\ \A a, b \in won : Before(results, a, b) => Ranks(results)[a] < Ranks(results)[b]
  BY Leaderboard
<1>2. Cardinality(won) \in Nat /\ Cardinality(won) >= 2
  BY ResultTypes, FS_CardinalityType DEF Comparable
<1>3. 1 \in {Ranks(results)[a] : a \in won}
  BY <1>1, <1>2
<1>4. first # {}
  BY <1>3
<1>5. best \in first
  BY <1>4 DEF Document
<1>6. \A a \in won : results[a].wape \in Int
  BY ResultTypes DEF Succeeded
<1> HIDE DEF won, best
<1>7. \A a \in won : results[best].wape <= results[a].wape
  <2> SUFFICES ASSUME NEW a \in won, ~(results[best].wape <= results[a].wape)
               PROVE  FALSE
    OBVIOUS
  <2>1. best \in won
    BY <1>5
  <2>2. Before(results, a, best)
    BY <1>6, <2>1 DEF Before
  <2>3. Ranks(results)[a] < 1 /\ Ranks(results)[a] \in Nat \ {0}
    BY <1>1, <1>5, <2>1, <2>2
  <2> QED
    BY <2>3
<1> QED
  BY <1>5, <1>7 DEF won, best

LEMMA WorkerIsAccepted ==
  ASSUME NEW i, IsComparison(i)
  PROVE  DocumentAccepted(i.endings, i.done, i.error)
<1> DEFINE results == Results(i.endings, i.done, i.error)
           doc == Document(results)
           won == Succeeded(results)
<1>1. /\ doc.status = RunStatus(Statuses(results)) /\ doc.models = results
      /\ doc.rank = Ranks(results) /\ doc.comparable = Comparable(results)
      /\ doc.succeeded = Cardinality(won)
      /\ doc.best = LET first == {a \in won : Ranks(results)[a] = 1}
                    IN IF first = {} THEN NoAdapter ELSE CHOOSE a \in first : TRUE
  BY DEF Document
<1>2. /\ DOMAIN results = DOMAIN i.endings
      /\ \A a \in DOMAIN i.endings :
           results[a].status \in ModelStatuses /\ results[a].wape \in Int
  BY ResultTypes
<1>3. won \in SUBSET DOMAIN i.endings
  BY <1>2 DEF Succeeded
<1>4. DOMAIN doc.rank = DOMAIN i.endings
  BY <1>1, <1>2 DEF Ranks
<1>5. CASE Comparable(results)
  <2> HIDE DEF doc, won, results
  <2>1. /\ {doc.rank[a] : a \in won} = 1 .. Cardinality(won)
        /\ \A a \in won : doc.rank[a] \in Nat
        /\ \A a, b \in won : Before(results, a, b) => doc.rank[a] < doc.rank[b]
    BY <1>1, <1>5, Leaderboard DEF won, results
  <2>2. doc.best \in won /\ doc.rank[doc.best] = 1
    BY <1>1, <1>5, FirstOfAll DEF doc, won, results
  <2>3. Cardinality(won) >= 2 /\ \A a \in won : results[a].wape # NoWape
    BY <1>5 DEF Comparable, won
  <2>4. \A a, b \in won : doc.rank[a] < doc.rank[b] => results[a].wape <= results[b].wape
    <3> SUFFICES ASSUME NEW a \in won, NEW b \in won, doc.rank[a] < doc.rank[b],
                        ~(results[a].wape <= results[b].wape)
                 PROVE  FALSE
      OBVIOUS
    <3>1. Before(results, b, a)
      BY <1>2, <1>3 DEF Before
    <3>2. doc.rank[b] < doc.rank[a] /\ doc.rank[a] \in Nat /\ doc.rank[b] \in Nat
      BY <2>1, <3>1
    <3> QED
      BY <3>2
  <2>5. Consistent(doc, DOMAIN i.endings)
    BY <1>1, <1>2, <1>4, <1>5, <2>1, <2>2, <2>3, <2>4 DEF Consistent, won
  <2> QED
    BY <2>5 DEF DocumentAccepted, doc, results
<1>6. CASE ~Comparable(results)
  <2>1. \A a \in DOMAIN i.endings : doc.rank[a] = NoRank
    BY <1>1, <1>2, <1>6 DEF Ranks
  <2>2. doc.best = NoAdapter
    BY <1>1, <1>3, <2>1 DEF NoRank
  <2>3. ~doc.comparable
    BY <1>1, <1>6
  <2> HIDE DEF doc, won, results
  <2>4. Consistent(doc, DOMAIN i.endings)
    BY <1>1, <1>2, <1>4, <2>1, <2>2, <2>3 DEF Consistent, won
  <2> QED
    BY <2>4 DEF DocumentAccepted, doc, results
<1> QED
  BY <1>5, <1>6

LEMMA NamedIsBest ==
  ASSUME NEW i, IsComparison(i)
  PROVE  BestIsBest(i.endings, i.done, i.error)
<1> DEFINE results == Results(i.endings, i.done, i.error)
           review == ComparisonReview(Document(results))
           ended == {a \in i.done : i.endings[a].ended = "returned"}
<1>1. /\ DOMAIN results = DOMAIN i.endings /\ Succeeded(results) = ended
      /\ \A a \in ended : /\ results[a].wape = i.endings[a].wape
                           /\ results[a].basis = i.endings[a].basis
  BY ResultTypes
<1>2. /\ review.attention <=> \E a \in DOMAIN results : results[a].status # "succeeded"
      /\ review.named # NoAdapter =>
           Comparable(results) /\ review.named = Document(results).best
  BY DEF ComparisonReview, Document
<1> HIDE DEF results, review, ended
<1>3. ASSUME review.named # NoAdapter
      PROVE  /\ review.named \in ended
             /\ \A a \in ended :
                  /\ i.endings[review.named].wape <= i.endings[a].wape
                  /\ i.endings[review.named].basis = i.endings[a].basis
  <2>1. /\ review.named \in Succeeded(results)
        /\ \A a \in Succeeded(results) : results[review.named].wape <= results[a].wape
    BY <1>2, <1>3, FirstOfAll DEF results
  <2>2. \A a, b \in Succeeded(results) : results[a].basis = results[b].basis
    BY <1>2, <1>3 DEF Comparable
  <2> QED
    BY <1>1, <2>1, <2>2
<1>4. ~review.attention <=> ended = DOMAIN i.endings
  BY <1>1, <1>2 DEF Succeeded
<1>5. /\ review.named # NoAdapter =>
           /\ review.named \in ended
           /\ \A a \in ended :
                /\ i.endings[review.named].wape <= i.endings[a].wape
                /\ i.endings[review.named].basis = i.endings[a].basis
      /\ ~review.attention <=> ended = DOMAIN i.endings
  BY <1>3, <1>4
<1> QED
  BY <1>5 DEF BestIsBest, results, review, ended

-----------------------------------------------------------------------------
(* The plans of the agent *)

LEMMA ColumnsOf ==
  ASSUME NEW mapping, NEW roles, NEW c
  PROVE  c \in Columns(mapping, roles) <=> \E r \in roles : c \in mapping[r]
BY DEF Columns

LEMMA RoleSets ==
  /\ FutureRoles \subseteq FeatureRoles /\ StaticRoles \subseteq FeatureRoles
  /\ FeatureRoles = FutureRoles \cup StaticRoles
  /\ FeatureRoles \subseteq Roles \ {"excluded", "target", "timestamp"}
  /\ {"excluded", "target", "timestamp"} \subseteq Roles
BY DEF FutureRoles, StaticRoles, FeatureRoles, Roles, OptionalRoles

\* The guard takes the columns of some features and excludes them.
LEMMA GuardedRoles ==
  ASSUME NEW profiles, NEW mapping
  PROVE  \E roles \in {StaticRoles, FeatureRoles} :
           /\ roles = StaticRoles => HasFuture(profiles, mapping)
           /\ Guarded(profiles, mapping) = Demoted(mapping, roles)
<1>1. CASE HasFuture(profiles, mapping)
  BY <1>1 DEF Guarded
<1>2. CASE ~HasFuture(profiles, mapping)
  <2>1. StaticRoles # FeatureRoles
    BY DEF StaticRoles, FeatureRoles, FutureRoles
  <2> QED
    BY <1>2, <2>1 DEF Guarded
<1> QED
  BY <1>1, <1>2

LEMMA DemotedRoles ==
  ASSUME NEW mapping, NEW roles \in SUBSET FeatureRoles
  PROVE  /\ \A r \in roles : Demoted(mapping, roles)[r] = {}
         /\ Demoted(mapping, roles)["excluded"] =
              mapping["excluded"] \cup Columns(mapping, roles)
         /\ \A r \in Roles \ (roles \cup {"excluded"}) :
              Demoted(mapping, roles)[r] = mapping[r]
BY RoleSets DEF Demoted

\* Whatever the provider answers, a plan that may be confirmed is complete, is
\* accepted by the control plane unless a role has too many columns, and uses no
\* feature of which the forecast's days have no values.
THEOREM ConfirmedPlanAccepted ==
  ASSUME NEW profiles, IsFiniteSet(DOMAIN profiles),
         \A c \in DOMAIN profiles :
           profiles[c].bad \in {"none", "negative", "not_finite"},
         NEW Names, NEW mapping \in [Roles -> SUBSET Names], NEW adapters
  PROVE  PlanAccepted(profiles, adapters, mapping)
<1> DEFINE whole == Completed(profiles, mapping)
           plan == DraftMapping(profiles, mapping)
<1> SUFFICES ASSUME DraftAccepted(profiles, adapters, mapping)
             PROVE  /\ Columns(plan, Roles) = DOMAIN profiles
                    /\ \A c \in DOMAIN profiles :
                         profiles[c].name = "outcome" => c \in plan["excluded"]
                    /\ Columns(plan, StaticRoles) = {}
                    /\ Columns(plan, FutureRoles) # {} =>
                         HeldBack(profiles, mapping) = Horizon
                    /\ Cardinality(DOMAIN profiles) <= MaxRoleColumns => Requestable(plan)
                    /\ ~Attention(profiles, plan) =>
                         /\ \A c \in plan["target"] : profiles[c].bad = "none"
                         /\ \A c \in Columns(plan, FeatureRoles) : ~profiles[c].nulls
  BY DEF PlanAccepted
<1>1. /\ Columns(mapping, Roles) \subseteq DOMAIN profiles
      /\ \A c \in Columns(mapping, Roles \ {"excluded"}) : profiles[c].name # "outcome"
  BY DEF DraftAccepted, Acceptable
<1>2. SingleColumns(plan) /\ OneRole(plan)
  BY DEF DraftAccepted, WithinContract
<1>3. /\ Columns(plan, Roles) \subseteq DOMAIN profiles
      /\ \A c \in plan["target"] : profiles[c].bad # "not_finite"
  BY DEF DraftAccepted, WithinContract
<1>4. /\ \A r \in Roles \ {"excluded"} : whole[r] = mapping[r]
      /\ whole["excluded"] = (DOMAIN profiles) \ Columns(mapping, Roles \ {"excluded"})
  BY RoleSets DEF Completed
<1>5. PICK roles \in {StaticRoles, FeatureRoles} :
        /\ roles = StaticRoles => HasFuture(profiles, whole)
        /\ plan = Demoted(whole, roles)
  BY GuardedRoles DEF DraftMapping
<1>6. roles \in SUBSET FeatureRoles /\ StaticRoles \subseteq roles
  BY RoleSets
<1>7. /\ \A r \in roles : plan[r] = {}
      /\ plan["excluded"] = whole["excluded"] \cup Columns(whole, roles)
      /\ \A r \in Roles \ (roles \cup {"excluded"}) : plan[r] = whole[r]
  BY <1>5, <1>6, DemotedRoles
<1> HIDE DEF plan, whole
<1>8. Columns(plan, Roles) = DOMAIN profiles
  <2> SUFFICES ASSUME NEW c \in DOMAIN profiles
               PROVE  \E r \in Roles : c \in plan[r]
    BY <1>3, ColumnsOf
  <2>1. CASE c \in Columns(mapping, Roles \ {"excluded"})
    <3>1. PICK r \in Roles \ {"excluded"} : c \in whole[r]
      BY <1>4, <2>1, ColumnsOf
    <3>2. CASE r \in roles
      <4>1. c \in Columns(whole, roles)
        BY <3>1, <3>2, ColumnsOf
      <4> QED
        BY <1>7, <4>1, RoleSets
    <3>3. CASE r \notin roles
      BY <1>7, <3>1, <3>3
    <3> QED
      BY <3>2, <3>3
  <2>2. CASE c \notin Columns(mapping, Roles \ {"excluded"})
    BY <1>4, <1>7, <2>2, RoleSets
  <2> QED
    BY <2>1, <2>2
<1>9. \A c \in DOMAIN profiles : profiles[c].name = "outcome" => c \in plan["excluded"]
  BY <1>1, <1>4, <1>7
<1>10. Columns(plan, StaticRoles) = {}
  BY <1>6, <1>7, ColumnsOf
<1>11. Columns(plan, FutureRoles) # {} => HeldBack(profiles, mapping) = Horizon
  <2>1. Columns(plan, FutureRoles) # {} => roles = StaticRoles
    BY <1>7, ColumnsOf, RoleSets
  <2>2. whole["target"] = mapping["target"]
    BY <1>4, RoleSets
  <2>3. TheColumn(whole, "target") = TheColumn(mapping, "target")
    BY <2>2 DEF TheColumn
  <2>4. HasFuture(profiles, whole) = HasFuture(profiles, mapping)
    BY <2>3 DEF HasFuture
  <2> QED
    BY <1>5, <2>1, <2>4 DEF HeldBack
<1>12. Cardinality(DOMAIN profiles) <= MaxRoleColumns => Requestable(plan)
  <2>1. ASSUME NEW r \in Roles
        PROVE  Cardinality(plan[r]) \in Nat /\ Cardinality(plan[r]) <= Cardinality(DOMAIN profiles)
    <3>1. plan[r] \in SUBSET DOMAIN profiles
      BY <1>8, ColumnsOf
    <3> QED
      BY <3>1, FS_Subset, FS_CardinalityType
  <2>2. Cardinality(DOMAIN profiles) \in Nat
    BY FS_CardinalityType
  <2>3. FeatureRoles \cup {"excluded"} \subseteq Roles
    BY RoleSets
  <2> QED
    BY <1>2, <2>1, <2>2, <2>3, RoleAssumption DEF Requestable
<1>13. ~Attention(profiles, plan) =>
         /\ \A c \in plan["target"] : profiles[c].bad = "none"
         /\ \A c \in Columns(plan, FeatureRoles) : ~profiles[c].nulls
  <2>1. \A c \in plan["target"] : c \in DOMAIN profiles
    BY <1>3, ColumnsOf, RoleSets
  <2> QED
    BY <1>3, <2>1 DEF Attention
<1> QED
  BY <1>8, <1>9, <1>10, <1>11, <1>12, <1>13

\* The profile of a file that has every target is the profile of one without future
\* rows, and so its plan uses no feature and holds no day back.
LEMMA PlanWithoutFuture ==
  ASSUME NEW i, IsPanel(i), NEW panel, panel = i.panel,
         \A k \in Rows(panel) : panel.cells[k[1]][k[2]].target # Missing
  PROVE  /\ Planned(panel).end = LastDay(panel) - 0
         /\ Planned(panel).features = FALSE
         /\ Planned(panel).cells = panel.cells
<1> DEFINE profiles == PanelProfiles(panel)
           whole == Completed(profiles, PanelMapping)
<1>1. profiles[3].nulls = FALSE
  BY DEF PanelProfiles
<1>2. PanelMapping["target"] = {3} /\ DOMAIN PanelMapping = Roles
  BY RoleSets DEF PanelMapping
<1>3. whole["target"] = {3}
  BY <1>2, RoleSets DEF Completed
<1> HIDE DEF profiles
<1>4. ~HasFuture(profiles, whole) /\ ~HasFuture(profiles, PanelMapping)
  BY <1>1, <1>2, <1>3 DEF HasFuture, TheColumn
<1> HIDE DEF whole
<1>5. HeldBack(profiles, PanelMapping) = 0
  BY <1>4 DEF HeldBack
<1>6. DraftMapping(profiles, PanelMapping) = Demoted(whole, FeatureRoles)
  BY <1>4 DEF DraftMapping, Guarded, whole
<1>7. \A r \in FutureRoles : DraftMapping(profiles, PanelMapping)[r] = {}
  BY <1>6, DemotedRoles, RoleSets
<1>8. Columns(DraftMapping(profiles, PanelMapping), FutureRoles) = {}
  BY <1>7, ColumnsOf
<1>9. DOMAIN panel = {"end", "cells", "features"}
  BY DEF IsPanel
<1> QED
  BY <1>5, <1>8, <1>9 DEF Planned, profiles

LEMMA FiniteImage ==
  ASSUME NEW f, IsFiniteSet(DOMAIN f)
  PROVE  IsFiniteSet({f[x] : x \in DOMAIN f})
<1> DEFINE image == {f[x] : x \in DOMAIN f}
           g == [x \in DOMAIN f |-> f[x]]
<1>1. g \in Surjection(DOMAIN f, image)
  BY DEF Surjection
<1> HIDE DEF g, image
<1>2. Surjection(DOMAIN f, image) # {}
  BY <1>1
<1> QED
  BY <1>2, FS_Surjection DEF image

\* A file has a last day, unless it has no row.
LEMMA LastDayOf ==
  ASSUME NEW i, IsPanel(i), NEW panel, panel = i.panel, Rows(panel) # {}
  PROVE  /\ LastDay(panel) \in Int
         /\ \A k \in Rows(panel) : k[2] \in Int /\ k[2] <= LastDay(panel)
         /\ \E k \in Rows(panel) : k[2] = LastDay(panel)
<1> DEFINE domains == [e \in DOMAIN panel.cells |-> DOMAIN panel.cells[e]]
           all == {domains[e] : e \in DOMAIN domains}
           days == {k[2] : k \in Rows(panel)}
<1>1. /\ IsFiniteSet(DOMAIN panel.cells)
      /\ \A e \in DOMAIN panel.cells :
           IsFiniteSet(DOMAIN panel.cells[e]) /\ DOMAIN panel.cells[e] \subseteq Int
  BY DEF IsPanel
<1>2. IsFiniteSet(all)
  <2>1. IsFiniteSet(DOMAIN domains)
    BY <1>1
  <2> HIDE DEF domains
  <2> QED
    BY <2>1, FiniteImage
<1>3. \A D \in all : IsFiniteSet(D) /\ D \subseteq Int
  BY <1>1
<1>4. days \in SUBSET UNION all
  <2>1. \A k \in Rows(panel) : k[1] \in DOMAIN panel.cells /\ k[2] \in DOMAIN panel.cells[k[1]]
    BY DEF Rows, Entities
  <2> QED
    BY <2>1
<1>5. days # {}
  OBVIOUS
<1> HIDE DEF all
<1>6. IsFiniteSet(UNION all)
  BY <1>2, <1>3, FS_UNION
<1> HIDE DEF days
<1>7. IsFiniteSet(days) /\ days \in SUBSET Int
  BY <1>3, <1>4, <1>6, FS_Subset
<1>8. Max(days) \in Int /\ Max(days) \in days /\ \A d \in days : d \in Int /\ d <= Max(days)
  BY <1>5, <1>7, GreatestInteger
<1>9. \A k \in Rows(panel) : k[2] \in days
  BY DEF days
<1>10. \E k \in Rows(panel) : k[2] = Max(days)
  BY <1>8 DEF days
<1> QED
  BY <1>8, <1>9, <1>10 DEF LastDay, days

\* The profile of any other file holds the last days back and keeps the covariate.
LEMMA PlanWithFuture ==
  ASSUME NEW i, IsPanel(i), NEW panel, panel = i.panel, ~Historical(panel)
  PROVE  /\ Planned(panel).end = LastDay(panel) - Horizon
         /\ Planned(panel).features = TRUE
         /\ Planned(panel).cells = panel.cells
<1> DEFINE profiles == PanelProfiles(panel)
           whole == Completed(profiles, PanelMapping)
<1>1. profiles[3].nulls = TRUE
  BY DEF PanelProfiles, Historical, TargetOf
<1>0. "known_future_numeric" \in Roles
  BY DEF Roles, FeatureRoles, FutureRoles
<1>2. /\ PanelMapping["target"] = {3} /\ DOMAIN PanelMapping = Roles
      /\ PanelMapping["known_future_numeric"] = {4}
  BY <1>0, RoleSets DEF PanelMapping
<1>3. whole["target"] = {3} /\ whole["known_future_numeric"] = {4}
  BY <1>0, <1>2, RoleSets DEF Completed
<1> HIDE DEF profiles
<1>4. HasFuture(profiles, whole) /\ HasFuture(profiles, PanelMapping)
  BY <1>1, <1>2, <1>3 DEF HasFuture, TheColumn
<1> HIDE DEF whole
<1>5. HeldBack(profiles, PanelMapping) = Horizon
  BY <1>4 DEF HeldBack
<1>6. DraftMapping(profiles, PanelMapping) = Demoted(whole, StaticRoles)
  BY <1>4 DEF DraftMapping, Guarded, whole
<1>7. /\ "known_future_numeric" \in FutureRoles /\ "known_future_numeric" \in Roles
      /\ "known_future_numeric" \notin StaticRoles /\ "known_future_numeric" # "excluded"
  BY DEF FutureRoles, StaticRoles, Roles, FeatureRoles
<1>8. DraftMapping(profiles, PanelMapping)["known_future_numeric"] = {4}
  BY <1>3, <1>6, <1>7 DEF Demoted
<1>9. Columns(DraftMapping(profiles, PanelMapping), FutureRoles) # {}
  BY <1>7, <1>8, ColumnsOf
<1>10. DOMAIN panel = {"end", "cells", "features"}
  BY DEF IsPanel
<1> QED
  BY <1>5, <1>9, <1>10 DEF Planned, profiles

LEMMA RowsAre ==
  ASSUME NEW panel, NEW e, NEW d
  PROVE  <<e, d>> \in Rows(panel) <=>
           /\ e \in DOMAIN panel.cells /\ d \in DOMAIN panel.cells[e]
           /\ panel.cells[e][d].row
BY DEF Rows, Entities

\* Every row is an entity's on a day.
LEMMA RowsPaired ==
  ASSUME NEW panel, NEW k \in Rows(panel)
  PROVE  k = <<k[1], k[2]>> /\ <<k[1], k[2]>> \in Rows(panel)
BY DEF Rows

\* A file that has every target is not refused for its plan.
LEMMA HistoryRuns ==
  ASSUME NEW i, IsFile(i), NEW panel, panel = i.panel, Rows(panel) # {}, Historical(panel)
  PROVE  ~Refused(Planned(panel))
<1> DEFINE plan == Planned(panel)
<1>1. IsPanel(i)
  BY DEF IsFile
<1>2. /\ LastDay(panel) \in Int
      /\ \A k \in Rows(panel) : k[2] \in Int /\ k[2] <= LastDay(panel)
      /\ \E k \in Rows(panel) : k[2] = LastDay(panel)
  BY <1>1, LastDayOf
<1>3. \A k \in Rows(panel) : panel.cells[k[1]][k[2]].target # Missing
  BY DEF Historical, TargetOf
<1>4. plan.end = LastDay(panel) /\ plan.features = FALSE /\ plan.cells = panel.cells
  <2>1. /\ plan.end = LastDay(panel) - 0 /\ plan.features = FALSE
        /\ plan.cells = panel.cells
    BY <1>1, <1>3, PlanWithoutFuture
  <2> HIDE DEF plan
  <2> QED
    BY <1>2, <2>1
<1> HIDE DEF plan
<1>5. ASSUME NEW e \in DOMAIN panel.cells
      PROVE  /\ \E d \in History(plan, e) : panel.cells[e][d].target # Missing
             /\ \A d \in FutureDays(plan) : panel.cells[e][d].target = Missing
  <2>1. PICK a \in DOMAIN panel.cells[e] : panel.cells[e][a].row
    BY DEF IsFile
  <2>2. <<e, a>> \in Rows(panel)
    BY <2>1, RowsAre
  <2>3. a <= LastDay(panel) /\ panel.cells[e][a].target # Missing
    BY <1>2, <1>3, <2>2
  <2>4. a \in History(plan, e)
    BY <1>4, <2>1, <2>3 DEF History
  <2>5. PICK k \in Rows(panel) : k[2] = LastDay(panel)
    BY <1>2
  <2>6. LastDay(panel) - Horizon .. LastDay(panel) + Horizon \subseteq DOMAIN panel.cells[e]
    BY <2>5 DEF IsFile
  <2>7. ASSUME NEW d \in FutureDays(plan)
        PROVE  panel.cells[e][d].target = Missing
    <3>1. Horizon \in Nat
      BY PanelAssumption
    <3>2. d \in LastDay(panel) + 1 .. LastDay(panel) + Horizon
      BY <1>4 DEF FutureDays
    <3>3. d \in DOMAIN panel.cells[e] /\ ~(d <= LastDay(panel))
      BY <1>2, <2>6, <3>1, <3>2
    <3>4. ~panel.cells[e][d].row
      <4>1. <<e, d>> \in Rows(panel) => <<e, d>>[2] <= LastDay(panel)
        BY <1>2
      <4> QED
        BY <3>3, <4>1, RowsAre
    <3>5. panel.cells[e][d] = NoRow
      BY <1>1, <3>3, <3>4 DEF IsPanel
    <3> QED
      BY <3>5 DEF NoRow
  <2> QED
    BY <2>3, <2>4, <2>7
<1>6. PICK e \in DOMAIN panel.cells : TRUE
  BY DEF Rows, Entities
<1>7. \E d \in History(plan, e) : plan.cells[e][d].target # Missing
  BY <1>4, <1>5
<1>8. \A a \in DOMAIN plan.cells :
        /\ History(plan, a) # {}
        /\ \A d \in FutureDays(plan) : plan.cells[a][d].target = Missing
  BY <1>4, <1>5
<1>9. ~Refused(plan)
  BY <1>4, <1>7, <1>8, Zenon DEF Refused, Entities
<1> QED
  BY <1>9 DEF plan

\* Any other file runs if, and only if, what is held back are its future rows.
LEMMA FutureRuns ==
  ASSUME NEW i, IsFile(i), NEW panel, panel = i.panel, Rows(panel) # {}, ~Historical(panel)
  PROVE  ~Refused(Planned(panel)) <=> EndsInFuture(panel)
<1> DEFINE plan == Planned(panel)
           last == LastDay(panel)
           future == last - Horizon + 1 .. last
           past == {k \in Rows(panel) : k[2] \notin future}
<1>1. IsPanel(i) /\ Horizon \in Nat \ {0}
  BY PanelAssumption DEF IsFile
<1>2. /\ last \in Int
      /\ \A k \in Rows(panel) : k[2] \in Int /\ k[2] <= last
      /\ \E k \in Rows(panel) : k[2] = last
  BY <1>1, LastDayOf
<1>3. plan.end = last - Horizon /\ plan.features = TRUE /\ plan.cells = panel.cells
  BY <1>1, PlanWithFuture
<1> HIDE DEF plan, last
<1>4. FutureDays(plan) = future
  BY <1>1, <1>2, <1>3 DEF FutureDays
<1>5. \A e \in DOMAIN panel.cells : \A d \in future :
        /\ d \in DOMAIN panel.cells[e]
        /\ ~panel.cells[e][d].row => panel.cells[e][d].target = Missing
  <2> TAKE e \in DOMAIN panel.cells
  <2> TAKE d \in future
  <2>1. PICK k \in Rows(panel) : k[2] = last
    BY <1>2
  <2>2. last - Horizon .. last + Horizon \subseteq DOMAIN panel.cells[e]
    BY <2>1 DEF IsFile
  <2>3. d \in DOMAIN panel.cells[e]
    BY <1>1, <1>2, <2>2
  <2>4. ~panel.cells[e][d].row => panel.cells[e][d] = NoRow
    BY <1>1, <2>3 DEF IsPanel
  <2> QED
    BY <2>3, <2>4 DEF NoRow
<1>6. \A e \in DOMAIN panel.cells : \A d :
        <<e, d>> \in past <=> d \in History(plan, e)
  <2> TAKE e \in DOMAIN panel.cells
  <2> TAKE d
  <2>1. <<e, d>> \in Rows(panel) <=> d \in DOMAIN panel.cells[e] /\ panel.cells[e][d].row
    BY RowsAre
  <2>2. <<e, d>> \in Rows(panel) => d \in Int /\ d <= last
    BY <1>2
  <2>3. <<e, d>> \in Rows(panel) => (d \notin future <=> d <= last - Horizon)
    BY <1>1, <1>2, <2>2
  <2> QED
    BY <1>3, <2>1, <2>3 DEF History
<1>7. \A k \in past : k = <<k[1], k[2]>> /\ k[1] \in DOMAIN panel.cells
  BY RowsPaired, RowsAre
<1>8. \A k \in Rows(panel) : k[1] \in DOMAIN panel.cells
  BY RowsPaired, RowsAre
<1> DEFINE Quiet == \A e \in DOMAIN panel.cells : \A d \in future :
                      panel.cells[e][d].target = Missing
           Seen == \E e \in DOMAIN panel.cells : \E d \in History(plan, e) :
                     panel.cells[e][d].target # Missing
           Begun == \A e \in DOMAIN panel.cells : History(plan, e) # {}
           Given == \A e \in DOMAIN panel.cells : \A d \in future :
                      panel.cells[e][d].row /\ panel.cells[e][d].known
<1>9. ~Refused(plan) <=> Quiet /\ Seen /\ Begun /\ Given
  BY <1>3, <1>4 DEF Refused, Entities
<1>10. Quiet <=> \A k \in Rows(panel) \ past : TargetOf(panel, k) = Missing
  <2>1. ASSUME Quiet, NEW k \in Rows(panel) \ past
        PROVE  TargetOf(panel, k) = Missing
    BY <1>8, <2>1 DEF TargetOf
  <2>2. ASSUME \A k \in Rows(panel) \ past : TargetOf(panel, k) = Missing,
               NEW e \in DOMAIN panel.cells, NEW d \in future
        PROVE  panel.cells[e][d].target = Missing
    <3>1. panel.cells[e][d].row => <<e, d>> \in Rows(panel) \ past
      BY <1>5, RowsAre
    <3>2. panel.cells[e][d].row => TargetOf(panel, <<e, d>>) = Missing
      BY <2>2, <3>1
    <3> QED
      BY <1>5, <3>2 DEF TargetOf
  <2> QED
    BY <2>1, <2>2
<1>11. Seen <=> \E k \in past : TargetOf(panel, k) # Missing
  <2>1. ASSUME Seen PROVE \E k \in past : TargetOf(panel, k) # Missing
    <3>0. PICK e \in DOMAIN panel.cells :
            \E d \in History(plan, e) : panel.cells[e][d].target # Missing
      BY <2>1
    <3>1. PICK d \in History(plan, e) : panel.cells[e][d].target # Missing
      BY <3>0
    <3>2. <<e, d>> \in past /\ TargetOf(panel, <<e, d>>) # Missing
      BY <1>6, <3>1 DEF TargetOf
    <3> HIDE DEF past
    <3> QED
      BY <3>2
  <2>2. ASSUME NEW k \in past, TargetOf(panel, k) # Missing PROVE Seen
    <3>1. k[2] \in History(plan, k[1]) /\ k[1] \in DOMAIN panel.cells
      BY <1>6, <1>7
    <3> QED
      BY <2>2, <3>1 DEF TargetOf
  <2> QED
    BY <2>1, <2>2
<1>12. Begun <=> \A e \in DOMAIN panel.cells : \E k \in past : k[1] = e
  <2>1. ASSUME NEW e \in DOMAIN panel.cells, History(plan, e) # {}
        PROVE  \E k \in past : k[1] = e
    <3>1. PICK d \in History(plan, e) : TRUE
      BY <2>1
    <3>2. <<e, d>> \in past
      BY <1>6, <3>1
    <3> HIDE DEF past
    <3> QED
      BY <3>2
  <2>2. ASSUME NEW e \in DOMAIN panel.cells, NEW k \in past, k[1] = e
        PROVE  History(plan, e) # {}
    BY <1>6, <1>7, <2>2
  <2> QED
    BY <2>1, <2>2
<1>13. Given <=> \A e \in DOMAIN panel.cells : \A d \in future :
                   <<e, d>> \in Rows(panel) /\ panel.cells[e][d].known
  BY <1>5, RowsAre
<1>14. EndsInFuture(panel) <=>
         /\ \A k \in Rows(panel) \ past : TargetOf(panel, k) = Missing
         /\ \E k \in past : TargetOf(panel, k) # Missing
         /\ \A e \in DOMAIN panel.cells : \E k \in past : k[1] = e
         /\ \A e \in DOMAIN panel.cells : \A d \in future :
              <<e, d>> \in Rows(panel) /\ panel.cells[e][d].known
  BY Zenon DEF EndsInFuture, Entities, last
<1> HIDE DEF Quiet, Seen, Begun, Given, past, future
<1>15. ~Refused(plan) <=> EndsInFuture(panel)
  BY <1>9, <1>10, <1>11, <1>12, <1>13, <1>14
<1> QED
  BY <1>15 DEF plan

LEMMA FileRuns ==
  ASSUME NEW i, IsFile(i)
  PROVE  PlanRuns(i.panel)
BY HistoryRuns, FutureRuns DEF PlanRuns

\* What a signal adds to the score of an adapter
LEMMA CountedAre ==
  ASSUME NEW signals, NEW flags
  PROVE  LET counted == Counted(signals, flags)
         IN /\ "base" \in counted /\ \A s \in flags : s \in counted
            /\ \A s \in counted :
                 s \in flags
                   \/ s \in {"base", "small", "large", "long", "future", "embeddings"}
            /\ "small" \in counted => "small" \in flags \/ signals.rows <= 1000
            /\ "large" \in counted => "large" \in flags \/ signals.rows >= 5000
<1> DEFINE counted == Counted(signals, flags)
           T2 == {s \in {"small"} : 0 < signals.rows /\ signals.rows <= 1000}
           T3 == {s \in {"large"} : signals.rows >= 5000}
           T4 == {s \in {"long"} : signals.history >= 365}
           T5 == {s \in {"future"} : signals.future}
           T6 == {s \in {"embeddings"} : signals.embeddings}
<1>1. counted = {"base"} \cup flags \cup T2 \cup T3 \cup T4 \cup T5 \cup T6
  BY DEF Counted
<1>2. /\ \A s \in T2 : s = "small" /\ signals.rows <= 1000
      /\ \A s \in T3 : s = "large" /\ signals.rows >= 5000
      /\ \A s \in T4 : s = "long"
  OBVIOUS
<1>3. \A s \in T5 : s = "future"
  BY Zenon
<1>4. \A s \in T6 : s = "embeddings"
  BY Zenon
<1> HIDE DEF T2, T3, T4, T5, T6, counted
<1>5. \A s : s \in counted <=>
        \/ s = "base" \/ s \in flags \/ s \in T2 \/ s \in T3 \/ s \in T4 \/ s \in T5 \/ s \in T6
  BY <1>1
<1>6. "base" \in counted /\ \A s \in flags : s \in counted
  BY <1>5
<1>7. \A s \in counted :
        s \in flags \/ s \in {"base", "small", "large", "long", "future", "embeddings"}
  BY <1>2, <1>3, <1>4, <1>5
<1>8. "small" \in counted => "small" \in flags \/ signals.rows <= 1000
  BY <1>2, <1>3, <1>4, <1>5
<1>9. "large" \in counted => "large" \in flags \/ signals.rows >= 5000
  BY <1>2, <1>3, <1>4, <1>5
<1> QED
  BY <1>6, <1>7, <1>8, <1>9 DEF counted

PointsIf(counted, s, a) == IF s \in counted THEN Points[s][a] ELSE 0

\* The score of an adapter, for an objective with one wish
LEMMA ScoreIs ==
  ASSUME NEW i, IsAdvice(i), NEW wish \in {"fast", "uncertainty", "immediate"},
         NEW a \in 1 .. 3, NEW counted, counted = Counted(i.signals, {wish})
  PROVE  Score(i.signals, {wish}, a) =
           Points["base"][a] + Points[wish][a]
             + PointsIf(counted, "small", a)
             + PointsIf(counted, "large", a)
             + PointsIf(counted, "long", a)
             + PointsIf(counted, "future", a)
             + PointsIf(counted, "embeddings", a)
<1> DEFINE f == [s \in DOMAIN Points |-> Points[s][a]]
           g == [s \in counted |-> Points[s][a]]
           T2 == counted \cap {"small"}
           T3 == counted \cap {"large"}
           T4 == counted \cap {"long"}
           T5 == counted \cap {"future"}
           T6 == counted \cap {"embeddings"}
           S1 == {"base"} \cup {wish}
           S2 == S1 \cup T2
           S3 == S2 \cup T3
           S4 == S3 \cup T4
           S5 == S4 \cup T5
           S6 == S5 \cup T6
<1>1. /\ \A s \in {"base", "small", "large", "long", "future", "embeddings", wish} :
           f[s] = Points[s][a] /\ f[s] \in Int
  BY DEF Points
<1>2. /\ \A s \in counted : s \in {"base", wish, "small", "large", "long", "future", "embeddings"}
      /\ "base" \in counted /\ wish \in counted
  BY CountedAre
<1>3. counted = S6
  <2>1. \A s \in counted : s \in S6
    BY <1>2
  <2>2. \A s \in S6 : s \in counted
    BY <1>2
  <2> QED
    BY <2>1, <2>2
<1>4. IsFiniteSet({"base"}) /\ Sum(f, {"base"}) = f["base"]
  <2>1. IsFiniteSet({"base"})
    BY FS_Singleton
  <2>2. "base" \in {"base"} /\ {"base"} \ {"base"} = {} /\ f["base"] \in Int
    BY <1>1
  <2> HIDE DEF f
  <2>3. Sum(f, {"base"}) = f["base"] + Sum(f, {})
    <3>1. \A x \in {"base"} : f[x] \in Int
      BY <2>2
    <3> QED
      BY <2>1, <2>2, <3>1, SumRemove
  <2> QED
    BY <2>1, <2>2, <2>3, SumEmpty
<1> HIDE DEF f
<1>5. /\ IsFiniteSet(S1) /\ \A s \in S1 : f[s] \in Int
      /\ Sum(f, S1) = f["base"] + f[wish] /\ Sum(f, S1) \in Int
  <2>1. wish \notin {"base"} /\ \A s \in {"base"} : f[s] \in Int
    BY <1>1
  <2>2. {wish} = {} \/ {wish} = {wish}
    OBVIOUS
  <2>3. {wish} # {}
    OBVIOUS
  <2>4. f[wish] \in Int /\ f["base"] \in Int
    BY <1>1
  <2> DEFINE one == {"base"}
             two == {wish}
  <2> HIDE DEF one, two
  <2>5. /\ IsFiniteSet(one \cup two) /\ \A s \in one \cup two : f[s] \in Int
        /\ Sum(f, one \cup two) = Sum(f, one) + (IF two = {} THEN 0 ELSE f[wish])
    <3>1. /\ IsFiniteSet(one) /\ \A s \in one : f[s] \in Int
          /\ wish \notin one /\ f[wish] \in Int
      BY <1>4, <2>1, <2>4 DEF one
    <3>2. two = {} \/ two = {wish}
      BY DEF two
    <3> DEFINE w == wish
    <3>3. w \notin one /\ f[w] \in Int /\ (two = {} \/ two = {w})
      BY <3>1, <3>2
    <3> HIDE DEF w
    <3>4. Sum(f, one \cup two) = Sum(f, one) + (IF two = {} THEN 0 ELSE f[w])
      BY <3>1, <3>3, SumAdd
    <3>5. IsFiniteSet(one \cup two) /\ \A s \in one \cup two : f[s] \in Int
      BY <3>1, <3>3, SumAdd
    <3> QED
      BY <3>4, <3>5 DEF w
  <2>6. Sum(f, one) = f["base"] /\ two # {} /\ S1 = one \cup two
    BY <1>4, <2>3 DEF one, two
  <2> HIDE DEF S1
  <2>7. Sum(f, S1) = f["base"] + f[wish]
    BY <2>5, <2>6
  <2>8. Sum(f, S1) \in Int
    BY <2>4, <2>7
  <2> QED
    BY <2>5, <2>6, <2>7, <2>8
<1>6. /\ T2 = {} \/ T2 = {"small"}
      /\ T3 = {} \/ T3 = {"large"}
      /\ T4 = {} \/ T4 = {"long"}
      /\ T5 = {} \/ T5 = {"future"}
      /\ T6 = {} \/ T6 = {"embeddings"}
  <2>1. \A x : counted \cap {x} = {} \/ counted \cap {x} = {x}
    OBVIOUS
  <2> QED
    BY <2>1
<1>7. /\ "small" \notin S1 /\ "large" \notin S2 /\ "long" \notin S3
      /\ "future" \notin S4 /\ "embeddings" \notin S5
  <2>1. \A x : x \in S1 <=> x = "base" \/ x = wish
    OBVIOUS
  <2>2. /\ \A x : x \in T2 => x = "small"
        /\ \A x : x \in T3 => x = "large"
        /\ \A x : x \in T4 => x = "long"
        /\ \A x : x \in T5 => x = "future"
    OBVIOUS
  <2> HIDE DEF T2, T3, T4, T5, S1
  <2>3. "small" \notin S1
    BY <2>1
  <2>4. "large" \notin S2
    BY <2>1, <2>2
  <2>5. "long" \notin S3
    BY <2>1, <2>2
  <2>6. "future" \notin S4
    BY <2>1, <2>2
  <2>7. "embeddings" \notin S5
    BY <2>1, <2>2
  <2> QED
    BY <2>3, <2>4, <2>5, <2>6, <2>7
<1>8. /\ T2 = {} <=> "small" \notin counted
      /\ T3 = {} <=> "large" \notin counted
      /\ T4 = {} <=> "long" \notin counted
      /\ T5 = {} <=> "future" \notin counted
      /\ T6 = {} <=> "embeddings" \notin counted
  <2>1. \A x : counted \cap {x} = {} <=> x \notin counted
    OBVIOUS
  <2> QED
    BY <2>1
<1> HIDE DEF T2, T3, T4, T5, T6, S1
<1>9. f["small"] \in Int /\ f["large"] \in Int /\ f["long"] \in Int
        /\ f["future"] \in Int /\ f["embeddings"] \in Int
  BY <1>1
<1>10. /\ IsFiniteSet(S2) /\ \A s \in S2 : f[s] \in Int
       /\ Sum(f, S2) = Sum(f, S1) + (IF T2 = {} THEN 0 ELSE f["small"])
  <2>1. "small" \notin S1 /\ f["small"] \in Int
    BY <1>7, <1>9
  <2>2. T2 = {} \/ T2 = {"small"}
    BY <1>6
  <2> QED
    BY <1>5, <2>1, <2>2, SumAdd
<1> HIDE DEF S2
<1>11. /\ IsFiniteSet(S3) /\ \A s \in S3 : f[s] \in Int
       /\ Sum(f, S3) = Sum(f, S2) + (IF T3 = {} THEN 0 ELSE f["large"])
  <2>1. "large" \notin S2 /\ f["large"] \in Int
    BY <1>7, <1>9
  <2>2. T3 = {} \/ T3 = {"large"}
    BY <1>6
  <2> QED
    BY <1>10, <2>1, <2>2, SumAdd
<1> HIDE DEF S3
<1>12. /\ IsFiniteSet(S4) /\ \A s \in S4 : f[s] \in Int
       /\ Sum(f, S4) = Sum(f, S3) + (IF T4 = {} THEN 0 ELSE f["long"])
  <2>1. "long" \notin S3 /\ f["long"] \in Int
    BY <1>7, <1>9
  <2>2. T4 = {} \/ T4 = {"long"}
    BY <1>6
  <2> QED
    BY <1>11, <2>1, <2>2, SumAdd
<1> HIDE DEF S4
<1>13. /\ IsFiniteSet(S5) /\ \A s \in S5 : f[s] \in Int
       /\ Sum(f, S5) = Sum(f, S4) + (IF T5 = {} THEN 0 ELSE f["future"])
  <2>1. "future" \notin S4 /\ f["future"] \in Int
    BY <1>7, <1>9
  <2>2. T5 = {} \/ T5 = {"future"}
    BY <1>6
  <2> QED
    BY <1>12, <2>1, <2>2, SumAdd
<1> HIDE DEF S5
<1>14. /\ IsFiniteSet(S6) /\ \A s \in S6 : f[s] \in Int
       /\ Sum(f, S6) = Sum(f, S5) + (IF T6 = {} THEN 0 ELSE f["embeddings"])
  <2>1. "embeddings" \notin S5 /\ f["embeddings"] \in Int
    BY <1>7, <1>9
  <2>2. T6 = {} \/ T6 = {"embeddings"}
    BY <1>6
  <2> QED
    BY <1>13, <2>1, <2>2, SumAdd
<1> HIDE DEF S6
<1>15. Score(i.signals, {wish}, a) = Sum(f, S6)
  <2>1. Score(i.signals, {wish}, a) = Sum(g, counted)
    <3>1. DOMAIN g = counted
      OBVIOUS
    <3>2. Score(i.signals, {wish}, a) = SumFunction(g)
      BY DEF Score
    <3> QED
      BY <3>1, <3>2, FunctionSums
  <2>2. \A s \in counted : g[s] = f[s]
    <3>1. counted \subseteq DOMAIN Points
      BY <1>2 DEF Points
    <3> QED
      BY <3>1 DEF f
  <2> HIDE DEF g
  <2>3. Sum(g, counted) = Sum(f, counted)
    BY <1>3, <1>14, <2>2, SumAgree
  <2> QED
    BY <1>3, <2>1, <2>3
<1>16. /\ f["base"] = Points["base"][a] /\ f[wish] = Points[wish][a]
       /\ f["small"] = Points["small"][a] /\ f["large"] = Points["large"][a]
       /\ f["long"] = Points["long"][a] /\ f["future"] = Points["future"][a]
       /\ f["embeddings"] = Points["embeddings"][a]
  BY <1>1
<1>17. /\ (IF T2 = {} THEN 0 ELSE f["small"]) = PointsIf(counted, "small", a)
       /\ (IF T3 = {} THEN 0 ELSE f["large"]) = PointsIf(counted, "large", a)
       /\ (IF T4 = {} THEN 0 ELSE f["long"]) = PointsIf(counted, "long", a)
       /\ (IF T5 = {} THEN 0 ELSE f["future"]) = PointsIf(counted, "future", a)
       /\ (IF T6 = {} THEN 0 ELSE f["embeddings"])
            = PointsIf(counted, "embeddings", a)
  BY <1>8, <1>16 DEF PointsIf
<1>18. Score(i.signals, {wish}, a) =
         f["base"] + f[wish]
           + PointsIf(counted, "small", a)
           + PointsIf(counted, "large", a)
           + PointsIf(counted, "long", a)
           + PointsIf(counted, "future", a)
           + PointsIf(counted, "embeddings", a)
  BY <1>5, <1>10, <1>11, <1>12, <1>13, <1>14, <1>15, <1>17
<1> QED
  BY <1>16, <1>18

LEMMA ScoreInteger ==
  ASSUME NEW i, IsAdvice(i), NEW wish \in {"fast", "uncertainty", "immediate"},
         NEW a \in 1 .. 3, NEW counted, counted = Counted(i.signals, {wish})
  PROVE  Score(i.signals, {wish}, a) \in Int
<1>1. \A s \in DOMAIN Points : Points[s][a] \in Int
  BY DEF Points
<1>2. wish \in DOMAIN Points
        /\ {"base", "small", "large", "long", "future", "embeddings"} \subseteq DOMAIN Points
  BY DEF Points
<1>3. Score(i.signals, {wish}, a) =
        Points["base"][a] + Points[wish][a]
          + PointsIf(counted, "small", a)
          + PointsIf(counted, "large", a)
          + PointsIf(counted, "long", a)
          + PointsIf(counted, "future", a)
          + PointsIf(counted, "embeddings", a)
  BY ScoreIs
<1>4. /\ PointsIf(counted, "small", a) \in Int
      /\ PointsIf(counted, "large", a) \in Int
      /\ PointsIf(counted, "long", a) \in Int
      /\ PointsIf(counted, "future", a) \in Int
      /\ PointsIf(counted, "embeddings", a) \in Int
  BY <1>1, <1>2 DEF PointsIf
<1> QED
  BY <1>1, <1>2, <1>3, <1>4

LEMMA AdviceIs ==
  ASSUME NEW i, IsAdvice(i)
  PROVE  AdviceFollows(i.signals)
<1> DEFINE score(wish, a) == Score(i.signals, {wish}, a)
<1>1. ASSUME NEW wish \in {"fast", "uncertainty", "immediate"}
      PROVE  ~({"small", "large"} \subseteq Counted(i.signals, {wish}))
  <2>1. i.signals.rows \in Nat
    BY DEF IsAdvice
  <2>2. ~(i.signals.rows <= 1000 /\ i.signals.rows >= 5000)
    <3>1. \A n \in Nat : ~(n <= 1000 /\ n >= 5000)
      OBVIOUS
    <3> QED
      BY <2>1, <3>1
  <2>3. /\ "small" \in Counted(i.signals, {wish}) => i.signals.rows <= 1000
        /\ "large" \in Counted(i.signals, {wish}) => i.signals.rows >= 5000
    <3> DEFINE flags == {wish}
    <3>1. "small" \notin flags /\ "large" \notin flags
      OBVIOUS
    <3> HIDE DEF flags
    <3>2. /\ "small" \in Counted(i.signals, flags) => i.signals.rows <= 1000
          /\ "large" \in Counted(i.signals, flags) => i.signals.rows >= 5000
      BY <3>1, CountedAre
    <3> QED
      BY <3>2 DEF flags
  <2> QED
    BY <2>2, <2>3
<1>2. /\ Points["base"] = <<60, 52, 50>> /\ Points["fast"] = <<25, 0, 0>>
      /\ Points["uncertainty"] = <<0, 0, 30>> /\ Points["immediate"] = <<0, 0, 25>>
      /\ Points["small"] = <<12, -8, 4>> /\ Points["large"] = <<5, 15, 0>>
      /\ Points["long"] = <<0, 12, 5>> /\ Points["future"] = <<10, 8, 4>>
      /\ Points["embeddings"] = <<0, 7, 0>>
  BY DEF Points
<1>3. \A wish \in {"fast", "uncertainty", "immediate"} : \A a \in 1 .. 3 :
        score(wish, a) \in Int
  BY ScoreInteger
<1>4. score("fast", 1) > score("fast", 2) /\ score("fast", 1) > score("fast", 3)
  <2> DEFINE counted == Counted(i.signals, {"fast"})
             given(s, a) == PointsIf(counted, s, a)
  <2>1. ~({"small", "large"} \subseteq counted)
    BY <1>1
  <2> HIDE DEF counted
  <2>2. \A a \in 1 .. 3 :
          score("fast", a) = Points["base"][a] + Points["fast"][a]
            + given("small", a) + given("large", a) + given("long", a)
            + given("future", a) + given("embeddings", a)
    BY ScoreIs DEF counted
  <2> HIDE DEF score
  <2> QED
    BY <1>2, <2>1, <2>2 DEF PointsIf
<1>5. ASSUME NEW wish \in {"uncertainty", "immediate"}
      PROVE  score(wish, 3) > score(wish, 1)
  <2> DEFINE counted == Counted(i.signals, {wish})
             given(s, a) == PointsIf(counted, s, a)
  <2>1. ~({"small", "large"} \subseteq counted)
    BY <1>1
  <2> HIDE DEF counted
  <2>2. \A a \in 1 .. 3 :
          score(wish, a) = Points["base"][a] + Points[wish][a]
            + given("small", a) + given("large", a) + given("long", a)
            + given("future", a) + given("embeddings", a)
    BY ScoreIs DEF counted
  <2> HIDE DEF score
  <2>3. Points[wish][1] = 0 /\ Points[wish][3] \in {25, 30}
    BY <1>2
  <2> QED
    BY <1>2, <2>1, <2>2, <2>3 DEF PointsIf
<1> HIDE DEF score
<1>6. Recommended(i.signals, {"fast"}) = 1
  <2> DEFINE first(a) == \A b \in (1 .. 3) \ {a} :
                           \/ score("fast", a) > score("fast", b)
                           \/ score("fast", a) = score("fast", b) /\ a < b
  <2>1. first(1) /\ ~first(2) /\ ~first(3)
    BY <1>3, <1>4
  <2>2. Recommended(i.signals, {"fast"}) = CHOOSE a \in 1 .. 3 : first(a)
    BY DEF Recommended, score
  <2> HIDE DEF first
  <2> QED
    BY <2>1, <2>2
<1>7. ASSUME NEW wish \in {"uncertainty", "immediate"}
      PROVE  Recommended(i.signals, {wish}) # 1
  <2> DEFINE first(a) == \A b \in (1 .. 3) \ {a} :
                           \/ score(wish, a) > score(wish, b)
                           \/ score(wish, a) = score(wish, b) /\ a < b
  <2>1. score(wish, 1) \in Int /\ score(wish, 2) \in Int /\ score(wish, 3) \in Int
    BY <1>3
  <2>2. ~first(1)
    BY <1>5, <2>1
  <2>3. \E a \in 1 .. 3 : first(a)
    BY <2>1
  <2>4. Recommended(i.signals, {wish}) = CHOOSE a \in 1 .. 3 : first(a)
    BY DEF Recommended, score
  <2> HIDE DEF first
  <2> QED
    BY <2>2, <2>3, <2>4
<1> QED
  BY <1>6, <1>7 DEF AdviceFollows

-----------------------------------------------------------------------------
(* The training of the neural net *)

\* At least one origin is taken, and no more rows than the budget allows are trained on.
LEMMA RowsBounded ==
  ASSUME NEW i, IsTraining(i)
  PROVE  BoundedRows(i.sizes) \in Int /\ BoundedRows(i.sizes) <= MaxTrainRows
<1> DEFINE sizes == i.sizes
           fitting == {n \in 1 .. Len(sizes) : Total(sizes, n) <= MaxTrainRows}
           taken == TakenOrigins(sizes)
           total == Total(sizes, taken)
           two == {total, MaxTrainRows}
<1>1. MaxTrainRows \in Nat
  BY PanelAssumption
<1>2. Len(sizes) \in Nat /\ Len(sizes) >= 1 /\ \A n \in 1 .. Len(sizes) : sizes[n] \in Nat
  <2>1. sizes \in Seq(Nat)
    BY DEF IsTraining
  <2>2. Len(sizes) \in Nat /\ sizes # <<>>
    BY <2>1 DEF IsTraining
  <2> HIDE DEF sizes
  <2>3. Len(sizes) # 0
    BY <2>1, <2>2, EmptySeq
  <2> QED
    BY <2>1, <2>2, <2>3
<1>3. taken \in 1 .. Len(sizes)
  <2> DEFINE some == {1} \cup fitting
  <2>1. some \in SUBSET (1 .. Len(sizes)) /\ some # {}
    BY <1>2
  <2>2. IsFiniteSet(1 .. Len(sizes)) /\ 1 .. Len(sizes) \in SUBSET Int
    BY <1>2, FS_Interval
  <2> HIDE DEF fitting
  <2>3. TakenOrigins(sizes) = Max(some)
    BY DEF TakenOrigins, fitting
  <2> HIDE DEF some, sizes
  <2>4. IsFiniteSet(some) /\ some \in SUBSET Int
    BY <2>1, <2>2, FS_Subset
  <2>5. Max(some) \in some
    BY <2>1, <2>4, GreatestInteger
  <2> QED
    BY <2>1, <2>3, <2>5
<1> HIDE DEF taken
<1>4. total \in Nat
  <2>1. IsFiniteSet(1 .. taken) /\ \A n \in 1 .. taken : sizes[n] \in Nat
    <3>1. taken \in Int
      BY <1>3
    <3>2. IsFiniteSet(1 .. taken)
      BY <3>1, FS_Interval
    <3> QED
      BY <1>2, <1>3, <3>2
  <2> HIDE DEF sizes
  <2>2. Sum(sizes, 1 .. taken) \in Nat
    BY <2>1, SumType
  <2> QED
    BY <2>2, FunctionSums DEF Total
<1> HIDE DEF total
<1>5. IsFiniteSet(two) /\ two # {} /\ two \in SUBSET Int
  <2>1. IsFiniteSet({total}) /\ IsFiniteSet({MaxTrainRows})
    BY FS_Singleton
  <2>2. two = {total} \cup {MaxTrainRows}
    OBVIOUS
  <2>3. IsFiniteSet({total} \cup {MaxTrainRows})
    BY <2>1, FS_Union
  <2> QED
    BY <1>1, <1>4, <2>2, <2>3
<1>6. BoundedRows(sizes) = Min(two)
  BY DEF BoundedRows, total, taken
<1>7. MaxTrainRows \in two
  OBVIOUS
<1> HIDE DEF two
<1>8. Min(two) \in two /\ Min(two) <= MaxTrainRows
  BY <1>5, <1>7, LeastInteger
<1> QED
  BY <1>5, <1>6, <1>8

\* How many batches there are
LEMMA BatchCount ==
  ASSUME NEW n \in Int, n >= 2, NEW count, count = (n + BatchSize - 1) \div BatchSize
  PROVE  /\ count \in Nat /\ count >= 1
         /\ BatchSize * (count - 1) < n /\ n <= BatchSize * count
<1>1. BatchSize \in Nat /\ BatchSize >= 3
  BY PanelAssumption
<1> DEFINE m == n + BatchSize - 1
<1>2. m \in Nat /\ m >= BatchSize
  BY <1>1
<1> HIDE DEF m
<1>3. /\ m \div BatchSize \in Int
      /\ BatchSize * (m \div BatchSize) <= m
      /\ m < BatchSize * (m \div BatchSize) + BatchSize
  BY <1>1, <1>2
<1>4. count \in Int /\ BatchSize * count <= m /\ m < BatchSize * count + BatchSize
  BY <1>3 DEF m
<1>5. count >= 1
  <2> SUFFICES ASSUME count <= 0
               PROVE  FALSE
    BY <1>4
  <2>1. BatchSize * count <= 0
    BY <1>1, <1>4
  <2>2. BatchSize * count \in Int
    BY <1>1, <1>4
  <2> QED
    BY <1>1, <1>2, <1>4, <2>1, <2>2
<1>6. BatchSize * count \in Int /\ BatchSize * (count - 1) = BatchSize * count - BatchSize
  BY <1>1, <1>4
<1> QED
  BY <1>1, <1>4, <1>5, <1>6 DEF m

LEMMA BatchesFitTraining ==
  ASSUME NEW i, IsTraining(i)
  PROVE  TrainingFits(i.sizes)
<1> DEFINE n == BoundedRows(i.sizes)
           batches == Batches(n)
           starts == BatchStarts(n)
           count == (n + BatchSize - 1) \div BatchSize
<1>1. n \in Int /\ n <= MaxTrainRows
  BY RowsBounded
<1> HIDE DEF n
<1> SUFFICES ASSUME n >= 2
             PROVE  /\ batches[1][1] = 0 /\ batches[Len(batches)][2] = n
                    /\ \A k \in DOMAIN batches :
                         /\ 2 <= batches[k][2] - batches[k][1]
                         /\ batches[k][2] - batches[k][1] <= BatchSize
                         /\ k > 1 => batches[k][1] = batches[k - 1][2]
  BY <1>1 DEF TrainingFits, n
<1>2. BatchSize \in Nat /\ BatchSize >= 3
  BY PanelAssumption
<1>3. /\ count \in Nat /\ count >= 1
      /\ BatchSize * (count - 1) < n /\ n <= BatchSize * count
  BY <1>1, BatchCount
<1>4. /\ starts = [k \in 1 .. count |->
                     IF k > 1 /\ k = count /\ n - (k - 1) * BatchSize = 1
                       THEN (k - 1) * BatchSize - 1
                       ELSE (k - 1) * BatchSize]
      /\ batches = [k \in DOMAIN starts |->
                      <<starts[k], IF k < Len(starts) THEN starts[k + 1] ELSE n>>]
  BY DEF BatchStarts, Batches
<1> HIDE DEF count, starts, batches
<1>5. DOMAIN starts = 1 .. count /\ Len(starts) = count
  BY <1>3, <1>4
<1>6. DOMAIN batches = 1 .. count /\ Len(batches) = count
  BY <1>3, <1>4, <1>5
<1>7. \A k \in 1 .. count :
        batches[k] = <<starts[k], IF k < count THEN starts[k + 1] ELSE n>>
  BY <1>4, <1>5
<1>8. \A k \in 1 .. count :
        starts[k] = IF k > 1 /\ k = count /\ n - (k - 1) * BatchSize = 1
                      THEN (k - 1) * BatchSize - 1
                      ELSE (k - 1) * BatchSize
  BY <1>4
<1>9. batches[1][1] = 0 /\ batches[Len(batches)][2] = n
  <2>1. 1 \in 1 .. count /\ count \in 1 .. count
    BY <1>3
  <2>2. starts[1] = 0
    BY <1>2, <1>8, <2>1
  <2> QED
    BY <1>6, <1>7, <2>1, <2>2
<1>10. ASSUME NEW k \in 1 .. count
       PROVE  /\ 2 <= batches[k][2] - batches[k][1]
              /\ batches[k][2] - batches[k][1] <= BatchSize
              /\ k > 1 => batches[k][1] = batches[k - 1][2]
  <2>0. k \in Int /\ 1 <= k /\ k <= count
    BY <1>3
  <2>1. k > 1 => batches[k][1] = batches[k - 1][2]
    <3>1. k > 1 => k - 1 \in 1 .. count /\ k - 1 < count /\ (k - 1) + 1 = k
      BY <1>3, <2>0
    <3> QED
      BY <1>7, <3>1
  <2>2. CASE k = count
    <3> DEFINE before == BatchSize * (count - 1)
    <3>1. before \in Int /\ (k - 1) * BatchSize = before
            /\ before < n /\ n <= before + BatchSize
      BY <1>2, <1>3, <2>2
    <3>2. k = 1 => before = 0
      BY <1>2, <2>2
    <3>3. batches[k] = <<starts[k], n>>
      BY <1>7, <2>2
    <3>4. starts[k] = IF k > 1 /\ n - before = 1 THEN before - 1 ELSE before
      BY <1>8, <2>2, <3>1
    <3> HIDE DEF before
    <3>5. 2 <= n - starts[k] /\ n - starts[k] <= BatchSize
      BY <1>1, <1>2, <2>0, <3>1, <3>2, <3>4
    <3> QED
      BY <2>1, <3>3, <3>5
  <2>3. CASE k # count
    <3> DEFINE before == (k - 1) * BatchSize
               after == (k + 1 - 1) * BatchSize
    <3>1. before \in Int /\ after = before + BatchSize
      BY <1>2, <2>0
    <3>2. k < count /\ k + 1 \in 1 .. count
      BY <1>3, <2>0, <2>3
    <3>3. batches[k] = <<starts[k], starts[k + 1]>>
      BY <1>7, <3>2
    <3>4. starts[k] = before /\ starts[k + 1] \in {after, after - 1}
      BY <1>8, <2>3, <3>2
    <3> HIDE DEF before, after
    <3>5. 2 <= starts[k + 1] - starts[k] /\ starts[k + 1] - starts[k] <= BatchSize
      BY <1>2, <3>1, <3>4
    <3> QED
      BY <2>1, <3>3, <3>5
  <2> QED
    BY <2>2, <2>3
<1> QED
  BY <1>6, <1>9, <1>10

-----------------------------------------------------------------------------
(* The evidence of a forecast *)

LEMMA Scaled ==
  ASSUME NEW p \in Nat, NEW q \in Nat, p <= q, NEW k \in Nat
  PROVE  p * k <= q * k
<1>1. q - p \in Nat /\ (q - p) * k \in Nat
  OBVIOUS
<1>2. q * k = p * k + (q - p) * k
  OBVIOUS
<1> QED
  BY <1>1, <1>2

LEMMA ScaledMore ==
  ASSUME NEW p \in Nat, NEW q \in Nat, p < q, NEW k \in Nat, k > 0
  PROVE  p * k < q * k
<1>1. q - p \in Nat /\ q - p >= 1
  OBVIOUS
<1>2. (q - p) * k \in Nat /\ (q - p) * k > 0
  BY <1>1
<1>3. q * k = p * k + (q - p) * k
  OBVIOUS
<1> QED
  BY <1>2, <1>3

\* Ratios are compared by their value; one without a denominator is the least.
LEMMA HigherCompares ==
  ASSUME NEW x \in Nat \X Nat, NEW y \in Nat \X Nat
  PROVE  /\ Higher(x, y) => ~Higher(y, x)
         /\ \A z \in Nat \X Nat : Higher(x, z) => Higher(x, y) \/ Higher(y, z)
<1>1. Higher(x, y) => ~Higher(y, x)
  <2>1. x[1] * y[2] \in Nat /\ y[1] * x[2] \in Nat
    OBVIOUS
  <2> QED
    BY <2>1 DEF Higher
<1>2. ASSUME NEW z \in Nat \X Nat, Higher(x, z), ~Higher(x, y), ~Higher(y, z)
      PROVE  FALSE
  <2> DEFINE a == x[1]
             b == x[2]
             c == y[1]
             d == y[2]
             e == z[1]
             f == z[2]
  <2>1. a \in Nat /\ b \in Nat /\ c \in Nat /\ d \in Nat /\ e \in Nat /\ f \in Nat
    OBVIOUS
  <2>2. /\ b > 0 /\ (f > 0 => a * f > e * b)
        /\ d > 0 /\ ~(a * d > c * b)
        /\ f > 0 /\ ~(c * f > e * d)
    BY <1>2, <2>1 DEF Higher
  <2> HIDE DEF a, b, c, d, e, f
  <2>3. a * f > e * b /\ a * d <= c * b /\ c * f <= e * d
    <3>1. a * d \in Nat /\ c * b \in Nat /\ c * f \in Nat /\ e * d \in Nat
      BY <2>1
    <3> QED
      BY <2>2, <3>1
  <2>4. (a * d) * f <= (c * b) * f
    BY <2>1, <2>3, Scaled
  <2>5. (c * f) * b <= (e * d) * b
    BY <2>1, <2>3, Scaled
  <2>6. (e * b) * d < (a * f) * d
    BY <2>1, <2>2, <2>3, ScaledMore
  <2>7. /\ (a * d) * f = (a * f) * d /\ (c * b) * f = (c * f) * b
        /\ (e * d) * b = (e * b) * d
    BY <2>1
  <2>8. (a * f) * d \in Nat /\ (c * f) * b \in Nat /\ (e * b) * d \in Nat
    BY <2>1
  <2> QED
    BY <2>4, <2>5, <2>6, <2>7, <2>8
<1> QED
  BY <1>1, <1>2

\* The sequence t is the start of s, of at most n elements.
Starts(t, s, N, n) ==
  \E m \in Nat : /\ m <= n /\ m <= N /\ (N > 0 => m > 0)
                 /\ DOMAIN t = 1 .. m /\ Len(t) = m
                 /\ \A k \in 1 .. m : t[k] = s[k]

LEMMA FirstElements ==
  ASSUME NEW N \in Nat, NEW S, NEW s \in [1 .. N -> S], NEW n \in Nat \ {0}
  PROVE  Starts(FirstOf(s, n), s, N, n)
<1> DEFINE two == {n, Len(s)}
           m == Min(two)
<1>1. Len(s) = N
  OBVIOUS
<1>2. two \in SUBSET Int /\ two # {}
  BY <1>1
<1>3. IsFiniteSet(two)
  <2>1. IsFiniteSet({n}) /\ IsFiniteSet({Len(s)})
    BY FS_Singleton
  <2>2. IsFiniteSet({n} \cup {Len(s)})
    BY <2>1, FS_Union
  <2>3. two = {n} \cup {Len(s)}
    OBVIOUS
  <2> QED
    BY <2>2, <2>3
<1>4. n \in two /\ N \in two /\ \A x \in two : x = n \/ x = N
  BY <1>1
<1> HIDE DEF two
<1>5. m \in two /\ m <= n /\ m <= N
  BY <1>2, <1>3, <1>4, LeastInteger
<1>6. m \in Nat /\ (N > 0 => m > 0)
  <2>1. m = n \/ m = N
    BY <1>4, <1>5
  <2> HIDE DEF m
  <2> QED
    BY <2>1
<1> HIDE DEF m
<1>7. \A k \in 1 .. m : s[k] \in S
  BY <1>5, <1>6
<1>8. FirstOf(s, n) = SubSeq(s, 1, m)
  BY DEF FirstOf, m, two
<1>9. /\ SubSeq(s, 1, m) \in Seq(S)
      /\ Len(SubSeq(s, 1, m)) = IF 1 <= m THEN m - 1 + 1 ELSE 0
      /\ \A k \in 1 .. m - 1 + 1 : SubSeq(s, 1, m)[k] = s[1 + k - 1]
  <2>1. 1 \in Int /\ m \in Int
    BY <1>6
  <2> QED
    BY <1>7, <2>1, SubSeqProperties
<1>10. Len(SubSeq(s, 1, m)) = m
  BY <1>6, <1>9
<1>11. \A k \in 1 .. m : SubSeq(s, 1, m)[k] = s[k]
  <2>1. m - 1 + 1 = m
    BY <1>6
  <2>2. \A k \in 1 .. m : 1 + k - 1 = k
    BY <1>6
  <2> QED
    BY <1>9, <2>1, <2>2
<1>12. DOMAIN SubSeq(s, 1, m) = 1 .. m
  BY <1>9, <1>10
<1> QED
  BY <1>5, <1>6, <1>8, <1>10, <1>11, <1>12 DEF Starts

\* The sequence of the elements of a set in an order has each of them at its rank.
LEMMA ByRank ==
  ASSUME NEW R, NEW S, IsFiniteSet(S), Orders(R, S), NEW s,
         DOMAIN s = 1 .. Cardinality(S),
         \A n \in 1 .. Cardinality(S) :
           (\E x \in S : Cardinality(Below(R, S, x)) = n - 1)
             => s[n] \in S /\ Cardinality(Below(R, S, s[n])) = n - 1
  PROVE  \A n \in 1 .. Cardinality(S) : s[n] \in S /\ Rank(R, S, s[n]) = n
<1> SUFFICES ASSUME NEW n \in 1 .. Cardinality(S)
             PROVE  s[n] \in S /\ Rank(R, S, s[n]) = n
  OBVIOUS
<1>1. PICK x \in S : Rank(R, S, x) = n
  BY RanksTaken
<1>2. Cardinality(Below(R, S, x)) = n - 1
  BY <1>1, RankType DEF Rank
<1>3. s[n] \in S /\ Cardinality(Below(R, S, s[n])) = n - 1
  BY <1>2
<1> QED
  BY <1>3 DEF Rank

\* Comparing a ratio, or an integer, of each element is a key of an order.
LEMMA RatioIsKey ==
  ASSUME NEW S, NEW f \in [S -> Nat \X Nat],
         NEW P, \A x, y \in S : <<x, y>> \in P <=> Higher(f[x], f[y])
  PROVE  Compares(P, S)
<1>1. \A x \in S : f[x] \in Nat \X Nat
  OBVIOUS
<1>2. ASSUME NEW x \in S, NEW y \in S, NEW z \in S
      PROVE  /\ Higher(f[x], f[y]) => ~Higher(f[y], f[x])
             /\ Higher(f[x], f[z]) => Higher(f[x], f[y]) \/ Higher(f[y], f[z])
  BY <1>1, HigherCompares
<1> QED
  BY <1>2 DEF Compares

LEMMA IntegerIsKey ==
  ASSUME NEW S, NEW f \in [S -> Int],
         NEW P, \A x, y \in S : <<x, y>> \in P <=> f[x] > f[y]
  PROVE  Compares(P, S)
<1>1. \A x \in S : f[x] \in Int
  OBVIOUS
<1>2. ASSUME NEW x \in S, NEW y \in S, NEW z \in S
      PROVE  /\ f[x] > f[y] => ~(f[y] > f[x])
             /\ f[x] > f[z] => f[x] > f[y] \/ f[y] > f[z]
  BY <1>1
<1> QED
  BY <1>2 DEF Compares

LEMMA MeasuredRows ==
  ASSUME NEW c, IsCase(c)
  PROVE  /\ IsFiniteSet(Measured(c))
         /\ \A n \in Measured(c) :
              /\ c.rows[n].entity \in Int /\ c.rows[n].actual \in Nat
              /\ c.rows[n]["prediction"] \in Nat /\ c.rows[n]["baseline"] \in Nat
<1>1. /\ Len(c.rows) \in Nat /\ DOMAIN c.rows = 1 .. Len(c.rows)
      /\ \A n \in DOMAIN c.rows : c.rows[n] \in HoldoutRow
  BY DEF IsCase
<1>2. IsFiniteSet(1 .. Len(c.rows))
  BY <1>1, FS_Interval
<1>3. Measured(c) \subseteq 1 .. Len(c.rows)
  BY <1>1 DEF Measured
<1>4. IsFiniteSet(Measured(c))
  BY <1>2, <1>3, FS_Subset
<1>5. ASSUME NEW n \in Measured(c)
      PROVE  /\ c.rows[n].entity \in Int /\ c.rows[n].actual \in Nat
             /\ c.rows[n]["prediction"] \in Nat /\ c.rows[n]["baseline"] \in Nat
  <2>1. c.rows[n] \in HoldoutRow /\ c.rows[n].actual # Unobserved
    BY <1>1 DEF Measured
  <2> QED
    BY <2>1 DEF HoldoutRow
<1> QED
  BY <1>4, <1>5

LEMMA SumsOfRows ==
  ASSUME NEW c, IsCase(c), NEW T \in SUBSET Measured(c),
         NEW of \in {"prediction", "baseline"}
  PROVE  /\ IsFiniteSet(T) /\ Cardinality(T) \in Nat
         /\ ErrorSum(c, T, of) \in Nat /\ Demand(c, T) \in Nat
<1>1. IsFiniteSet(T)
  BY MeasuredRows, FS_Subset
<1> DEFINE errors == [i \in T |-> Distance(c.rows[i].actual, c.rows[i][of])]
           actuals == [i \in T |-> c.rows[i].actual]
<1>2. \A i \in T : errors[i] \in Nat /\ actuals[i] \in Nat
  <2>1. ASSUME NEW i \in T
        PROVE  errors[i] \in Nat /\ actuals[i] \in Nat
    <3>1. c.rows[i].actual \in Nat /\ c.rows[i][of] \in Nat
      BY MeasuredRows
    <3>2. \A x, y \in Nat : Distance(x, y) \in Nat
      BY DEF Distance
    <3> QED
      BY <3>1, <3>2
  <2> QED
    BY <2>1
<1>3. DOMAIN errors = T /\ DOMAIN actuals = T
  OBVIOUS
<1>4. ErrorSum(c, T, of) = SumFunction(errors) /\ Demand(c, T) = SumFunction(actuals)
  BY DEF ErrorSum, Demand
<1> HIDE DEF errors, actuals
<1>5. Sum(errors, T) \in Nat /\ Sum(actuals, T) \in Nat
  BY <1>1, <1>2, SumType
<1>6. ErrorSum(c, T, of) \in Nat /\ Demand(c, T) \in Nat
  BY <1>3, <1>4, <1>5, FunctionSums
<1> QED
  BY <1>1, <1>6, FS_CardinalityType

LEMMA EntityKeys ==
  ASSUME NEW c, IsCase(c), NEW e
  PROVE  /\ IsFiniteSet(RowsOf(c, e)) /\ Cardinality(RowsOf(c, e)) \in Nat
         /\ EntityWape(c, e) \in Nat \X Nat /\ Mae(c, e) \in Nat \X Nat
<1>1. RowsOf(c, e) \in SUBSET Measured(c)
  BY DEF RowsOf
<1>2. /\ IsFiniteSet(RowsOf(c, e)) /\ Cardinality(RowsOf(c, e)) \in Nat
      /\ ErrorSum(c, RowsOf(c, e), "prediction") \in Nat /\ Demand(c, RowsOf(c, e)) \in Nat
  BY <1>1, SumsOfRows
<1>3. EntityWape(c, e) \in Nat \X Nat
  BY <1>2 DEF EntityWape, Wape
<1>4. Mae(c, e) \in Nat \X Nat
  BY <1>2 DEF Mae
<1> QED
  BY <1>2, <1>3, <1>4

MeasuredEntities(c) == {c.rows[i].entity : i \in Measured(c)}

WorseThan(c) == {p \in MeasuredEntities(c) \X MeasuredEntities(c) : Worse(c, p[1], p[2])}

\* The entities with an error are in an order, and the list has the first of them.
LEMMA EntitiesOrdered ==
  ASSUME NEW c, IsCase(c)
  PROVE  /\ IsFiniteSet(MeasuredEntities(c)) /\ Orders(WorseThan(c), MeasuredEntities(c))
<1> DEFINE S == MeasuredEntities(c)
           entity == [i \in Measured(c) |-> c.rows[i].entity]
<1>1. IsFiniteSet(S)
  <2>1. DOMAIN entity = Measured(c) /\ \A i \in Measured(c) : entity[i] = c.rows[i].entity
    OBVIOUS
  <2>2. S = {entity[i] : i \in DOMAIN entity}
    BY DEF MeasuredEntities
  <2> HIDE DEF entity, S
  <2>3. IsFiniteSet(DOMAIN entity)
    BY <2>1, MeasuredRows
  <2> QED
    BY <2>2, <2>3, FiniteImage
<1>2. S \in SUBSET Int
  BY MeasuredRows DEF MeasuredEntities
<1> DEFINE wape == [e \in S |-> EntityWape(c, e)]
           mae == [e \in S |-> Mae(c, e)]
           P == {p \in S \X S : Higher(EntityWape(c, p[1]), EntityWape(c, p[2]))}
           Q == {p \in S \X S : Higher(Mae(c, p[1]), Mae(c, p[2]))}
<1>3. wape \in [S -> Nat \X Nat] /\ mae \in [S -> Nat \X Nat]
  BY EntityKeys
<1>4. \A x, y \in S : /\ <<x, y>> \in P <=> Higher(wape[x], wape[y])
                      /\ <<x, y>> \in Q <=> Higher(mae[x], mae[y])
  OBVIOUS
<1>5. \A x, y \in S :
        <<x, y>> \in WorseThan(c) <=>
          \/ <<x, y>> \in P
          \/ /\ <<y, x>> \notin P
             /\ \/ <<x, y>> \in Q
                \/ <<y, x>> \notin Q /\ x < y
  BY DEF WorseThan, Worse
<1> HIDE DEF wape, mae, P, Q, S
<1>6. Compares(P, S) /\ Compares(Q, S)
  BY <1>3, <1>4, RatioIsKey
<1>7. Orders(WorseThan(c), S)
  BY <1>2, <1>5, <1>6, OrderedByKeys
<1> QED
  BY <1>1, <1>7 DEF S

LEMMA WorstRanked ==
  ASSUME NEW c, IsCase(c)
  PROVE  \E m \in Nat :
           /\ m <= MaxEntityDiagnostics /\ (Measured(c) # {} => m > 0)
           /\ DOMAIN WorstEntities(c) = 1 .. m /\ Len(WorstEntities(c)) = m
           /\ \A n \in 1 .. m :
                /\ WorstEntities(c)[n] \in MeasuredEntities(c)
                /\ Rank(WorseThan(c), MeasuredEntities(c), WorstEntities(c)[n]) = n
<1> DEFINE S == MeasuredEntities(c)
           R == WorseThan(c)
           N == Cardinality(S)
           s == [n \in 1 .. N |->
                   CHOOSE x \in S : Cardinality({y \in S \ {x} : Worse(c, y, x)}) = n - 1]
<1>1. WorstEntities(c) = FirstOf(s, MaxEntityDiagnostics)
  BY DEF WorstEntities, Ordered, MeasuredEntities
<1>2. \A x \in S : {y \in S \ {x} : Worse(c, y, x)} = Below(R, S, x)
  BY DEF Below, WorseThan
<1>3. \A n \in 1 .. N :
        (\E x \in S : Cardinality({y \in S \ {x} : Worse(c, y, x)}) = n - 1)
          => s[n] \in S /\ Cardinality({y \in S \ {s[n]} : Worse(c, y, s[n])}) = n - 1
  OBVIOUS
<1>4. DOMAIN s = 1 .. N
  OBVIOUS
<1>5. IsFiniteSet(S) /\ Orders(R, S) /\ N \in Nat
  BY EntitiesOrdered, FS_CardinalityType
<1>6. s \in [1 .. N -> S] <=> \A n \in 1 .. N : s[n] \in S
  OBVIOUS
<1>7. Measured(c) # {} => N > 0
  <2>1. Measured(c) # {} => S # {}
    BY DEF MeasuredEntities
  <2> HIDE DEF S
  <2> QED
    BY <1>5, <2>1, FS_EmptySet
<1> HIDE DEF s, S, R
<1>8. \A n \in 1 .. N :
        (\E x \in S : Cardinality(Below(R, S, x)) = n - 1)
          => s[n] \in S /\ Cardinality(Below(R, S, s[n])) = n - 1
  <2> SUFFICES ASSUME NEW n \in 1 .. N, NEW x \in S, Cardinality(Below(R, S, x)) = n - 1
               PROVE  s[n] \in S /\ Cardinality(Below(R, S, s[n])) = n - 1
    OBVIOUS
  <2>1. Cardinality({y \in S \ {x} : Worse(c, y, x)}) = n - 1
    BY <1>2
  <2>2. s[n] \in S /\ Cardinality({y \in S \ {s[n]} : Worse(c, y, s[n])}) = n - 1
    BY <1>3, <2>1
  <2> QED
    BY <1>2, <2>2
<1>9. \A n \in 1 .. N : s[n] \in S /\ Rank(R, S, s[n]) = n
  BY <1>4, <1>5, <1>8, ByRank
<1> HIDE DEF N
<1>10. PICK m \in Nat :
         /\ m <= MaxEntityDiagnostics /\ m <= N /\ (N > 0 => m > 0)
         /\ DOMAIN WorstEntities(c) = 1 .. m /\ Len(WorstEntities(c)) = m
         /\ \A k \in 1 .. m : WorstEntities(c)[k] = s[k]
  <2>1. s \in [1 .. N -> S]
    BY <1>6, <1>9
  <2>2. Starts(FirstOf(s, MaxEntityDiagnostics), s, N, MaxEntityDiagnostics)
    BY <1>5, <2>1, EvidenceAssumption, FirstElements
  <2> QED
    BY <1>1, <2>2 DEF Starts
<1>11. \A k \in 1 .. m : k \in 1 .. N
  BY <1>5, <1>10
<1>12. \A n \in 1 .. m : WorstEntities(c)[n] \in S /\ Rank(R, S, WorstEntities(c)[n]) = n
  BY <1>1, <1>9, <1>10, <1>11
<1> QED
  BY <1>1, <1>7, <1>10, <1>12 DEF S, R

ShiftsBefore(c) == {p \in Evaluated(c) \X Evaluated(c) : ShiftBefore(c, p[1], p[2])}

LEMMA EvaluatedFeatures ==
  ASSUME NEW c, IsCase(c)
  PROVE  /\ IsFiniteSet(Evaluated(c)) /\ Evaluated(c) \in SUBSET Int
         /\ Evaluated(c) \in SUBSET DOMAIN c.features
         /\ \A n \in Evaluated(c) :
              LET f == c.features[n]
              IN /\ f \in Feature /\ f.reference >= 1 /\ f.fresh >= 1
                 /\ f.fresh \in Nat /\ f.outside \in Nat /\ f.outside <= f.fresh
                 /\ Severity(f) \in 0 .. 2 /\ ShiftValue(f) \in Nat \X Nat
<1>1. /\ Len(c.features) \in Nat /\ DOMAIN c.features = 1 .. Len(c.features)
      /\ \A n \in DOMAIN c.features : c.features[n] \in Feature
  BY DEF IsCase
<1>2. IsFiniteSet(1 .. Len(c.features))
  BY <1>1, FS_Interval
<1>3. Evaluated(c) \subseteq 1 .. Len(c.features)
  BY <1>1 DEF Evaluated
<1>4. IsFiniteSet(Evaluated(c))
  BY <1>2, <1>3, FS_Subset
<1>5. ASSUME NEW n \in Evaluated(c), NEW f, f = c.features[n]
      PROVE  /\ f \in Feature /\ f.reference >= 1 /\ f.fresh >= 1
             /\ f.fresh \in Nat /\ f.outside \in Nat /\ f.outside <= f.fresh
             /\ Severity(f) \in 0 .. 2 /\ ShiftValue(f) \in Nat \X Nat
  <2>1. f \in Feature /\ f.reference > 0 /\ f.fresh > 0 /\ f.outside <= f.fresh
    BY <1>1, <1>5 DEF Evaluated, IsCase
  <2>2. /\ f.reference \in Nat /\ f.fresh \in Nat /\ f.outside \in Nat /\ f.shift \in Nat
    BY <2>1 DEF Feature
  <2>3. Severity(f) \in 0 .. 2
    BY DEF Severity
  <2>4. ShiftValue(f) \in Nat \X Nat
    BY <2>2 DEF ShiftValue
  <2> QED
    BY <2>1, <2>2, <2>3, <2>4
<1> QED
  BY <1>1, <1>3, <1>4, <1>5

LEMMA ShiftsOrdered ==
  ASSUME NEW c, IsCase(c)
  PROVE  Orders(ShiftsBefore(c), Evaluated(c))
<1> DEFINE S == Evaluated(c)
           severity == [n \in S |-> Severity(c.features[n])]
           value == [n \in S |-> ShiftValue(c.features[n])]
           P == {p \in S \X S : Severity(c.features[p[1]]) > Severity(c.features[p[2]])}
           Q == {p \in S \X S : Higher(ShiftValue(c.features[p[1]]),
                                       ShiftValue(c.features[p[2]]))}
<1>1. \A n \in S : Severity(c.features[n]) \in Int /\ ShiftValue(c.features[n]) \in Nat \X Nat
  BY EvaluatedFeatures
<1>2. severity \in [S -> Int] /\ value \in [S -> Nat \X Nat]
  BY <1>1
<1>3. \A x, y \in S : /\ <<x, y>> \in P <=> severity[x] > severity[y]
                      /\ <<x, y>> \in Q <=> Higher(value[x], value[y])
  OBVIOUS
<1>4. \A x, y \in S :
        <<x, y>> \in ShiftsBefore(c) <=>
          \/ <<x, y>> \in P
          \/ /\ <<y, x>> \notin P
             /\ \/ <<x, y>> \in Q
                \/ <<y, x>> \notin Q /\ x < y
  <2> SUFFICES ASSUME NEW x \in S, NEW y \in S
               PROVE  <<x, y>> \in ShiftsBefore(c) <=>
                        \/ <<x, y>> \in P
                        \/ /\ <<y, x>> \notin P
                           /\ \/ <<x, y>> \in Q
                              \/ <<y, x>> \notin Q /\ x < y
    OBVIOUS
  <2>1. <<x, y>> \in ShiftsBefore(c) <=> ShiftBefore(c, x, y)
    BY DEF ShiftsBefore
  <2>2. Severity(c.features[x]) = Severity(c.features[y])
          <=> <<x, y>> \notin P /\ <<y, x>> \notin P
    <3>1. \A a, b \in Int : a = b <=> ~(a > b) /\ ~(b > a)
      OBVIOUS
    <3>2. /\ <<x, y>> \in P <=> Severity(c.features[x]) > Severity(c.features[y])
          /\ <<y, x>> \in P <=> Severity(c.features[y]) > Severity(c.features[x])
      OBVIOUS
    <3> QED
      BY <1>1, <3>1, <3>2
  <2>3. ShiftBefore(c, x, y) <=>
          \/ <<x, y>> \in P
          \/ /\ <<x, y>> \notin P /\ <<y, x>> \notin P
             /\ \/ <<x, y>> \in Q
                \/ <<y, x>> \notin Q /\ x < y
    <3>1. /\ <<x, y>> \in P <=> Severity(c.features[x]) > Severity(c.features[y])
          /\ <<x, y>> \in Q <=> Higher(ShiftValue(c.features[x]), ShiftValue(c.features[y]))
          /\ <<y, x>> \in Q <=> Higher(ShiftValue(c.features[y]), ShiftValue(c.features[x]))
      OBVIOUS
    <3> HIDE DEF P, Q
    <3> QED
      BY <2>2, <3>1 DEF ShiftBefore
  <2>4. <<x, y>> \in P => <<y, x>> \notin P
    <3>1. \A a, b \in Int : a > b => ~(b > a)
      OBVIOUS
    <3> QED
      BY <1>1, <3>1
  <2> HIDE DEF P, Q
  <2> QED
    BY <2>1, <2>3, <2>4
<1>5. S \in SUBSET Int
  BY EvaluatedFeatures
<1> HIDE DEF severity, value, P, Q, S
<1>6. Compares(P, S) /\ Compares(Q, S)
  BY <1>2, <1>3, RatioIsKey, IntegerIsKey
<1>7. Orders(ShiftsBefore(c), S)
  BY <1>4, <1>5, <1>6, OrderedByKeys
<1> QED
  BY <1>7 DEF S

LEMMA ShiftsRanked ==
  ASSUME NEW c, IsCase(c)
  PROVE  \E m \in Nat :
           /\ m <= MaxFeatureShifts /\ (Evaluated(c) # {} => m > 0)
           /\ DOMAIN FeatureShifts(c) = 1 .. m /\ Len(FeatureShifts(c)) = m
           /\ \A n \in 1 .. m :
                /\ FeatureShifts(c)[n] \in Evaluated(c)
                /\ Rank(ShiftsBefore(c), Evaluated(c), FeatureShifts(c)[n]) = n
<1> DEFINE S == Evaluated(c)
           R == ShiftsBefore(c)
           N == Cardinality(S)
           s == [n \in 1 .. N |->
                   CHOOSE x \in S : Cardinality({y \in S \ {x} : ShiftBefore(c, y, x)}) = n - 1]
<1>1. FeatureShifts(c) = FirstOf(s, MaxFeatureShifts)
  BY DEF FeatureShifts, Ordered
<1>2. \A x \in S : {y \in S \ {x} : ShiftBefore(c, y, x)} = Below(R, S, x)
  BY DEF Below, ShiftsBefore
<1>3. \A n \in 1 .. N :
        (\E x \in S : Cardinality({y \in S \ {x} : ShiftBefore(c, y, x)}) = n - 1)
          => /\ s[n] \in S
             /\ Cardinality({y \in S \ {s[n]} : ShiftBefore(c, y, s[n])}) = n - 1
  OBVIOUS
<1>4. DOMAIN s = 1 .. N
  OBVIOUS
<1>5. IsFiniteSet(S) /\ Orders(R, S) /\ N \in Nat
  BY EvaluatedFeatures, ShiftsOrdered, FS_CardinalityType
<1>6. s \in [1 .. N -> S] <=> \A n \in 1 .. N : s[n] \in S
  OBVIOUS
<1>7. S # {} => N > 0
  <2> HIDE DEF S
  <2> QED
    BY <1>5, FS_EmptySet
<1> HIDE DEF s, S, R
<1>8. \A n \in 1 .. N :
        (\E x \in S : Cardinality(Below(R, S, x)) = n - 1)
          => s[n] \in S /\ Cardinality(Below(R, S, s[n])) = n - 1
  <2> SUFFICES ASSUME NEW n \in 1 .. N, NEW x \in S, Cardinality(Below(R, S, x)) = n - 1
               PROVE  s[n] \in S /\ Cardinality(Below(R, S, s[n])) = n - 1
    OBVIOUS
  <2>1. Cardinality({y \in S \ {x} : ShiftBefore(c, y, x)}) = n - 1
    BY <1>2
  <2>2. s[n] \in S /\ Cardinality({y \in S \ {s[n]} : ShiftBefore(c, y, s[n])}) = n - 1
    BY <1>3, <2>1
  <2> QED
    BY <1>2, <2>2
<1>9. \A n \in 1 .. N : s[n] \in S /\ Rank(R, S, s[n]) = n
  BY <1>4, <1>5, <1>8, ByRank
<1> HIDE DEF N
<1>10. PICK m \in Nat :
         /\ m <= MaxFeatureShifts /\ m <= N /\ (N > 0 => m > 0)
         /\ DOMAIN FeatureShifts(c) = 1 .. m /\ Len(FeatureShifts(c)) = m
         /\ \A k \in 1 .. m : FeatureShifts(c)[k] = s[k]
  <2>1. s \in [1 .. N -> S]
    BY <1>6, <1>9
  <2>2. Starts(FirstOf(s, MaxFeatureShifts), s, N, MaxFeatureShifts)
    BY <1>5, <2>1, EvidenceAssumption, FirstElements
  <2> QED
    BY <1>1, <2>2 DEF Starts
<1>11. \A k \in 1 .. m : k \in 1 .. N
  BY <1>5, <1>10
<1>12. \A n \in 1 .. m : FeatureShifts(c)[n] \in S /\ Rank(R, S, FeatureShifts(c)[n]) = n
  BY <1>9, <1>10, <1>11
<1> QED
  BY <1>7, <1>10, <1>12 DEF S, R

\* The control plane accepts the evidence of every holdout and every set of features.
LEMMA EvidenceIsAccepted ==
  ASSUME NEW c, IsCase(c)
  PROVE  EvidenceAccepted(c)
<1> DEFINE ev == Evidence(c)
<1>1. ev.skill.supported <=> ev.skill.verdict # "unavailable"
  <2>1. ev.skill = Skill(c)
    BY DEF Evidence
  <2>2. Skill(c).supported <=> Skill(c).verdict # "unavailable"
    BY DEF Skill
  <2> QED
    BY <2>1, <2>2
<1>2. PICK m \in Nat :
        /\ m <= MaxEntityDiagnostics
        /\ DOMAIN WorstEntities(c) = 1 .. m
        /\ \A n \in 1 .. m : WorstEntities(c)[n] \in MeasuredEntities(c)
  BY WorstRanked
<1>3. /\ DOMAIN ev.worst = 1 .. m
      /\ \A n \in 1 .. m : ev.worst[n].rows = Cardinality(RowsOf(c, WorstEntities(c)[n]))
  BY <1>2 DEF Evidence
<1>4. Len(ev.worst) <= MaxEntityDiagnostics
  <2>1. ev.worst = [n \in 1 .. m |-> ev.worst[n]]
    BY <1>2 DEF Evidence
  <2>2. Len(ev.worst) = m
    <3> HIDE DEF ev
    <3> QED
      BY <1>3, <2>1
  <2> QED
    BY <1>2, <2>2
<1>5. \A n \in DOMAIN ev.worst : ev.worst[n].rows >= 1
  <2> SUFFICES ASSUME NEW n \in 1 .. m
               PROVE  Cardinality(RowsOf(c, WorstEntities(c)[n])) >= 1
    BY <1>3
  <2>1. RowsOf(c, WorstEntities(c)[n]) # {}
    BY <1>2 DEF MeasuredEntities, RowsOf
  <2>2. /\ IsFiniteSet(RowsOf(c, WorstEntities(c)[n]))
        /\ Cardinality(RowsOf(c, WorstEntities(c)[n])) \in Nat
    BY EntityKeys
  <2>3. Cardinality(RowsOf(c, WorstEntities(c)[n])) # 0
    BY <2>1, <2>2, FS_EmptySet
  <2> QED
    BY <2>2, <2>3
<1>6. PICK k \in Nat :
        /\ k <= MaxFeatureShifts
        /\ DOMAIN FeatureShifts(c) = 1 .. k
        /\ \A n \in 1 .. k : FeatureShifts(c)[n] \in Evaluated(c)
  BY ShiftsRanked
<1>7. /\ DOMAIN ev.shifts = 1 .. k
      /\ \A n \in 1 .. k : ev.shifts[n] = c.features[FeatureShifts(c)[n]]
  BY <1>6 DEF Evidence
<1>8. Len(ev.shifts) <= MaxFeatureShifts
  <2>1. ev.shifts = [n \in 1 .. k |-> ev.shifts[n]]
    BY <1>6 DEF Evidence
  <2>2. Len(ev.shifts) = k
    <3> HIDE DEF ev
    <3> QED
      BY <1>7, <2>1
  <2> QED
    BY <1>6, <2>2
<1>9. \A n \in DOMAIN ev.shifts :
        /\ ev.shifts[n].reference >= 1 /\ ev.shifts[n].fresh >= 1
        /\ ev.shifts[n].outside <= ev.shifts[n].fresh
  <2>1. ASSUME NEW n \in Evaluated(c), NEW f, f = c.features[n]
        PROVE  f.reference >= 1 /\ f.fresh >= 1 /\ f.outside <= f.fresh
    BY <2>1, EvaluatedFeatures
  <2> HIDE DEF ev
  <2> QED
    BY <1>6, <1>7, <2>1
<1>10. ev.cold <= ev.entities
  <2>1. IsFiniteSet(c.fresh)
    BY DEF IsCase
  <2>2. Cardinality(c.fresh \ c.trained) <= Cardinality(c.fresh)
    BY <2>1, FS_Subset
  <2> QED
    BY <2>2 DEF Evidence
<1>11. ev.outside <= ev.values
  <2> DEFINE f == [i \in Evaluated(c) |-> c.features[i].outside]
             g == [i \in Evaluated(c) |-> c.features[i].fresh]
  <2>1. ev.outside = SumFunction(f) /\ ev.values = SumFunction(g)
    BY DEF Evidence
  <2>2. DOMAIN f = Evaluated(c) /\ DOMAIN g = Evaluated(c)
    OBVIOUS
  <2>3. \A x \in Evaluated(c) : f[x] \in Int /\ g[x] \in Int /\ f[x] <= g[x]
    BY EvaluatedFeatures
  <2> HIDE DEF f, g, ev
  <2>4. Sum(f, Evaluated(c)) <= Sum(g, Evaluated(c))
    BY <2>3, EvaluatedFeatures, SumMonotone
  <2> QED
    BY <2>1, <2>2, <2>4, FunctionSums
<1> HIDE DEF ev
<1>12. Accepted(ev)
  BY <1>1, <1>4, <1>5, <1>8, <1>9, <1>10, <1>11 DEF Accepted
<1> QED
  BY <1>12 DEF EvidenceAccepted, ev

\* A review without warnings has seen the entity with the greatest error, the feature
\* with the greatest shift and the verdict on the model.
LEMMA ReadyIsReady ==
  ASSUME NEW c, IsCase(c), Warnings(Evidence(c)) = {}
  PROVE  /\ Skill(c).verdict # "worse"
         /\ \A n \in DOMAIN FeatureShifts(c) :
              Severity(c.features[FeatureShifts(c)[n]]) # 2
         /\ 1 \in DOMAIN WorstEntities(c) =>
              LET wape == EntityWape(c, WorstEntities(c)[1])
              IN wape[2] > 0 => ~(wape[1] >= wape[2])
<1> DEFINE ev == Evidence(c)
<1>1. /\ ev.skill = Skill(c)
      /\ DOMAIN ev.shifts = DOMAIN FeatureShifts(c)
      /\ \A n \in DOMAIN ev.shifts : ev.shifts[n] = c.features[FeatureShifts(c)[n]]
      /\ DOMAIN ev.worst = DOMAIN WorstEntities(c)
      /\ \A n \in DOMAIN ev.worst : ev.worst[n].wape = EntityWape(c, WorstEntities(c)[n])
  BY DEF Evidence
<1>2. Warnings(ev) = {}
  OBVIOUS
<1> HIDE DEF ev
<1>3. ev.skill.verdict # "worse"
  <2>1. "skill" \notin Warnings(ev)
    BY <1>2
  <2> QED
    BY <2>1 DEF Warnings
<1>4. \A n \in DOMAIN ev.shifts : Severity(ev.shifts[n]) # 2
  <2>1. "shift" \notin Warnings(ev)
    BY <1>2
  <2> QED
    BY <2>1 DEF Warnings
<1>5. ev.worst # <<>> /\ ev.worst[1].wape[2] > 0
        => ~(ev.worst[1].wape[1] >= ev.worst[1].wape[2])
  <2>1. "worst_case" \notin Warnings(ev)
    BY <1>2
  <2> QED
    BY <2>1 DEF Warnings
<1>6. 1 \in DOMAIN ev.worst => ev.worst # <<>>
  OBVIOUS
<1>7. \A n \in DOMAIN FeatureShifts(c) : Severity(c.features[FeatureShifts(c)[n]]) # 2
  BY <1>1, <1>4
<1>8. ASSUME 1 \in DOMAIN WorstEntities(c), NEW wape, wape = EntityWape(c, WorstEntities(c)[1])
      PROVE  wape[2] > 0 => ~(wape[1] >= wape[2])
  <2>1. ev.worst[1].wape = wape /\ ev.worst # <<>>
    BY <1>1, <1>6, <1>8
  <2> QED
    BY <1>5, <2>1
<1> QED
  BY <1>1, <1>3, <1>7, <1>8

\* A model that is not worse has an error of at most 1.01 of the baseline's.
LEMMA NotWorse ==
  ASSUME NEW c, IsCase(c), Skill(c).verdict # "worse", Skill(c).supported
  PROVE  100 * ErrorSum(c, Measured(c), "prediction")
           <= 101 * ErrorSum(c, Measured(c), "baseline")
<1> DEFINE model == ErrorSum(c, Measured(c), "prediction")
           baseline == ErrorSum(c, Measured(c), "baseline")
<1>1. model \in Nat /\ baseline \in Nat
  BY SumsOfRows
<1>2. 100 * (baseline - model) > baseline \/ ~(100 * (model - baseline) > baseline)
  BY DEF Skill
<1> HIDE DEF model, baseline
<1>3. 100 * model <= 101 * baseline
  BY <1>1, <1>2
<1> QED
  BY <1>3 DEF model, baseline

\* If no ratio is higher than one that is less than 1, none is 1 or more.
LEMMA BelowOne ==
  ASSUME NEW x \in Nat \X Nat, NEW y \in Nat \X Nat, ~Higher(x, y),
         y[2] > 0 => ~(y[1] >= y[2]), x[2] > 0
  PROVE  x[1] < x[2]
<1> DEFINE a == x[1]
           b == x[2]
           p == y[1]
           q == y[2]
<1>1. a \in Nat /\ b \in Nat /\ p \in Nat /\ q \in Nat
  OBVIOUS
<1>2. b > 0 /\ q > 0 /\ ~(a * q > p * b) /\ ~(p >= q)
  BY DEF Higher
<1> HIDE DEF a, b, p, q
<1>3. a * q \in Nat /\ p * b \in Nat /\ q * b \in Nat /\ b * q \in Nat /\ b * q = q * b
  BY <1>1
<1>4. p * b < q * b
  BY <1>1, <1>2, ScaledMore
<1>5. b <= a => b * q <= a * q
  BY <1>1, Scaled
<1>6. a < b
  BY <1>1, <1>2, <1>3, <1>4, <1>5
<1> QED
  BY <1>6 DEF a, b

\* A review that calls a result ready has missed nothing.
LEMMA ReadyHidesNothing ==
  ASSUME NEW c, IsCase(c)
  PROVE  AttentionComplete(c)
<1> SUFFICES ASSUME ReviewStatus(Evidence(c)) = "ready"
             PROVE  /\ \A i \in Measured(c) :
                         LET wape == EntityWape(c, c.rows[i].entity)
                         IN wape[2] > 0 => wape[1] < wape[2]
                    /\ \A i \in Evaluated(c) : Severity(c.features[i]) < 2
                    /\ \/ 100 * ErrorSum(c, Measured(c), "prediction")
                            <= 101 * ErrorSum(c, Measured(c), "baseline")
                       \/ ~Skill(c).supported
  BY DEF AttentionComplete
<1>1. Warnings(Evidence(c)) = {}
  BY DEF ReviewStatus
<1>2. ASSUME NEW i \in Measured(c), NEW wape, wape = EntityWape(c, c.rows[i].entity),
             wape[2] > 0
      PROVE  wape[1] < wape[2]
  <2> DEFINE e == c.rows[i].entity
             S == MeasuredEntities(c)
             R == WorseThan(c)
             w == WorstEntities(c)[1]
  <2>1. e \in S
    BY DEF MeasuredEntities
  <2>2. 1 \in DOMAIN WorstEntities(c) /\ w \in S /\ Rank(R, S, w) = 1
    <3>1. PICK m \in Nat :
            /\ Measured(c) # {} => m > 0
            /\ DOMAIN WorstEntities(c) = 1 .. m
            /\ \A n \in 1 .. m : WorstEntities(c)[n] \in S /\ Rank(R, S, WorstEntities(c)[n]) = n
      BY WorstRanked
    <3>2. 1 \in 1 .. m
      BY <3>1
    <3> QED
      BY <3>1, <3>2
  <2>3. EntityWape(c, e) \in Nat \X Nat /\ EntityWape(c, w) \in Nat \X Nat
    BY EntityKeys
  <2>4. ~Higher(EntityWape(c, e), EntityWape(c, w))
    <3>1. e = w \/ <<w, e>> \in R
      <4>1. IsFiniteSet(S) /\ Orders(R, S)
        BY EntitiesOrdered
      <4> HIDE DEF S, R, w, e
      <4> QED
        BY <2>1, <2>2, <4>1, FirstIsLeast
    <3>2. CASE e = w
      BY <2>3, <3>2, HigherCompares
    <3>3. CASE <<w, e>> \in R
      <4>1. \/ Higher(EntityWape(c, w), EntityWape(c, e))
            \/ ~Higher(EntityWape(c, e), EntityWape(c, w))
        BY <3>3 DEF WorseThan, Worse
      <4> QED
        BY <2>3, <4>1, HigherCompares
    <3> QED
      BY <3>1, <3>2, <3>3
  <2>5. EntityWape(c, w)[2] > 0 => ~(EntityWape(c, w)[1] >= EntityWape(c, w)[2])
    BY <1>1, <2>2, ReadyIsReady
  <2> QED
    BY <1>2, <2>3, <2>4, <2>5, BelowOne
<1>3. ASSUME NEW i \in Evaluated(c)
      PROVE  Severity(c.features[i]) < 2
  <2> DEFINE S == Evaluated(c)
             R == ShiftsBefore(c)
             f == FeatureShifts(c)[1]
  <2>1. 1 \in DOMAIN FeatureShifts(c) /\ f \in S /\ Rank(R, S, f) = 1
    <3>1. PICK m \in Nat :
            /\ S # {} => m > 0
            /\ DOMAIN FeatureShifts(c) = 1 .. m
            /\ \A n \in 1 .. m : FeatureShifts(c)[n] \in S /\ Rank(R, S, FeatureShifts(c)[n]) = n
      BY ShiftsRanked
    <3>2. 1 \in 1 .. m
      BY <3>1
    <3> QED
      BY <3>1, <3>2
  <2>2. i = f \/ <<f, i>> \in R
    <3>1. IsFiniteSet(S) /\ Orders(R, S) /\ i \in S
      BY EvaluatedFeatures, ShiftsOrdered
    <3> HIDE DEF S, R, f
    <3> QED
      BY <2>1, <3>1, FirstIsLeast
  <2>3. Severity(c.features[i]) \in 0 .. 2 /\ Severity(c.features[f]) \in 0 .. 2
    BY <2>1, EvaluatedFeatures
  <2>4. Severity(c.features[i]) <= Severity(c.features[f])
    <3>1. CASE i = f
      BY <2>3, <3>1
    <3>2. CASE <<f, i>> \in R
      <4>1. ShiftBefore(c, f, i)
        BY <3>2 DEF ShiftsBefore
      <4>2. \/ Severity(c.features[f]) > Severity(c.features[i])
            \/ Severity(c.features[f]) = Severity(c.features[i])
        BY <4>1 DEF ShiftBefore
      <4> QED
        BY <2>3, <4>2
    <3> QED
      BY <2>2, <3>1, <3>2
  <2>5. Severity(c.features[f]) # 2
    BY <1>1, <2>1, ReadyIsReady
  <2> QED
    BY <2>3, <2>4, <2>5
<1>4. \/ 100 * ErrorSum(c, Measured(c), "prediction")
           <= 101 * ErrorSum(c, Measured(c), "baseline")
      \/ ~Skill(c).supported
  BY <1>1, ReadyIsReady, NotWorse
<1> QED
  BY <1>2, <1>3, <1>4

-----------------------------------------------------------------------------
(* The specification *)

\* What is decided about is of the shape of its kind.
Shaped ==
  /\ input.kind = "comparison" => IsComparison(input)
  /\ input.kind = "evaluation" => IsEvaluation(input)
  /\ input.kind = "panel" => IsPanel(input)
  /\ input.kind = "file" => IsFile(input)
  /\ input.kind = "training" => IsTraining(input)
  /\ input.kind = "plan" => IsPlan(input)
  /\ input.kind = "advice" => IsAdvice(input)
  /\ input.kind = "experiment" => IsExperiment(input)

LEMMA AlwaysShaped == Spec => []Shaped
<1>1. Init => Shaped
  BY InputAssumption DEF Init, Shaped
<1>2. Shaped /\ [Decide]_vars => Shaped'
  <2>1. [Decide]_vars => input' = input
    BY DEF Decide, vars
  <2> QED
    BY <2>1 DEF Shaped
<1> QED
  BY <1>1, <1>2, PTL DEF Spec

\* Whatever its adapters did and wherever it stopped, the control plane accepts the
\* document a worker writes, for any number of adapters, and the evidence in it, for
\* any holdout and any features: no run is stuck on a document that is refused on
\* every poll (_comparison_payload, _terminalize_comparison, build_forecast_evaluation,
\* _validated_result_evaluation).
THEOREM EveryResultAccepted == Spec => []ResultAccepted
<1>1. Shaped => ResultAccepted
  BY WorkerIsAccepted, EvidenceIsAccepted DEF Shaped, ResultAccepted, Of, IsEvaluation
<1> QED
  BY <1>1, AlwaysShaped, PTL

\* The adapter a comparison names as its best succeeded, and none that succeeded has a
\* smaller error or another holdout; an adapter that did not succeed is pointed out
\* (_comparison_leaderboard, _forecast_comparison_review).
THEOREM BestAlwaysReported == Spec => []BestReported
<1>1. Shaped => BestReported
  BY NamedIsBest DEF Shaped, BestReported, Of
<1> QED
  BY <1>1, AlwaysShaped, PTL

\* A review calls a result ready only if no entity's error is as large as its demand,
\* no feature has shifted and the model is not worse than the baseline, although it
\* reads lists that are cut to a bound (_entity_diagnostics, _feature_evidence,
\* _forecast_result_review).
THEOREM NothingEverHidden == Spec => []NothingHidden
<1>1. Shaped => NothingHidden
  BY ReadyHidesNothing DEF Shaped, NothingHidden, Of, IsEvaluation
<1> QED
  BY <1>1, AlwaysShaped, PTL

\* What is learned or predicted at an origin is what would be if nothing that became
\* known later were there, for panels and experiments of any length and at any number
\* of days: in a panel (panel.py) but for the last fallback of the baseline, a median
\* of the whole history; in an experiment that passes the gate (backtest.py), of which
\* the rows outside its days say when they were known.
THEOREM NeverLooksAhead == Spec => []NoLookahead
<1>1. Shaped => NoLookahead
  BY PanelLooksBack, LocalCausal DEF Shaped, NoLookahead, Of
<1> QED
  BY <1>1, AlwaysShaped, PTL

\* An experiment that passes the gate is run to its end, and its models are scored on
\* the rows the gate has counted (compute_gate, run_backtest).
THEOREM GateAlwaysForetells == Spec => []GateForetells
<1>1. Shaped => GateForetells
  BY GateTells DEF Shaped, GateForetells, Of
<1> QED
  BY <1>1, AlwaysShaped, PTL

\* Training keeps to its budget of rows, and its batches cover the rows without a gap
\* and none of them is a single row, for any number of entities and rows
\* (_bounded_training_frame, _batch_ranges).
THEOREM BatchesAlwaysFit == Spec => []BatchesFit
<1>1. Shaped => BatchesFit
  BY BatchesFitTraining DEF Shaped, BatchesFit, Of
<1> QED
  BY <1>1, AlwaysShaped, PTL

\* A draft that may be confirmed can be requested, whatever columns the file has and
\* whatever the provider answered, and the advice follows the objective
\* (_validate_draft_mapping, _model_recommendations).  Whether it runs is the next one.
THEOREM PlansAlwaysHold == Spec => []PlansHold
<1>1. ASSUME NEW i, IsPlan(i)
      PROVE  PlanAccepted(i.profiles, {1}, i.mapping)
  BY <1>1, ConfirmedPlanAccepted DEF IsPlan
<1>2. Shaped => PlansHold
  BY <1>1, AdviceIs DEF Shaped, PlansHold, Of
<1> QED
  BY <1>2, AlwaysShaped, PTL

\* A worker prepares the panel of a confirmed plan for just those files that are of the
\* past only or end in a horizon of future rows, whatever rows, entities and nulls a
\* file has (_training_end, _apply_execution_role_guard, prepare_daily_panel).
THEOREM FilesAlwaysRun == Spec => []PlannedFilesRun
<1>1. Shaped => PlannedFilesRun
  BY FileRuns DEF Shaped, PlannedFilesRun, Of
<1> QED
  BY <1>1, AlwaysShaped, PTL
=============================================================================
