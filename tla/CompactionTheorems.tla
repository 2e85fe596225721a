-------------------------- MODULE CompactionTheorems --------------------------
(***************************************************************************)
(* What the planner picks, what a flush and the steps of a compaction do   *)
(* to the answers of a search, and what they do to the key ranges of a     *)
(* level.  Nothing here has a state: the proofs about PebbleDB apply these *)
(* facts to the tables of the directory.                                   *)
(***************************************************************************)
EXTENDS Compaction, LsmTheorems

(***************************************************************************)
(* The planner.                                                            *)
(***************************************************************************)

\* A level over its capacity lies below level 0 and has files.
LEMMA OverfullHasFiles ==
    ASSUME NEW files \in SUBSET Table, NEW n \in OverfullLevels(files)
    PROVE  n \in Nat /\ n >= 1 /\ \E f \in files : f.level = n
<1>1. PICK f \in files : n = f.level /\ n # 0
  BY DEF OverfullLevels
<1>2. f.level \in Nat
  BY <1>1 DEF Table
<1> QED
  BY <1>1, <1>2

\* When a compaction is due the planner names a level, and its inputs are
\* files of the level and of the next.
LEMMA PlanType ==
    ASSUME NEW files \in SUBSET Table, IsFiniteSet(files), CompactionDue(files)
    PROVE  /\ PlanLevel(files) \in Nat
           /\ PickCompaction(files).inputs \subseteq files
           /\ PickCompaction(files).outputLevel \in Nat
           /\ PickCompaction(files).dropTombstones \in BOOLEAN
<1>1. PlanLevel(files) \in Nat
  <2>1. CASE L0Due(files)
    BY <2>1 DEF PlanLevel
  <2>2. CASE ~L0Due(files)
    <3>1. OverfullLevels(files) # {}
      BY <2>2 DEF CompactionDue
    <3>2. OverfullLevels(files) \in SUBSET Nat
      BY OverfullHasFiles
    <3> QED
      BY <2>2, <3>1, <3>2, LeastOfNaturals DEF PlanLevel
  <2> QED
    BY <2>1, <2>2
<1>2. PickCompaction(files).inputs \subseteq files
  BY DEF PickCompaction, PlanInputs, Overlaps, Overlapping, AtLevel
<1>3. PickCompaction(files).dropTombstones \in BOOLEAN
  BY DEF PickCompaction, DropsTombstones
<1> QED
  BY <1>1, <1>2, <1>3 DEF PickCompaction

-----------------------------------------------------------------------------
\* The tables of a level below 0 may disagree on a key only while a shallower
\* level holds it: LevelsCoherent of any set of tables.
Coherent(files) ==
    \A f, g \in files, k \in Key :
        /\ f.level = g.level /\ f.level > 0
        /\ f.contents[k] # Absent /\ g.contents[k] # Absent
        /\ f.contents[k] # g.contents[k]
        => \E h \in Holding(files, k) : h.level < f.level

\* Two tables of the level on which the search of a key ends agree on it.
LEMMA AgreeWhereFound ==
    ASSUME NEW files, FileSet(files), Coherent(files), NEW k \in Key,
           NEW f \in Holding(files, k), NEW g \in Holding(files, k),
           f.level = g.level, f.level > 0,
           \A h \in Holding(files, k) : f.level <= h.level
    PROVE  f.contents[k] = g.contents[k]
<1>1. f \in files /\ g \in files /\ f.contents[k] # Absent /\ g.contents[k] # Absent
  BY DEF Holding
<1>2. \A h \in files : h.level \in Nat
  BY DEF FileSet, Table
<1>3. ~ \E h \in Holding(files, k) : h.level < f.level
  BY <1>1, <1>2 DEF Holding
<1> QED
  BY <1>1, <1>3 DEF Coherent

\* A flush puts the newest table on top of the others: its records hide
\* theirs, and the other keys keep their answers.
LEMMA AddFlushed ==
    ASSUME NEW files, NEW f, FileSet(files \cup {f}),
           f.level = 0, \A g \in files : g.id < f.id,
           NEW k \in Key
    PROVE  Lookup(files \cup {f}, k) =
             IF f.contents[k] # Absent THEN f.contents[k] ELSE Lookup(files, k)
<1>1. CASE f.contents[k] = Absent
  <2>1. Holding(files \cup {f}, k) = Holding(files, k)
    BY <1>1 DEF Holding
  <2> QED
    BY <1>1, <2>1, SameHolders
<1>2. CASE f.contents[k] # Absent
  <2>1. \A g \in files : g.level \in Nat
    BY DEF FileSet, Table
  <2>2. FoundFirst(f, files \cup {f}, k)
    BY <1>2, <2>1 DEF FoundFirst, Holding, Newer
  <2> QED
    BY <1>2, <2>2, LookupIs
<1> QED
  BY <1>1, <1>2

\* A table of level 0 has no part in the coherence of the levels below.
LEMMA AddFlushedCoherent ==
    ASSUME NEW files, NEW f, Coherent(files), f.level = 0
    PROVE  Coherent(files \cup {f})
BY DEF Coherent, Holding

-----------------------------------------------------------------------------
(***************************************************************************)
(* What makes a plan of a compaction sound.  Either it takes every file    *)
(* into level 1, or it merges a level with all of the next one that the    *)
(* inputs share a key with; of level 0, where the files overlap, it takes  *)
(* all; and it drops tombstones only if nothing lies below the output.     *)
(***************************************************************************)
LevelPlan(files, inputs, level, drop) ==
    /\ \A f \in inputs : f.level \in {level - 1, level}
    /\ level = 1 => AtLevel(files, 0) \subseteq inputs
    /\ \A f \in inputs, g \in files \ inputs, k \in Key :
         f.level = level - 1 /\ g.level = level
            => f.contents[k] = Absent \/ g.contents[k] = Absent
    /\ drop => \A g \in files : g.level <= level

FullPlan(files, inputs, level) == inputs = files /\ level = 1

SoundPlan(files, inputs, level, drop) ==
    /\ inputs \subseteq files
    /\ level \in Nat /\ level >= 1
    /\ drop \in BOOLEAN
    /\ FullPlan(files, inputs, level) \/ LevelPlan(files, inputs, level, drop)

\* The state in which a job writes its next output f: files are those of the
\* handle, outputs the ones written before.
OutputFits(files, inputs, level, drop, outputs, f) ==
    /\ FileSet(files \cup outputs \cup {f})
    /\ SoundPlan(files, inputs, level, drop)
    /\ f.level = level
    /\ \A g \in files \cup outputs : g.id < f.id
    /\ \A o \in outputs, k \in Key :
         o.contents[k] # Absent => f.contents[k] = Absent
    /\ \A k \in Key : f.contents[k] \in {Absent, Merge(inputs, drop)[k]}

\* What the output holds of a key is the record that is first in the inputs.
RepeatsInput(f, inputs, k) ==
    \E i \in inputs : FoundFirst(i, inputs, k) /\ f.contents[k] = i.contents[k]

\* Each record of an output repeats the newest record of its key among the
\* inputs.
LEMMA OutputRecord ==
    ASSUME NEW files, NEW inputs, NEW level, NEW drop, NEW outputs, NEW f,
           OutputFits(files, inputs, level, drop, outputs, f),
           NEW k \in Key, f.contents[k] # Absent
    PROVE  RepeatsInput(f, inputs, k)
<1>1. FileSet(inputs)
  BY PartOfFileSet DEF OutputFits, SoundPlan
<1>2. f.contents[k] = Lookup(inputs, k)
  BY <1>1, Merged DEF OutputFits, SoundPlan
<1>3. Holding(inputs, k) # {}
  BY <1>1, <1>2, NothingFound
<1>4. PICK i \in inputs : FoundFirst(i, inputs, k)
  BY <1>1, <1>3, Found
<1> QED
  BY <1>1, <1>2, <1>4, LookupIs DEF RepeatsInput

\* Where a search meets the level of the output or a deeper one first, it
\* finds what the first of the inputs holds.
LEMMA FoundAtOutput ==
    ASSUME NEW files, NEW inputs, NEW level, NEW drop, NEW k \in Key, NEW all,
           SoundPlan(files, inputs, level, drop), files \subseteq all,
           FileSet(all), Coherent(all), Holding(all, k) \subseteq files,
           NEW i, FoundFirst(i, inputs, k), NEW g, FoundFirst(g, all, k),
           level <= g.level
    PROVE  g.contents[k] = i.contents[k]
<1>1. g \in Holding(all, k) /\ g \in files /\ i \in Holding(all, k) /\ i \in inputs
  BY DEF FoundFirst, Holding, SoundPlan
<1>2. \A h \in all : h.level \in Nat /\ h.id \in Nat
  BY DEF FileSet, Table
<1>3. \A h \in Holding(all, k) : h \in all /\ g.level <= h.level
  BY <1>1, <1>2 DEF FoundFirst, Newer, Holding
<1>4. CASE FullPlan(files, inputs, level)
  <2>1. FoundFirst(g, inputs, k)
    BY <1>1, <1>4 DEF FullPlan, FoundFirst, Holding
  <2>2. FileSet(inputs)
    BY PartOfFileSet DEF SoundPlan
  <2> QED
    BY <2>1, <2>2, FoundOnce
<1>5. CASE LevelPlan(files, inputs, level, drop)
  <2>1. i.level = level - 1 \/ i.level = level
    BY <1>1, <1>5 DEF LevelPlan
  <2>2. level \in Nat /\ level > 0
    BY DEF SoundPlan
  <2>3. g.level = i.level /\ g.level > 0
    BY <1>1, <1>2, <1>3, <2>1, <2>2
  <2> QED
    BY <1>1, <1>3, <2>3, AgreeWhereFound
<1> QED
  BY <1>4, <1>5 DEF SoundPlan

\* Before the inputs are gone, another output changes no answer: a search
\* finds a shallower record, or one the output repeats.
LEMMA AddOutput ==
    ASSUME NEW files, NEW inputs, NEW level, NEW drop, NEW outputs, NEW f,
           OutputFits(files, inputs, level, drop, outputs, f),
           Coherent(files \cup outputs), NEW k \in Key
    PROVE  Lookup(files \cup outputs \cup {f}, k) = Lookup(files \cup outputs, k)
<1> DEFINE R == files \cup outputs
<1>1. FileSet(R \cup {f}) /\ FileSet(R)
  <2>1. FileSet(R \cup {f})
    BY DEF OutputFits
  <2> QED
    BY <2>1, PartOfFileSet
<1>2. CASE f.contents[k] = Absent
  <2>1. Holding(R \cup {f}, k) = Holding(R, k)
    BY <1>2 DEF Holding
  <2> QED
    BY <2>1, SameHolders
<1>3. CASE f.contents[k] # Absent
  <2>1. PICK i \in inputs : /\ FoundFirst(i, inputs, k)
                            /\ f.contents[k] = i.contents[k]
    BY <1>3, OutputRecord DEF RepeatsInput
  <2>2. Holding(R, k) \subseteq files
    BY <1>3 DEF Holding, OutputFits
  <2>3. i \in Holding(R, k) /\ inputs \subseteq files
    BY <2>1 DEF FoundFirst, Holding, OutputFits, SoundPlan
  <2>4. /\ \A h \in R \cup {f} : h.level \in Nat /\ h.id \in Nat
        /\ level \in Nat /\ f.level = level
        /\ \A h \in R : h.id < f.id
    <3>1. \A h \in Table : h.level \in Nat /\ h.id \in Nat
      BY DEF Table
    <3> QED
      BY <1>1, <3>1 DEF FileSet, OutputFits, SoundPlan
  <2>5. Holding(R \cup {f}, k) = Holding(R, k) \cup {f}
    BY <1>3 DEF Holding
  <2>6. files \subseteq R /\ Coherent(R) /\ SoundPlan(files, inputs, level, drop)
    BY DEF OutputFits
  <2>7. Lookup(R \cup {f}, k) = Lookup(R, k)
    <3> HIDE DEF R
    <3>1. PICK g \in R : FoundFirst(g, R, k)
      BY <1>1, <2>3, Found
    <3>2. Lookup(R, k) = g.contents[k]
      BY <1>1, <3>1, LookupIs
    <3>3. Holding(R, k) \subseteq R
      BY DEF Holding
    <3>4. CASE g.level < level
      <4>1. FoundFirst(g, R \cup {f}, k)
        BY <2>4, <2>5, <3>1, <3>4 DEF FoundFirst, Newer
      <4> QED
        BY <1>1, <3>2, <4>1, LookupIs
    <3>5. CASE level <= g.level
      <4>1. \A h \in Holding(R, k) : level <= h.level
        BY <2>4, <3>1, <3>3, <3>5 DEF FoundFirst, Newer
      <4>2. FoundFirst(f, R \cup {f}, k)
        <5>1. \A h \in Holding(R, k) : Newer(f, h)
          BY <2>4, <3>3, <4>1 DEF Newer
        <5> QED
          BY <2>5, <5>1 DEF FoundFirst
      <4>3. g.contents[k] = i.contents[k]
        BY <1>1, <2>1, <2>2, <2>6, <3>1, <3>5, FoundAtOutput
      <4> QED
        BY <1>1, <2>1, <3>2, <4>2, <4>3, LookupIs
    <3> QED
      BY <2>4, <3>1, <3>4, <3>5
  <2> QED
    BY <2>7
<1> QED
  BY <1>2, <1>3

\* Nor does it bring two tables of a level apart: what it repeats is hidden
\* by a shallower record, or what the tables of its level have already.
LEMMA AddOutputCoherent ==
    ASSUME NEW files, NEW inputs, NEW level, NEW drop, NEW outputs, NEW f,
           OutputFits(files, inputs, level, drop, outputs, f),
           Coherent(files \cup outputs)
    PROVE  Coherent(files \cup outputs \cup {f})
<1> DEFINE R == files \cup outputs
           Shallower(k) == \E h \in Holding(R \cup {f}, k) : h.level < level
<1>1. FileSet(R) /\ FileSet(files) /\ level \in Nat /\ level > 0 /\ f.level = level
  <2>1. FileSet(R \cup {f})
    BY DEF OutputFits
  <2> QED
    BY <2>1, PartOfFileSet DEF OutputFits, SoundPlan
<1>2. ASSUME NEW g \in R, NEW k \in Key, g.level = level,
             g.contents[k] # Absent, f.contents[k] # Absent,
             f.contents[k] # g.contents[k]
      PROVE  Shallower(k)
  <2>1. PICK i \in inputs : /\ FoundFirst(i, inputs, k)
                            /\ f.contents[k] = i.contents[k]
    BY <1>2, OutputRecord DEF RepeatsInput
  <2>2. inputs \subseteq files /\ g \in files
    BY <1>2 DEF OutputFits, SoundPlan
  <2>3. i \in Holding(R, k) /\ i \in R /\ i.contents[k] # Absent
    BY <2>1, <2>2 DEF FoundFirst, Holding
  <2>4. i.level \in Nat /\ i.level <= level
    <3>1. i.level \in Nat
      BY <1>1, <2>3 DEF FileSet, Table
    <3>2. CASE FullPlan(files, inputs, level)
      <4>1. g \in Holding(inputs, k)
        BY <1>2, <2>2, <3>2 DEF FullPlan, Holding
      <4> QED
        BY <1>1, <1>2, <2>1, <3>1, <4>1 DEF FoundFirst, Newer
    <3>3. CASE LevelPlan(files, inputs, level, drop)
      BY <1>1, <2>1, <3>1, <3>3 DEF LevelPlan
    <3> QED
      BY <3>2, <3>3 DEF OutputFits, SoundPlan
  <2>5. Holding(R, k) \subseteq Holding(R \cup {f}, k)
    BY DEF Holding
  <2>6. CASE i.level < level
    BY <2>3, <2>5, <2>6
  <2>7. CASE i.level = level
    <3>1. \E h \in Holding(R, k) : h.level < level
      BY <1>1, <1>2, <2>1, <2>3, <2>7 DEF Coherent
    <3> QED
      BY <2>5, <3>1
  <2>8. i.level < level \/ i.level = level
    BY <1>1, <2>4
  <2> QED
    BY <2>6, <2>7, <2>8
<1>3. ASSUME NEW g \in R, NEW h \in R, NEW k \in Key,
             g.level = h.level /\ g.level > 0,
             g.contents[k] # Absent /\ h.contents[k] # Absent,
             g.contents[k] # h.contents[k]
      PROVE  \E e \in Holding(R \cup {f}, k) : e.level < g.level
  <2>1. \E e \in Holding(R, k) : e.level < g.level
    BY <1>3 DEF Coherent
  <2> QED
    BY <2>1 DEF Holding
<1> QED
  <2> HIDE DEF R
  <2>1. Coherent(R \cup {f})
    BY <1>1, <1>2, <1>3 DEF Coherent
  <2> QED
    BY <2>1 DEF R

-----------------------------------------------------------------------------
\* The state in which a job exchanges its inputs for its outputs: the outputs
\* are the merge of the inputs, all of it, and newer than any other file.
ReadyToReplace(files, inputs, level, drop, outputs) ==
    /\ FileSet(files \cup outputs)
    /\ SoundPlan(files, inputs, level, drop)
    /\ \A o \in outputs : o.level = level
    /\ \A f \in files, o \in outputs : f.id < o.id
    /\ \A o, p \in outputs, k \in Key :
         o.contents[k] # Absent /\ p.contents[k] # Absent => o = p
    /\ \A o \in outputs, k \in Key :
         o.contents[k] \in {Absent, Merge(inputs, drop)[k]}
    /\ \A k \in Key :
         Merge(inputs, drop)[k] # Absent => Holding(outputs, k) # {}

Replaced(files, inputs, outputs) == (files \ inputs) \cup outputs

\* A file that stays, is not deeper than the output and holds a key of which
\* an input had the first record agrees with that input: a plan takes all of
\* level 0, and all of the next level that shares the key.
LEMMA SurvivorAgrees ==
    ASSUME NEW files, NEW inputs, NEW level, NEW drop, NEW outputs,
           ReadyToReplace(files, inputs, level, drop, outputs),
           Coherent(files \cup outputs), NEW k \in Key,
           NEW i \in inputs, FoundFirst(i, files \cup outputs, k),
           NEW h \in files \ inputs, h.contents[k] # Absent, h.level <= level
    PROVE  h.contents[k] = i.contents[k]
<1> DEFINE R == files \cup outputs
<1>1. FileSet(R) /\ Coherent(R) /\ level \in Nat /\ level >= 1
  BY DEF ReadyToReplace, SoundPlan
<1>2. LevelPlan(files, inputs, level, drop)
  BY DEF ReadyToReplace, SoundPlan, FullPlan
<1>3. h \in Holding(R, k) /\ i \in Holding(R, k) /\ h \in files
  BY DEF Holding, FoundFirst
<1>4. \A g \in Holding(R, k) : i.level <= g.level /\ g.level \in Nat
  <2>1. \A g \in Holding(R, k) : g.level \in Nat
    BY <1>1 DEF FileSet, Table, Holding
  <2> QED
    BY <1>3, <2>1 DEF FoundFirst, Newer
<1>5. i.level = level - 1 \/ i.level = level
  BY <1>2 DEF LevelPlan
<1>6. ~(i.level = level - 1 /\ h.level = level)
  BY <1>2, <1>3 DEF LevelPlan, Holding
<1>7. h.level = i.level
  <2>1. h.level \in Nat /\ i.level \in Nat /\ i.level <= h.level
    BY <1>3, <1>4
  <2> QED
    BY <1>1, <1>5, <1>6, <2>1
<1>8. i.level > 0
  <2>1. CASE i.level = 0
    <3>1. h \in AtLevel(files, 0) /\ level = 1
      BY <1>1, <1>3, <1>5, <1>7, <2>1 DEF AtLevel
    <3> QED
      BY <1>2, <3>1 DEF LevelPlan
  <2> QED
    BY <1>3, <1>4, <2>1
<1> QED
  <2> HIDE DEF R
  <2> QED
    BY <1>1, <1>3, <1>4, <1>7, <1>8, AgreeWhereFound

\* The exchange changes no answer: a key keeps its record, or loses a
\* tombstone with nothing under it.
LEMMA ReplaceKeepsAnswers ==
    ASSUME NEW files, NEW inputs, NEW level, NEW drop, NEW outputs,
           ReadyToReplace(files, inputs, level, drop, outputs),
           Coherent(files \cup outputs), NEW k \in Key
    PROVE  Answer(Lookup(Replaced(files, inputs, outputs), k))
             = Answer(Lookup(files \cup outputs, k))
<1> DEFINE R == files \cup outputs
           S == Replaced(files, inputs, outputs)
           M == Merge(inputs, drop)
<1>1. FileSet(R) /\ FileSet(S) /\ FileSet(inputs) /\ S \subseteq R
  <2>1. FileSet(R) /\ inputs \subseteq R
    BY DEF ReadyToReplace, SoundPlan
  <2>2. S \subseteq R
    BY DEF Replaced
  <2> QED
    BY <2>1, <2>2, PartOfFileSet
<1>2. CASE Holding(R, k) = {}
  <2>1. Holding(S, k) = Holding(R, k)
    BY <1>1, <1>2 DEF Holding
  <2> QED
    BY <2>1, SameHolders
<1>3. ASSUME NEW g \in S, FoundFirst(g, R, k)
      PROVE  Lookup(S, k) = Lookup(R, k)
  <2>1. FoundFirst(g, S, k)
    BY <1>1, <1>3 DEF FoundFirst, Holding
  <2> QED
    BY <1>1, <1>3, <2>1, LookupIs
<1>4. ASSUME NEW g \in R, g \notin S, FoundFirst(g, R, k)
      PROVE  Answer(Lookup(S, k)) = Answer(Lookup(R, k))
  <2>1. g \in inputs /\ inputs \subseteq files
    BY <1>4 DEF Replaced, ReadyToReplace, SoundPlan
  <2>2. FoundFirst(g, inputs, k)
    BY <1>4, <2>1 DEF FoundFirst, Holding
  <2>3. Lookup(R, k) = g.contents[k] /\ Lookup(inputs, k) = g.contents[k]
    BY <1>1, <1>4, <2>2, LookupIs
  <2>4. g.contents[k] # Absent
    BY <1>4 DEF FoundFirst, Holding
  <2>5. ASSUME NEW h \in Holding(S, k), h \notin outputs, h.level <= level
        PROVE  h.contents[k] = g.contents[k]
    <3>1. h \in files \ inputs /\ h.contents[k] # Absent
      BY <2>5 DEF Replaced, Holding
    <3> QED
      BY <1>4, <2>1, <2>5, <3>1, SurvivorAgrees
  <2>6. ASSUME NEW h \in outputs, h.contents[k] # Absent
        PROVE  h.contents[k] = M[k] /\ h.level = level
    BY <2>6 DEF ReadyToReplace
  <2>7. CASE M[k] = g.contents[k]
    <3>1. PICK o \in outputs : o.contents[k] # Absent
      BY <2>4, <2>7 DEF ReadyToReplace, Holding
    <3>2. o \in Holding(S, k)
      BY <3>1 DEF Replaced, Holding
    <3>3. PICK h \in S : FoundFirst(h, S, k)
      BY <1>1, <3>2, Found
    <3>4. h \in Holding(S, k) /\ h.contents[k] # Absent
      BY <3>3 DEF FoundFirst, Holding
    <3>5. h.level <= level
      <4>1. h.level \in Nat /\ o.level = level /\ level \in Nat
        BY <1>1, <2>6, <3>1 DEF FileSet, Table, ReadyToReplace, SoundPlan
      <4> QED
        BY <3>2, <3>3, <4>1 DEF FoundFirst, Newer
    <3>6. h.contents[k] = g.contents[k]
      BY <2>5, <2>6, <2>7, <3>4, <3>5
    <3> QED
      BY <1>1, <2>3, <3>3, <3>6, LookupIs
  <2>8. CASE M[k] = Absent /\ drop /\ g.contents[k] = Tombstone
    <3>1. ASSUME NEW h \in S, FoundFirst(h, S, k)
          PROVE  h.contents[k] = Tombstone
      <4>1. h \in Holding(S, k) /\ h.contents[k] # Absent
        BY <3>1 DEF FoundFirst, Holding
      <4>2. h \notin outputs
        BY <2>6, <2>8, <4>1
      <4>3. h \in files \ inputs
        BY <4>2 DEF Replaced
      <4>4. h.level <= level
        <5>1. LevelPlan(files, inputs, level, drop)
          BY <4>3 DEF ReadyToReplace, SoundPlan, FullPlan
        <5> QED
          BY <2>8, <4>3, <5>1 DEF LevelPlan
      <4> QED
        BY <2>5, <2>8, <4>1, <4>2, <4>4
    <3>2. Lookup(S, k) \in {Absent, Tombstone}
      <4>1. CASE Holding(S, k) = {}
        BY <1>1, <4>1, NothingFound
      <4>2. CASE Holding(S, k) # {}
        <5>1. PICK h \in S : FoundFirst(h, S, k)
          BY <1>1, <4>2, Found
        <5> QED
          BY <1>1, <3>1, <5>1, LookupIs
      <4> QED
        BY <4>1, <4>2
    <3>3. Absent \notin Value /\ Tombstone \notin Value
      BY MarkerAssumption
    <3> QED
      BY <2>3, <2>8, <3>2, <3>3 DEF Answer
  <2>9. drop \in BOOLEAN
    BY DEF ReadyToReplace, SoundPlan
  <2> QED
    BY <2>3, <2>7, <2>8, <2>9, Merged
<1>5. CASE Holding(R, k) # {}
  <2>1. PICK g \in R : FoundFirst(g, R, k)
    BY <1>1, <1>5, Found
  <2> QED
    BY <1>3, <1>4, <2>1
<1> QED
  BY <1>2, <1>5

\* What is left is coherent again: a shallower record that goes with the
\* inputs comes back in an output.
LEMMA ReplaceCoherent ==
    ASSUME NEW files, NEW inputs, NEW level, NEW drop, NEW outputs,
           ReadyToReplace(files, inputs, level, drop, outputs),
           Coherent(files \cup outputs)
    PROVE  Coherent(Replaced(files, inputs, outputs))
<1> DEFINE R == files \cup outputs
           S == Replaced(files, inputs, outputs)
<1> SUFFICES ASSUME NEW f \in S, NEW g \in S, NEW k \in Key,
                    f.level = g.level /\ f.level > 0,
                    f.contents[k] # Absent /\ g.contents[k] # Absent,
                    f.contents[k] # g.contents[k]
             PROVE  \E h \in Holding(S, k) : h.level < f.level
  BY DEF Coherent
<1>1. /\ FileSet(inputs) /\ inputs \subseteq files /\ S \subseteq R
      /\ level \in Nat /\ drop \in BOOLEAN
      /\ \A h \in R : h.level \in Nat
  <2>1. FileSet(R) /\ inputs \subseteq R
    BY DEF ReadyToReplace, SoundPlan
  <2> QED
    BY <2>1, PartOfFileSet
       DEF Replaced, ReadyToReplace, SoundPlan, FileSet, Table
<1>2. PICK h \in Holding(R, k) : h.level < f.level
  BY <1>1 DEF Coherent
<1>3. CASE h \in S
  BY <1>2, <1>3 DEF Holding
<1>4. CASE h \notin S
  <2>1. h \in inputs /\ h \in Holding(inputs, k) /\ h.contents[k] # Absent
    BY <1>2, <1>4 DEF Replaced, Holding
  <2>2. ~(f \in outputs /\ g \in outputs)
    BY DEF ReadyToReplace
  <2>3. LevelPlan(files, inputs, level, drop)
    BY <2>2 DEF ReadyToReplace, SoundPlan, FullPlan, Replaced
  <2>4. h.level = level - 1 \/ h.level = level
    BY <2>1, <2>3 DEF LevelPlan
  <2>5. ASSUME NEW e \in {f, g}, e \notin outputs PROVE e.level # level
    <3>1. e \in files \ inputs /\ e.contents[k] # Absent /\ e.level = f.level
      BY <2>5 DEF Replaced
    <3>2. CASE e.level = level
      <4>1. h.level = level - 1
        BY <1>1, <1>2, <2>4, <3>1, <3>2
      <4> QED
        BY <2>1, <2>3, <3>1, <3>2, <4>1 DEF LevelPlan
    <3> QED
      BY <3>2
  <2>6. f.level # level
    BY <2>2, <2>5
  <2>7. level < f.level
    BY <1>1, <1>2, <2>1, <2>4, <2>6
  <2>8. f \in files
    BY <2>6 DEF ReadyToReplace, Replaced
  <2>9. ~drop
    BY <1>1, <2>3, <2>7, <2>8 DEF LevelPlan
  <2>10. Merge(inputs, drop)[k] # Absent
    BY <1>1, <2>1, <2>9, NothingFound, Merged
  <2>11. PICK o \in Holding(outputs, k) : TRUE
    BY <2>10 DEF ReadyToReplace
  <2>12. o \in Holding(S, k) /\ o.level = level
    BY <2>11 DEF Holding, Replaced, ReadyToReplace
  <2> QED
    BY <2>7, <2>12
<1> QED
  BY <1>3, <1>4

-----------------------------------------------------------------------------
\* The least and the greatest of finitely many values of a function.
LEMMA BoundsOfFinite ==
    ASSUME NEW S, S # {}, IsFiniteSet(S), NEW F \in [S -> Nat]
    PROVE  LET values == {F[x] : x \in S}
           IN  \A x \in S : Least(values) <= F[x] /\ F[x] <= Greatest(values)
<1> DEFINE values == {F[x] : x \in S}
<1>1. values \in SUBSET Nat /\ values # {}
  OBVIOUS
<1>2. IsFiniteSet(values)
  <2>1. F \in Surjection(S, values)
    BY DEF Surjection
  <2> HIDE DEF values
  <2> QED
    BY <2>1, FS_Surjection
<1>3. \A x \in S : F[x] \in values
  OBVIOUS
<1> HIDE DEF values
<1>4. \A v \in values : Least(values) <= v /\ v <= Greatest(values)
  BY <1>1, <1>2, LeastOfNaturals, GreatestOfFinite
<1> QED
  BY <1>3, <1>4 DEF values

\* The range of a table bounds its keys.
LEMMA RangeOfTable ==
    ASSUME NEW f \in Table, KeysOf(f.contents) # {}
    PROVE  /\ Smallest(f) \in Nat /\ Largest(f) \in Nat
           /\ Smallest(f) \in KeysOf(f.contents) /\ Largest(f) \in KeysOf(f.contents)
           /\ \A k \in Key : f.contents[k] # Absent =>
                Smallest(f) <= k /\ k <= Largest(f)
<1> DEFINE K == KeysOf(f.contents)
<1>1. K \in SUBSET Nat /\ K # {} /\ IsFiniteSet(K)
  BY KeyAssumption, FS_Subset DEF KeysOf
<1>2. \A k \in Key : f.contents[k] # Absent => k \in K
  BY DEF KeysOf
<1>3. Least(K) \in K /\ Greatest(K) \in K
      /\ Least(K) \in Nat /\ Greatest(K) \in Nat
      /\ \A k \in K : Least(K) <= k /\ k <= Greatest(K)
  <2> HIDE DEF K
  <2> QED
    BY <1>1, LeastOfNaturals, GreatestOfFinite
<1> QED
  BY <1>2, <1>3 DEF Smallest, Largest

\* union_range: the ends of the inputs' ranges bound each of them.
LEMMA UnionRange ==
    ASSUME NEW inputs \in SUBSET Table, IsFiniteSet(inputs), inputs # {},
           \A h \in inputs : KeysOf(h.contents) # {}
    PROVE  LET low  == Least({Smallest(h) : h \in inputs})
               high == Greatest({Largest(h) : h \in inputs})
           IN  /\ low \in Nat /\ high \in Nat
               /\ \A f \in inputs : low <= Smallest(f) /\ Largest(f) <= high
<1> DEFINE lows  == {Smallest(h) : h \in inputs}
           highs == {Largest(h) : h \in inputs}
           Low   == [h \in inputs |-> Smallest(h)]
           High  == [h \in inputs |-> Largest(h)]
<1>1. \A h \in inputs : Smallest(h) \in Nat /\ Largest(h) \in Nat
  BY RangeOfTable
<1>2. Low \in [inputs -> Nat] /\ High \in [inputs -> Nat]
  BY <1>1
<1>3. \A f \in inputs : Least(lows) <= Smallest(f)
  <2>1. \A f \in inputs : Least({Low[x] : x \in inputs}) <= Low[f]
    <3> HIDE DEF Low
    <3> QED
      BY <1>2, BoundsOfFinite
  <2>2. lows = {Low[x] : x \in inputs}
    OBVIOUS
  <2> QED
    BY <2>1, <2>2
<1>4. \A f \in inputs : Largest(f) <= Greatest(highs)
  <2>1. \A f \in inputs : High[f] <= Greatest({High[x] : x \in inputs})
    <3> HIDE DEF High
    <3> QED
      BY <1>2, BoundsOfFinite
  <2>2. highs = {High[x] : x \in inputs}
    OBVIOUS
  <2> QED
    BY <2>1, <2>2
<1>5. Least(lows) \in Nat /\ Greatest(highs) \in Nat
  <2>1. lows \in SUBSET Nat /\ highs \in SUBSET Nat /\ lows # {} /\ highs # {}
    BY <1>1
  <2>2. IsFiniteSet(highs)
    <3>1. High \in Surjection(inputs, highs)
      BY <1>2 DEF Surjection
    <3> HIDE DEF High, highs
    <3> QED
      BY <3>1, FS_Surjection
  <2> HIDE DEF lows, highs
  <2> QED
    BY <2>1, <2>2, LeastOfNaturals, GreatestOfFinite
<1> HIDE DEF lows, highs, Low, High
<1> QED
  BY <1>3, <1>4, <1>5 DEF lows, highs

\* A file of the next level outside the union range of the inputs shares no
\* key with any of them.
LEMMA OutsideTheRange ==
    ASSUME NEW inputs \in SUBSET Table, IsFiniteSet(inputs),
           \A h \in inputs : KeysOf(h.contents) # {},
           NEW files, NEW level,
           NEW f \in inputs, NEW g \in files \ Overlaps(files, inputs, level),
           g \in Table, KeysOf(g.contents) # {}, g.level = level + 1,
           NEW k \in Key
    PROVE  f.contents[k] = Absent \/ g.contents[k] = Absent
<1> DEFINE low  == Least({Smallest(h) : h \in inputs})
           high == Greatest({Largest(h) : h \in inputs})
<1>1. /\ low \in Nat /\ high \in Nat
      /\ low <= Smallest(f) /\ Largest(f) <= high
      /\ ~(Smallest(g) <= high /\ low <= Largest(g))
  BY UnionRange DEF Overlaps, Overlapping, AtLevel
<1> HIDE DEF low, high
<1>2. /\ Smallest(f) \in Nat /\ Largest(f) \in Nat /\ k \in Nat
      /\ Smallest(g) \in Nat /\ Largest(g) \in Nat
  BY RangeOfTable, KeyAssumption
<1>3. CASE f.contents[k] # Absent /\ g.contents[k] # Absent
  <2>1. Smallest(f) <= k /\ k <= Largest(f) /\ Smallest(g) <= k /\ k <= Largest(g)
    BY <1>3, RangeOfTable
  <2> QED
    BY <1>1, <1>2, <2>1
<1> QED
  BY <1>3

\* What pick_compaction and plan_job return is a sound plan.
LEMMA PlanIsSound ==
    ASSUME NEW files, FileSet(files), CompactionDue(files),
           \A f \in files : KeysOf(f.contents) # {}
    PROVE  SoundPlan(files, PickCompaction(files).inputs,
                     PickCompaction(files).outputLevel,
                     PickCompaction(files).dropTombstones)
<1> DEFINE P == PlanLevel(files)
           inputs == PickCompaction(files).inputs
           upper == PlanInputs(files)
<1>1. files \in SUBSET Table /\ IsFiniteSet(files)
  BY DEF FileSet
<1>2. P \in Nat /\ inputs \subseteq files /\ PickCompaction(files).dropTombstones \in BOOLEAN
  BY <1>1, PlanType
<1>3. PickCompaction(files).outputLevel = P + 1
  BY DEF PickCompaction
<1>4. inputs = upper \cup Overlaps(files, upper, P)
  BY DEF PickCompaction
<1>5. \A f \in upper : f \in files /\ f.level = P
  BY DEF PlanInputs, PlanLevel, AtLevel
<1>6. \A f \in Overlaps(files, upper, P) : f.level = P + 1
  BY DEF Overlaps, Overlapping, AtLevel
<1>7. \A f \in inputs : f.level \in {P, P + 1}
  BY <1>4, <1>5, <1>6
<1>8. P + 1 = 1 => AtLevel(files, 0) \subseteq inputs
  <2>1. CASE L0Due(files)
    BY <1>4, <2>1 DEF PlanInputs
  <2>2. CASE ~L0Due(files)
    <3>1. OverfullLevels(files) \in SUBSET Nat /\ OverfullLevels(files) # {}
      BY <1>1, <2>2, OverfullHasFiles DEF CompactionDue
    <3>2. P \in OverfullLevels(files)
      BY <2>2, <3>1, LeastOfNaturals DEF PlanLevel
    <3>3. P >= 1
      BY <1>1, <3>2, OverfullHasFiles
    <3> QED
      BY <1>2, <3>3
  <2> QED
    BY <2>1, <2>2
<1>9. ASSUME NEW f \in inputs, NEW g \in files \ inputs, NEW k \in Key,
             f.level = P, g.level = P + 1
      PROVE  f.contents[k] = Absent \/ g.contents[k] = Absent
  <2>1. f \in upper
    BY <1>2, <1>4, <1>6, <1>9
  <2>2. upper \in SUBSET Table /\ IsFiniteSet(upper) /\ upper \subseteq files
    BY <1>1, <1>5, FS_Subset
  <2>3. g \in files \ Overlaps(files, upper, P) /\ g \in Table
    BY <1>1, <1>4
  <2> HIDE DEF P, upper, inputs
  <2> QED
    BY <1>9, <2>1, <2>2, <2>3, OutsideTheRange
<1>10. PickCompaction(files).dropTombstones => \A g \in files : g.level <= P + 1
  <2>1. \A g \in files : g.level \in Nat
    BY <1>1 DEF Table
  <2>2. \A g \in files : g.level <= Deepest(files)
    <3> DEFINE F == [g \in files |-> g.level]
    <3>1. F \in [files -> Nat] /\ {g.level : g \in files} = {F[g] : g \in files}
      BY <2>1
    <3>2. \A g \in files : F[g] <= Greatest({F[x] : x \in files})
      <4> HIDE DEF F
      <4> QED
        BY <1>1, <3>1, BoundsOfFinite
    <3> QED
      BY <3>1, <3>2 DEF Deepest
  <2>3. PickCompaction(files).dropTombstones => Deepest(files) <= P + 1
    BY DEF PickCompaction, DropsTombstones
  <2>4. files # {} => Deepest(files) \in Nat
    <3> DEFINE F == [g \in files |-> g.level]
               values == {g.level : g \in files}
    <3>1. F \in Surjection(files, values) /\ values \in SUBSET Nat
      BY <2>1 DEF Surjection
    <3>2. files # {} => values # {}
      OBVIOUS
    <3>3. files # {} => Greatest(values) \in Nat
      <4> HIDE DEF F, values
      <4> QED
        BY <1>1, <3>1, <3>2, FS_Surjection, GreatestOfFinite
    <3> QED
      BY <3>3 DEF Deepest
  <2> QED
    BY <1>2, <2>1, <2>2, <2>3, <2>4
<1> QED
  <2> DEFINE drop == PickCompaction(files).dropTombstones
             n == P + 1
  <2>1. n \in Nat /\ n >= 1 /\ n - 1 = P
    BY <1>2
  <2> HIDE DEF P, inputs, drop
  <2>2. \A f \in inputs : f.level \in {n - 1, n}
    BY <1>7, <2>1
  <2>3. \A f \in inputs, g \in files \ inputs, k \in Key :
          f.level = n - 1 /\ g.level = n
             => f.contents[k] = Absent \/ g.contents[k] = Absent
    BY <1>9, <2>1
  <2>4. drop => \A g \in files : g.level <= n
    BY <1>10 DEF drop
  <2> HIDE DEF n
  <2>5. LevelPlan(files, inputs, n, drop)
    BY <1>8, <2>2, <2>3, <2>4 DEF LevelPlan, n
  <2> QED
    BY <1>2, <1>3, <2>1, <2>5 DEF SoundPlan, n, inputs, drop

\* compact_full merges every file into level 1, and so may drop tombstones.
LEMMA FullPlanIsSound ==
    ASSUME NEW files
    PROVE  SoundPlan(files, files, 1, TRUE)
BY DEF SoundPlan, FullPlan

-----------------------------------------------------------------------------
(***************************************************************************)
(* Files that lie side by side: below level 0, the key ranges of a level's *)
(* files are disjoint.                                                     *)
(***************************************************************************)
Below(f, g) ==
    \A j \in KeysOf(f.contents), k \in KeysOf(g.contents) : j < k

Apart(f, g) == Below(f, g) \/ Below(g, f)

SideBySide(files) ==
    \A f, g \in files : f # g /\ f.level = g.level /\ f.level > 0 => Apart(f, g)

\* The files of a level that are not merged lie to one side of those that are.
Beside(files, inputs, level) ==
    \A g \in files \ inputs : g.level = level =>
        \/ \A f \in inputs : Below(f, g)
        \/ \A f \in inputs : Below(g, f)

Held(inputs, k) == \E f \in inputs : f.contents[k] # Absent

\* Key ranges say the same.
LEMMA BelowByRange ==
    ASSUME NEW f \in Table, KeysOf(f.contents) # {},
           NEW g \in Table, KeysOf(g.contents) # {}
    PROVE  Below(f, g) <=> Largest(f) < Smallest(g)
<1>1. /\ Largest(f) \in KeysOf(f.contents) /\ Smallest(g) \in KeysOf(g.contents)
      /\ Largest(f) \in Nat /\ Smallest(g) \in Nat
      /\ \A k \in KeysOf(f.contents) : k <= Largest(f) /\ k \in Nat
      /\ \A k \in KeysOf(g.contents) : Smallest(g) <= k /\ k \in Nat
  BY RangeOfTable, KeyAssumption DEF KeysOf
<1> QED
  BY <1>1 DEF Below

\* The planner's level has a file to merge.
LEMMA PlanHasInputs ==
    ASSUME NEW files, FileSet(files), CompactionDue(files)
    PROVE  PlanInputs(files) # {}
<1> DEFINE P == PlanLevel(files)
           at == AtLevel(files, P)
<1>1. files \in SUBSET Table
  BY DEF FileSet
<1>2. CASE L0Due(files)
  <2>1. LevelConfig.l0_compaction_threshold >= 1
    BY LevelConfigAssumption DEF LevelConfig, AtLeast
  <2>2. AtLevel(files, 0) # {}
    BY <1>2, <2>1, FS_EmptySet, LevelConfigAssumption DEF L0Due, LevelConfig, AtLeast
  <2> QED
    BY <1>2, <2>2 DEF PlanInputs
<1>3. CASE ~L0Due(files)
  <2>1. P \in OverfullLevels(files)
    <3>1. OverfullLevels(files) \in SUBSET Nat /\ OverfullLevels(files) # {}
      BY <1>1, <1>3, OverfullHasFiles DEF CompactionDue
    <3> QED
      BY <1>3, <3>1, LeastOfNaturals DEF PlanLevel
  <2>2. at # {} /\ \A f \in at : f \in files /\ f.id \in Nat
    BY <1>1, <2>1, OverfullHasFiles DEF AtLevel, Table
  <2> DEFINE ids == {f.id : f \in at}
  <2>3. ids \in SUBSET Nat /\ ids # {}
    BY <2>2
  <2>4. Least(ids) \in ids /\ \A i \in ids : Least(ids) <= i
    <3> HIDE DEF ids
    <3> QED
      BY <2>3, LeastOfNaturals
  <2>5. PICK f \in at : \A g \in at : f.id <= g.id
    BY <2>4
  <2> QED
    BY <1>3, <2>5 DEF PlanInputs
<1> QED
  BY <1>2, <1>3

\* The planner takes every file of the next level that the merge could come
\* to overlap: those that meet the union range meet nothing further out.
LEMMA PlanIsBeside ==
    ASSUME NEW files, FileSet(files), CompactionDue(files),
           \A f \in files : KeysOf(f.contents) # {}, SideBySide(files)
    PROVE  Beside(files, PickCompaction(files).inputs,
                  PickCompaction(files).outputLevel)
<1> DEFINE P == PlanLevel(files)
           upper == PlanInputs(files)
           inputs == PickCompaction(files).inputs
           low  == Least({Smallest(h) : h \in upper})
           high == Greatest({Largest(h) : h \in upper})
<1>1. files \in SUBSET Table /\ IsFiniteSet(files) /\ P \in Nat
  BY PlanType DEF FileSet
<1>2. /\ PickCompaction(files).outputLevel = P + 1
      /\ inputs = upper \cup Overlaps(files, upper, P)
  BY DEF PickCompaction
<1>3. upper \subseteq files /\ upper # {} /\ IsFiniteSet(upper)
  BY <1>1, PlanHasInputs, FS_Subset DEF PlanInputs, AtLevel
<1>4. /\ low \in Nat /\ high \in Nat
      /\ \A f \in upper : low <= Smallest(f) /\ Largest(f) <= high
  BY <1>1, <1>3, UnionRange
<1>5. \A f \in Overlaps(files, upper, P) :
        f \in files /\ f.level = P + 1 /\ Smallest(f) <= high /\ low <= Largest(f)
  BY DEF Overlaps, Overlapping, AtLevel
<1>6. ASSUME NEW g \in files \ inputs, g.level = P + 1
      PROVE  ~(Smallest(g) <= high /\ low <= Largest(g))
  BY <1>2, <1>6 DEF Overlaps, Overlapping, AtLevel
<1> HIDE DEF upper, low, high, inputs, P
<1>7. \A f \in files : /\ f \in Table /\ Smallest(f) \in Nat /\ Largest(f) \in Nat
                        /\ Smallest(f) <= Largest(f)
  BY <1>1, RangeOfTable, KeyAssumption DEF KeysOf
<1>8. \A f, g \in files : Below(f, g) <=> Largest(f) < Smallest(g)
  BY <1>7, BelowByRange
<1>9. ASSUME NEW g \in files \ inputs, g.level = P + 1
      PROVE  \/ \A f \in inputs : Below(f, g)
             \/ \A f \in inputs : Below(g, f)
  <2>1. \A f \in Overlaps(files, upper, P) :
          Largest(f) < Smallest(g) \/ Largest(g) < Smallest(f)
    BY <1>1, <1>2, <1>5, <1>8, <1>9 DEF SideBySide, Apart
  <2>2. CASE high < Smallest(g)
    <3>1. \A f \in upper : Largest(f) < Smallest(g)
      BY <1>3, <1>4, <1>7, <2>2
    <3>2. \A f \in Overlaps(files, upper, P) : Largest(f) < Smallest(g)
      BY <1>4, <1>5, <1>7, <2>1, <2>2
    <3> QED
      BY <1>2, <1>3, <1>5, <1>8, <3>1, <3>2
  <2>3. CASE Largest(g) < low
    <3>1. \A f \in upper : Largest(g) < Smallest(f)
      BY <1>3, <1>4, <1>7, <2>3
    <3>2. \A f \in Overlaps(files, upper, P) : Largest(g) < Smallest(f)
      BY <1>4, <1>5, <1>7, <2>1, <2>3
    <3> QED
      BY <1>2, <1>3, <1>5, <1>8, <3>1, <3>2
  <2> QED
    BY <1>4, <1>6, <1>7, <1>9, <2>2, <2>3
<1> QED
  BY <1>2, <1>9 DEF Beside, inputs, P

\* Outputs that lie side by side, with keys from the inputs only, fit in where
\* the inputs were.
LEMMA SwapSideBySide ==
    ASSUME NEW files, NEW inputs, NEW level, NEW outputs, NEW kept,
           SideBySide(files), Beside(files, inputs, level),
           kept \subseteq files \ inputs,
           \A o \in outputs :
              /\ o.level = level
              /\ \A k \in KeysOf(o.contents) : Held(inputs, k),
           \A o, p \in outputs : o # p => Apart(o, p)
    PROVE  SideBySide(kept \cup outputs)
<1>1. ASSUME NEW o \in outputs, NEW g \in kept, g.level = level
      PROVE  Apart(o, g)
  <2>1. \A k \in KeysOf(o.contents) :
          \E f \in inputs : k \in KeysOf(f.contents)
    BY DEF Held, KeysOf
  <2>2. CASE \A f \in inputs : Below(f, g)
    BY <2>1, <2>2 DEF Below, Apart
  <2>3. CASE \A f \in inputs : Below(g, f)
    BY <2>1, <2>3 DEF Below, Apart
  <2> QED
    BY <1>1, <2>2, <2>3 DEF Beside
<1>2. ASSUME NEW f \in kept \cup outputs, NEW g \in kept \cup outputs,
             f # g, f.level = g.level, f.level > 0
      PROVE  Apart(f, g)
  <2>1. CASE f \in outputs /\ g \in outputs
    BY <1>2, <2>1
  <2>2. CASE f \in outputs /\ g \in kept
    BY <1>1, <1>2, <2>2
  <2>3. CASE f \in kept /\ g \in outputs
    BY <1>1, <1>2, <2>3 DEF Apart
  <2>4. CASE f \in kept /\ g \in kept
    BY <1>2, <2>4 DEF SideBySide
  <2> QED
    BY <2>1, <2>2, <2>3, <2>4
<1> QED
  BY <1>2 DEF SideBySide

\* The keys of an output come before those that are left.
LEMMA CutInOrder ==
    ASSUME NEW contents \in Contents, NEW n \in Nat,
           NEW j \in FirstKeys(contents, n),
           NEW k \in KeysOf(contents) \ FirstKeys(contents, n)
    PROVE  j < k
<1> DEFINE K == KeysOf(contents)
           Before(x) == {i \in K : i < x}
<1>1. K \in SUBSET Nat /\ IsFiniteSet(K) /\ j \in K /\ k \in K /\ j # k
  BY KeyAssumption, FS_Subset DEF KeysOf, FirstKeys
<1>2. Cardinality(Before(j)) < n /\ ~(Cardinality(Before(k)) < n)
  BY DEF FirstKeys
<1>3. SUFFICES ASSUME k < j PROVE FALSE
  BY <1>1
<1>4. Before(k) \subseteq Before(j)
  BY <1>1, <1>3
<1>5. IsFiniteSet(Before(j)) /\ Before(j) \subseteq K
  BY <1>1, FS_Subset
<1>6. /\ Cardinality(Before(k)) <= Cardinality(Before(j))
      /\ Cardinality(Before(k)) \in Nat /\ Cardinality(Before(j)) \in Nat
  <2> HIDE DEF Before
  <2> QED
    BY <1>4, <1>5, FS_Subset, FS_CardinalityType
<1> QED
  BY <1>2, <1>6
=============================================================================
