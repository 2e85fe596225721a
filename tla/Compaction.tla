----------------------------- MODULE Compaction -----------------------------
(***************************************************************************)
(* The compaction planner (compaction.rs): which files are merged next,    *)
(* into which level, and whether their tombstones may go.  The size of a   *)
(* file is its number of records.                                          *)
(***************************************************************************)
EXTENDS Lsm

CONSTANTS
    L0Threshold,          \* DbOptions::l0_compaction_threshold
    LevelSizeMultiplier,  \* DbOptions::level_size_multiplier
    TargetLevelSize       \* DbOptions::target_level_size, in records

ASSUME LevelConfigAssumption ==
    /\ L0Threshold \in Nat
    /\ LevelSizeMultiplier \in Nat
    /\ TargetLevelSize \in Nat

AtLeast(low, n) == IF n < low THEN low ELSE n

\* LevelConfig::new clamps what the options ask for.
LevelConfig ==
    [l0_compaction_threshold |-> AtLeast(1, L0Threshold),
     level_size_multiplier   |-> AtLeast(2, LevelSizeMultiplier),
     target_level_size       |-> AtLeast(1, TargetLevelSize)]

LevelCapacity(level) ==
    LevelConfig.target_level_size
        * LevelConfig.level_size_multiplier ^ (level - 1)

AtLevel(files, level) == {f \in files : f.level = level}

LevelSize(files, level) ==
    Cardinality({r \in AtLevel(files, level) \X Key :
                    r[1].contents[r[2]] # Absent})

Deepest(files) == Greatest({f.level : f \in files})

\* overlapping: the files of a level that meet the range low..high.
Overlapping(files, level, low, high) ==
    {f \in AtLevel(files, level) : Smallest(f) <= high /\ low <= Largest(f)}

\* mutant: each input's own range, not the range from end to end
SeparateOverlaps(files, inputs, level) ==
    UNION {Overlapping(files, level + 1, Smallest(f), Largest(f)) : f \in inputs}

\* mutant: the level of the inputs, not the one below
SameLevelOverlaps(files, inputs, level) ==
    Overlapping(files, level,
                Least({Smallest(f) : f \in inputs}),
                Greatest({Largest(f) : f \in inputs}))

\* The union range of the inputs, and what it meets one level down.
Overlaps(files, inputs, level) ==
    Overlapping(files, level + 1,
                Least({Smallest(f) : f \in inputs}),
                Greatest({Largest(f) : f \in inputs}))

\* Level 0 has no capacity, and a level with no files is passed over.
OverfullLevels(files) ==
    {n \in {f.level : f \in files} \ {0} : LevelSize(files, n) > LevelCapacity(n)}

L0Due(files) ==
    Cardinality(AtLevel(files, 0)) >= LevelConfig.l0_compaction_threshold

\* pick_compaction returns Some plan.
CompactionDue(files) ==
    files # {} /\ (L0Due(files) \/ OverfullLevels(files) # {})

PlanLevel(files) == IF L0Due(files) THEN 0 ELSE Least(OverfullLevels(files))

\* All of level 0, or the oldest file of the first level over its capacity.
PlanInputs(files) ==
    IF L0Due(files)
    THEN AtLevel(files, 0)
    ELSE {f \in AtLevel(files, PlanLevel(files)) :
            \A g \in AtLevel(files, PlanLevel(files)) : f.id <= g.id}

DropsOneLevelEarly(files) == Deepest(files) <= PlanLevel(files) + 2    \* mutant

\* Tombstones may go when no level lies below the output level.
DropsTombstones(files) == Deepest(files) <= PlanLevel(files) + 1

\* pick_compaction followed by plan_job.
PickCompaction(files) ==
    [inputs |-> PlanInputs(files)
                    \cup Overlaps(files, PlanInputs(files), PlanLevel(files)),
     outputLevel    |-> PlanLevel(files) + 1,
     dropTombstones |-> DropsTombstones(files)]
=============================================================================
