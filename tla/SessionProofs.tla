--------------------------- MODULE SessionProofs ---------------------------
(***************************************************************************)
(* Safety of the control session for every set of effects, schemas,        *)
(* presets, files and bounds.                                              *)
(*                                                                         *)
(* The inductive invariant is Inv: the types, that the active preset       *)
(* builds, and that the live chain follows it.  The last two need each     *)
(* other: a `set` is let through by the live chain, which has to know the  *)
(* effects of the preset for the edited preset to build.  The first parts  *)
(* are about the operators of Preset: the shape of a preset and of a live  *)
(* chain, the correspondence between the two, and what edits keep of it.   *)
(***************************************************************************)
EXTENDS Session, TLAPS

\* A truth value is a member of BOOLEAN.
LEMMA TruthValues == \A v : (v <=> TRUE) \/ (v <=> FALSE)
  BY Zenon

-----------------------------------------------------------------------------
(* Shapes. *)

\* Parameters stay parameters when one is written.
LEMMA WithParams ==
  ASSUME NEW params, IsParams(params), NEW f \in Param, NEW v \in Value
  PROVE  IsParams(With(params, f, v))
  BY DEF IsParams, IsPartial, With

\* A table stays a table when an entry is written or entries are dropped.
LEMMA WithTable ==
  ASSUME NEW table, IsTable(table), NEW e \in Effect, NEW entry, IsEntry(entry)
  PROVE  IsTable(With(table, e, entry))
  BY DEF IsTable, IsPartial, With

LEMMA RestrictTable ==
  ASSUME NEW table, IsTable(table), NEW S, S \subseteq DOMAIN table
  PROVE  IsTable(Restrict(table, S))
  BY DEF IsTable, IsPartial, Restrict

\* The empty function is a table and a set of parameters.
LEMMA NoneShape == IsTable(None) /\ IsParams(None)
  BY DEF None, IsTable, IsParams, IsPartial

LEMMA EmptySectionShape == IsSection(EmptySection)
  BY NoneShape DEF EmptySection, IsSection

\* What a section says of an effect is well formed.
LEMMA ParamsOfShape ==
  ASSUME NEW section, IsSection(section), NEW e
  PROVE  IsParams(ParamsOf(section, e)) /\ EnabledIn(section, e) \in BOOLEAN
<1>1. IsParams(ParamsOf(section, e))
  BY NoneShape DEF ParamsOf, IsSection, IsTable, IsEntry
<1>2. EnabledIn(section, e) \in BOOLEAN
  BY DEF EnabledIn
<1> QED
  BY <1>1, <1>2

\* Replacing or adding a section keeps a preset a preset, and so does dropping one.
LEMMA ReplaceSection ==
  ASSUME NEW p, IsPreset(p), NEW k \in DOMAIN p, NEW section, IsSection(section)
  PROVE  IsPreset([p EXCEPT ![k] = section])
  BY DEF IsPreset, IsPartial

LEMMA WithSection ==
  ASSUME NEW p, IsPreset(p), NEW k \in Kind, NEW section, IsSection(section)
  PROVE  IsPreset(With(p, k, section))
  BY DEF IsPreset, IsPartial, With

LEMMA WithoutSection ==
  ASSUME NEW p, IsPreset(p), NEW k
  PROVE  IsPreset(Without(p, k))
  BY DEF IsPreset, IsPartial, Without, Restrict

\* The table of one section replaced by another table.
LEMMA ReplaceTable ==
  ASSUME NEW p, IsPreset(p), NEW k \in DOMAIN p, NEW table, IsTable(table)
  PROVE  /\ IsPreset([p EXCEPT ![k].table = table])
         /\ [p EXCEPT ![k].table = table]
              = [p EXCEPT ![k] = [chain |-> p[k].chain, table |-> table, model |-> p[k].model]]
<1> DEFINE section == [chain |-> p[k].chain, table |-> table, model |-> p[k].model]
<1>1. IsSection(p[k])
  BY DEF IsPreset
<1>2. IsSection(section)
  BY <1>1 DEF IsSection
<1>3. [p[k] EXCEPT !.table = table] = section
  BY <1>1 DEF IsSection
<1>4. [p EXCEPT ![k].table = table] = [p EXCEPT ![k] = section]
  BY <1>3
<1> QED
  BY <1>2, <1>4, ReplaceSection

\* Every edit of a preset yields a preset.
LEMMA MaterialisedShape ==
  ASSUME NEW p, IsPreset(p), NEW k \in Kind
  PROVE  IsPreset(Materialised(p, k)) /\ k \in DOMAIN Materialised(p, k)
  BY WithSection, EmptySectionShape DEF Materialised, With

LEMMA RevertAbsentShape ==
  ASSUME NEW p, IsPreset(p), NEW k, NEW absent
  PROVE  IsPreset(RevertAbsent(p, k, absent))
  BY WithoutSection DEF RevertAbsent

LEMMA PutEntryShape ==
  ASSUME NEW p, IsPreset(p), NEW k \in DOMAIN p, NEW e \in Effect,
         NEW entry, IsEntry(entry)
  PROVE  IsPreset(PutEntry(p, k, e, entry))
<1>1. IsTable(With(p[k].table, e, entry))
  BY WithTable DEF IsPreset, IsSection
<1> QED
  BY <1>1, ReplaceTable DEF PutEntry

LEMMA DropEntryShape ==
  ASSUME NEW p, IsPreset(p), NEW k \in DOMAIN p, NEW e
  PROVE  IsPreset(DropEntry(p, k, e))
<1>1. IsTable(Without(p[k].table, e))
  BY RestrictTable DEF IsPreset, IsSection, Without
<1> QED
  BY <1>1, ReplaceTable DEF DropEntry

LEMMA RestoreEntryShape ==
  ASSUME NEW p, IsPreset(p), NEW k \in DOMAIN p, NEW e, NEW table, IsTable(table)
  PROVE  IsPreset(RestoreEntry(p, k, e, table))
  BY PutEntryShape, DropEntryShape DEF RestoreEntry, IsTable, IsPartial

LEMMA MergedShape ==
  ASSUME NEW section, IsSection(section), NEW e, NEW f \in Param, NEW v \in Value
  PROVE  IsEntry(Merged(section, e, f, v))
  BY ParamsOfShape, WithParams DEF Merged, IsEntry

LEMMA RechainedShape ==
  ASSUME NEW p, IsPreset(p), NEW k \in DOMAIN p, NEW names \in Seq(Effect)
  PROVE  IsPreset(Rechained(p, k, names))
<1> DEFINE table == Restrict(p[k].table, DOMAIN p[k].table \intersect Range(names))
           section == [chain |-> names, table |-> table, model |-> p[k].model]
<1>1. IsTable(table)
  BY RestrictTable DEF IsPreset, IsSection
<1>2. IsSection(section)
  BY <1>1 DEF IsPreset, IsSection
<1>3. Rechained(p, k, names) = [p EXCEPT ![k] = section]
  BY DEF Rechained
<1>4. IsPreset([p EXCEPT ![k] = section])
  BY <1>2, ReplaceSection
<1> HIDE DEF section
<1> QED
  BY <1>3, <1>4

LEMMA ToggledShape ==
  ASSUME NEW p, IsPreset(p), NEW k \in DOMAIN p, NEW e \in Effect, NEW on \in BOOLEAN
  PROVE  IsPreset(Toggled(p, k, e, on))
<1>1. IsParams(ParamsOf(p[k], e))
  BY ParamsOfShape DEF IsPreset
<1>2. \A b \in BOOLEAN : IsEntry([params |-> ParamsOf(p[k], e), on |-> b])
  BY <1>1 DEF IsEntry
<1> QED
  BY <1>2, PutEntryShape, DropEntryShape DEF Toggled

LEMMA NormalisedShape ==
  ASSUME NEW p, IsPreset(p)
  PROVE  IsPreset(Normalised(p))
<1> DEFINE table(k) == Restrict(p[k].table, DOMAIN p[k].table \intersect Range(p[k].chain))
<1>1. ASSUME NEW k \in DOMAIN p
      PROVE  IsSection([p[k] EXCEPT !.table = table(k)])
  <2>1. IsSection(p[k])
    BY DEF IsPreset
  <2>2. IsTable(table(k))
    BY <2>1, RestrictTable DEF IsSection
  <2>3. [p[k] EXCEPT !.table = table(k)] = [chain |-> p[k].chain, table |-> table(k), model |-> p[k].model]
    BY <2>1 DEF IsSection
  <2> QED
    BY <2>1, <2>2, <2>3 DEF IsSection
<1>2. DOMAIN Normalised(p) = DOMAIN p
  BY DEF Normalised
<1>3. \A k \in DOMAIN p : Normalised(p)[k] = [p[k] EXCEPT !.table = table(k)]
  BY DEF Normalised
<1>4. \A k \in DOMAIN p : IsSection(Normalised(p)[k])
  BY <1>1, <1>3
<1>5. IsPartial(Normalised(p), Kind)
  BY DEF Normalised, IsPreset, IsPartial
<1> QED
  BY <1>2, <1>4, <1>5 DEF IsPreset

\* A section that configures has slots, and a preset a chain.
LEMMA SlotsShape ==
  ASSUME NEW section, IsSection(section)
  PROVE  IsSlots(Slots(section))
<1>1. \A i \in DOMAIN section.chain : section.chain[i] \in Effect
  BY DEF IsSection
<1>2. ASSUME NEW i \in DOMAIN section.chain
      PROVE  IsSlot(Slots(section)[i])
  BY <1>1, <1>2, ParamsOfShape DEF Slots, IsSlot
<1> QED
  BY <1>2 DEF IsSlots, Slots

LEMMA ChainShape ==
  ASSUME NEW p, IsPreset(p)
  PROVE  IsChain(Chain(p))
<1>1. \A k \in DOMAIN p : IsSlots(Slots(p[k]))
  BY SlotsShape DEF IsPreset
<1>2. IsSlots(<<>>)
  BY DEF IsSlots
<1>3. IsChain(Passthrough)
  BY DEF IsChain, IsPartial, Passthrough, None
<1> QED
  BY <1>1, <1>2, <1>3 DEF Chain, IsChain, IsPartial

\* One section's slots replaced.
LEMMA ReplaceSlots ==
  ASSUME NEW live0, IsChain(live0), NEW k \in DOMAIN live0, NEW slots, IsSlots(slots)
  PROVE  IsChain([live0 EXCEPT ![k] = slots])
  BY DEF IsChain, IsPartial

LEMMA ReconfiguredShape ==
  ASSUME NEW live0, IsChain(live0), NEW k \in DOMAIN live0, NEW e,
         NEW params, IsParams(params)
  PROVE  IsChain(Reconfigured(live0, k, e, params))
<1> DEFINE slots == [i \in DOMAIN live0[k] |->
              IF live0[k][i].name = e /\ IsFirst(live0[k], i)
              THEN [live0[k][i] EXCEPT !.params = params] ELSE live0[k][i]]
<1>1. \A i \in DOMAIN live0[k] : IsSlot(live0[k][i])
  BY DEF IsChain, IsSlots
<1>2. \A i \in DOMAIN live0[k] : IsSlot([live0[k][i] EXCEPT !.params = params])
  BY <1>1 DEF IsSlot
<1>3. IsSlots(slots)
  BY <1>1, <1>2 DEF IsSlots
<1> QED
  BY <1>3, ReplaceSlots DEF Reconfigured

LEMMA SwitchedShape ==
  ASSUME NEW live0, IsChain(live0), NEW k \in DOMAIN live0, NEW e, NEW on \in BOOLEAN
  PROVE  IsChain(Switched(live0, k, e, on))
<1> DEFINE slots == [i \in DOMAIN live0[k] |->
              IF live0[k][i].name = e
              THEN [live0[k][i] EXCEPT !.on = on] ELSE live0[k][i]]
<1>1. \A i \in DOMAIN live0[k] : IsSlot(live0[k][i])
  BY DEF IsChain, IsSlots
<1>2. \A i \in DOMAIN live0[k] : IsSlot([live0[k][i] EXCEPT !.on = on])
  BY <1>1 DEF IsSlot
<1>3. IsSlots(slots)
  BY <1>1, <1>2 DEF IsSlots
<1> QED
  BY <1>3, ReplaceSlots DEF Switched

-----------------------------------------------------------------------------
(* Undoing an edit. *)

\* A table with an entry written and put back is the old table.
LEMMA RestoreUndoes ==
  ASSUME NEW p, IsPreset(p), NEW k \in DOMAIN p, NEW e, NEW entry
  PROVE  RestoreEntry(PutEntry(p, k, e, entry), k, e, p[k].table) = p
<1> DEFINE table == p[k].table
<1>1. /\ p = [x \in DOMAIN p |-> p[x]]
      /\ p[k] = [chain |-> p[k].chain, table |-> table, model |-> p[k].model]
      /\ table = [x \in DOMAIN table |-> table[x]]
  BY DEF IsPreset, IsPartial, IsSection, IsTable
<1>2. CASE e \in DOMAIN table
  <2>1. With(With(table, e, entry), e, table[e]) = table
    BY <1>1, <1>2 DEF With
  <2> QED
    BY <1>1, <1>2, <2>1 DEF RestoreEntry, PutEntry
<1>3. CASE e \notin DOMAIN table
  <2>1. Without(With(table, e, entry), e) = table
    BY <1>1, <1>3 DEF With, Without, Restrict
  <2> QED
    BY <1>1, <1>3, <2>1 DEF RestoreEntry, PutEntry, DropEntry
<1> QED
  BY <1>2, <1>3

\* A section made for nothing is unmade.
LEMMA RevertUndoes ==
  ASSUME NEW p, IsPreset(p), NEW k
  PROVE  RevertAbsent(Materialised(p, k), k, k \notin DOMAIN p) = p
<1>1. p = [x \in DOMAIN p |-> p[x]]
  BY DEF IsPreset, IsPartial
<1>2. CASE k \in DOMAIN p
  BY <1>2 DEF Materialised, RevertAbsent
<1>3. CASE k \notin DOMAIN p
  <2>1. With(p, k, EmptySection)[k] = EmptySection
    BY DEF With
  <2>2. Without(With(p, k, EmptySection), k) = p
    BY <1>1, <1>3 DEF With, Without, Restrict
  <2> QED
    BY <1>3, <2>1, <2>2 DEF Materialised, RevertAbsent
<1> QED
  BY <1>2, <1>3

\* Configuring an effect as it is configured changes nothing.
LEMMA ReconfigureSame ==
  ASSUME NEW live0, IsChain(live0), NEW k \in DOMAIN live0, NEW e, NEW params,
         \A i \in DOMAIN live0[k] :
            live0[k][i].name = e /\ IsFirst(live0[k], i) => live0[k][i].params = params
  PROVE  Reconfigured(live0, k, e, params) = live0
<1> DEFINE slots == [i \in DOMAIN live0[k] |->
              IF live0[k][i].name = e /\ IsFirst(live0[k], i)
              THEN [live0[k][i] EXCEPT !.params = params] ELSE live0[k][i]]
<1>1. live0[k] = [i \in DOMAIN live0[k] |-> live0[k][i]]
  BY DEF IsChain, IsSlots
<1>2. ASSUME NEW i \in DOMAIN live0[k], live0[k][i].name = e, IsFirst(live0[k], i)
      PROVE  [live0[k][i] EXCEPT !.params = params] = live0[k][i]
  <2>1. live0[k][i] = [name |-> live0[k][i].name, params |-> params, on |-> live0[k][i].on]
    BY <1>2 DEF IsChain, IsSlots, IsSlot
  <2> QED
    BY <2>1
<1>3. slots = live0[k]
  BY <1>1, <1>2
<1>4. live0 = [x \in DOMAIN live0 |-> live0[x]]
  BY DEF IsChain, IsPartial
<1>5. [live0 EXCEPT ![k] = live0[k]] = live0
  BY <1>4
<1> QED
  BY <1>3, <1>5 DEF Reconfigured

-----------------------------------------------------------------------------
(* A preset that builds still builds after the edits. *)

LEMMA SetBuilds ==
  ASSUME NEW p, IsPreset(p), Builds(p), "mask" \in DOMAIN p, NEW k \in DOMAIN p,
         NEW e \in Range(p[k].chain), NEW entry, Accepts(e, entry.params)
  PROVE  Builds(PutEntry(p, k, e, entry))
<1> DEFINE q == PutEntry(p, k, e, entry)
<1>1. DOMAIN q = DOMAIN p
  BY DEF PutEntry
<1>2. \A x \in DOMAIN p : x # k => q[x] = p[x]
  BY DEF PutEntry
<1>3. q[k].chain = p[k].chain /\ q[k].table = With(p[k].table, e, entry) /\ q[k].model = p[k].model
  BY DEF PutEntry, IsPreset, IsSection
<1>4. NoOrphans(q[k])
  BY <1>3 DEF NoOrphans, With, Builds
<1>5. \A x : x # e => ParamsOf(q[k], x) = ParamsOf(p[k], x)
  BY <1>3 DEF ParamsOf, With
<1>6. ParamsOf(q[k], e) = entry.params
  BY <1>3 DEF ParamsOf, With
<1>7. Configures(k, q[k])
  BY <1>3, <1>5, <1>6 DEF Configures, Builds
<1> QED
  BY <1>1, <1>2, <1>3, <1>4, <1>7 DEF Builds, PlanesHaveMask

LEMMA DropBuilds ==
  ASSUME NEW p, IsPreset(p), Builds(p), "mask" \in DOMAIN p, NEW k \in DOMAIN p,
         NEW e, ParamsOf(p[k], e) = None
  PROVE  Builds(DropEntry(p, k, e))
<1> DEFINE q == DropEntry(p, k, e)
<1>1. DOMAIN q = DOMAIN p
  BY DEF DropEntry
<1>2. \A x \in DOMAIN p : x # k => q[x] = p[x]
  BY DEF DropEntry
<1>3. q[k].chain = p[k].chain /\ q[k].table = Without(p[k].table, e) /\ q[k].model = p[k].model
  BY DEF DropEntry, IsPreset, IsSection
<1>4. NoOrphans(q[k])
  BY <1>3 DEF NoOrphans, Without, Restrict, Builds
<1>5. \A x : ParamsOf(q[k], x) = ParamsOf(p[k], x)
  BY <1>3 DEF ParamsOf, Without, Restrict
<1>6. Configures(k, q[k])
  BY <1>3, <1>5 DEF Configures, Builds
<1> QED
  BY <1>1, <1>2, <1>3, <1>4, <1>6 DEF Builds, PlanesHaveMask

LEMMA ToggledBuilds ==
  ASSUME NEW p, IsPreset(p), Builds(p), "mask" \in DOMAIN p, NEW k \in DOMAIN p,
         NEW e \in Range(p[k].chain), NEW on \in BOOLEAN
  PROVE  Builds(Toggled(p, k, e, on))
<1>1. Accepts(e, ParamsOf(p[k], e))
  BY DEF Builds, Configures
<1>2. \A b \in BOOLEAN : Builds(PutEntry(p, k, e, [params |-> ParamsOf(p[k], e), on |-> b]))
  BY <1>1, SetBuilds
<1>3. ASSUME DOMAIN ParamsOf(p[k], e) = {}
      PROVE  Builds(DropEntry(p, k, e))
  <2>1. IsParams(ParamsOf(p[k], e))
    BY ParamsOfShape DEF IsPreset
  <2>2. ParamsOf(p[k], e) = None
    BY <1>3, <2>1 DEF None, IsParams, IsPartial
  <2> QED
    BY <2>2, DropBuilds
<1> QED
  BY <1>2, <1>3 DEF Toggled

LEMMA RechainedBuilds ==
  ASSUME NEW p, IsPreset(p), Builds(p), "mask" \in DOMAIN p, NEW k \in Kind,
         NEW names \in Seq(Effect),
         Configures(k, [Materialised(p, k)[k] EXCEPT !.chain = names])
  PROVE  Builds(Rechained(Materialised(p, k), k, names))
<1> DEFINE m == Materialised(p, k)
           q == Rechained(m, k, names)
           wanted == [m[k] EXCEPT !.chain = names]
<1>1. IsPreset(m) /\ k \in DOMAIN m
  BY MaterialisedShape
<1>2. DOMAIN q = DOMAIN p \union {k}
  BY DEF Rechained, Materialised, With
<1>3. \A x \in DOMAIN p : x # k => q[x] = p[x]
  BY DEF Rechained, Materialised, With
<1>4. /\ q[k].chain = names
      /\ q[k].table = Restrict(m[k].table, DOMAIN m[k].table \intersect Range(names))
      /\ q[k].model = m[k].model
  BY <1>1 DEF Rechained
<1>5. wanted.chain = names /\ wanted.table = m[k].table
  BY <1>1 DEF IsPreset, IsSection
<1>6. NoOrphans(q[k])
  BY <1>4 DEF NoOrphans, Restrict
<1>7. \A e \in Range(names) : ParamsOf(q[k], e) = ParamsOf(wanted, e)
  BY <1>4, <1>5 DEF ParamsOf, Restrict
<1>8. Configures(k, q[k])
  BY <1>4, <1>5, <1>7 DEF Configures
<1>9. q["mask"].model
  BY <1>3, <1>4 DEF Builds, Materialised
<1> QED
  BY <1>2, <1>3, <1>6, <1>8, <1>9 DEF Builds, PlanesHaveMask

-----------------------------------------------------------------------------
(* The chain follows the preset through building and editing. *)

LEMMA ChainFollows ==
  ASSUME NEW p, IsPreset(p)
  PROVE  Follows(Chain(p), p)
<1>1. \A section : SlotsFollow(Slots(section), section)
  BY DEF SlotsFollow, Slots
<1>2. SlotsFollow(<<>>, EmptySection)
  BY DEF SlotsFollow, EmptySection
<1> QED
  BY <1>1, <1>2 DEF Follows, Chain, SectionOf, IsComposite

\* A section made empty for an edit is followed by the slots there are.
LEMMA MaterialisedFollows ==
  ASSUME NEW p, NEW live0, Follows(live0, p), "mask" \in DOMAIN p, NEW k \in Kind
  PROVE  Follows(live0, Materialised(p, k))
  BY DEF Follows, Materialised, SectionOf, With

\* An edit of section k and of the slots of section k, seen from all sections.
LEMMA SectionEdited ==
  ASSUME NEW p, NEW live0, Follows(live0, p), "mask" \in DOMAIN p,
         NEW k \in DOMAIN p, k \in Kind,
         NEW q, DOMAIN q = DOMAIN p, \A x \in DOMAIN p : x # k => q[x] = p[x],
         NEW slots, SlotsFollow(slots, q[k])
  PROVE  Follows([live0 EXCEPT ![k] = slots], q)
<1> DEFINE next == [live0 EXCEPT ![k] = slots]
<1>1. IsComposite(live0) /\ \A x \in Kind : SlotsFollow(live0[x], SectionOf(p, x))
  BY DEF Follows
<1>2. IsComposite(next) /\ next[k] = slots /\ \A x \in Kind : x # k => next[x] = live0[x]
  BY <1>1 DEF IsComposite
<1>3. SectionOf(q, k) = q[k] /\ \A x \in Kind : x # k => SectionOf(q, x) = SectionOf(p, x)
  BY DEF SectionOf
<1>4. \A x \in Kind : SlotsFollow(next[x], SectionOf(q, x))
  BY <1>1, <1>2, <1>3
<1> QED
  BY <1>2, <1>4 DEF Follows

LEMMA SetFollows ==
  ASSUME NEW p, IsPreset(p), NEW live0, Follows(live0, p), IsChain(live0),
         "mask" \in DOMAIN p, NEW k \in DOMAIN p, k \in Kind, NEW e, NEW params,
         NEW entry, entry = [params |-> params, on |-> EnabledIn(p[k], e)]
  PROVE  Follows(Reconfigured(live0, k, e, params), PutEntry(p, k, e, entry))
<1> DEFINE q == PutEntry(p, k, e, entry)
           old == live0[k]
           slots == [i \in DOMAIN old |->
              IF old[i].name = e /\ IsFirst(old, i)
              THEN [old[i] EXCEPT !.params = params] ELSE old[i]]
<1>1. DOMAIN q = DOMAIN p /\ \A x \in DOMAIN p : x # k => q[x] = p[x]
  BY DEF PutEntry
<1>2. q[k].chain = p[k].chain /\ q[k].table = With(p[k].table, e, entry)
  BY DEF PutEntry, IsPreset, IsSection
<1>3. \A x : EnabledIn(q[k], x) = EnabledIn(p[k], x)
  <2> TAKE x
  <2> HIDE DEF q
  <2>1. CASE x = e
    <3>1. q[k].table[e].on = EnabledIn(p[k], e) /\ e \in DOMAIN q[k].table
      BY <1>2 DEF With
    <3>2. EnabledIn(p[k], e) \in BOOLEAN
      BY DEF IsPreset, IsSection, IsTable, IsEntry, EnabledIn
    <3>3. q[k].table[e].on \in BOOLEAN
      BY <3>1, <3>2
    <3>4. EnabledIn(q[k], e) = q[k].table[e].on
      BY <3>1, <3>3, Zenon DEF EnabledIn
    <3> QED
      BY <2>1, <3>1, <3>4
  <2>2. CASE x # e
    BY <1>2, <2>2 DEF EnabledIn, With
  <2> QED
    BY <2>1, <2>2
<1>4. /\ \A x : x # e => ParamsOf(q[k], x) = ParamsOf(p[k], x)
      /\ ParamsOf(q[k], e) = params
  BY <1>2 DEF ParamsOf, With
<1>5. SlotsFollow(old, p[k]) /\ k \in DOMAIN live0
  BY DEF Follows, SectionOf, IsComposite
<1>6. \A i \in DOMAIN old : IsSlot(old[i])
  BY <1>5 DEF IsChain, IsSlots
<1>7. DOMAIN slots = DOMAIN old /\ \A i \in DOMAIN old :
        /\ slots[i].name = old[i].name /\ slots[i].on = old[i].on
        /\ slots[i].params = IF old[i].name = e /\ IsFirst(old, i)
                             THEN params ELSE old[i].params
  BY <1>6 DEF IsSlot
<1>8. \A i \in DOMAIN old : IsFirst(slots, i) <=> IsFirst(old, i)
  BY <1>7 DEF IsFirst
<1>9. SlotsFollow(slots, q[k])
  <2> HIDE DEF slots, old, q
  <2> QED
    BY <1>2, <1>3, <1>4, <1>5, <1>7, <1>8 DEF SlotsFollow
<1>10. Follows([live0 EXCEPT ![k] = slots], q)
  BY <1>1, <1>9, SectionEdited
<1> QED
  BY <1>10 DEF Reconfigured

\* Switching all slots of an effect, against its entry with the new flag.
LEMMA SwitchFollows ==
  ASSUME NEW p, IsPreset(p), NEW live0, Follows(live0, p), IsChain(live0),
         "mask" \in DOMAIN p, NEW k \in DOMAIN p, k \in Kind, NEW e, NEW on \in BOOLEAN,
         NEW q, DOMAIN q = DOMAIN p, \A x \in DOMAIN p : x # k => q[x] = p[x],
         q[k].chain = p[k].chain,
         EnabledIn(q[k], e) = on,
         \A x : x # e => EnabledIn(q[k], x) = EnabledIn(p[k], x),
         \A x : ParamsOf(q[k], x) = ParamsOf(p[k], x)
  PROVE  Follows(Switched(live0, k, e, on), q)
<1> DEFINE old == live0[k]
           slots == [i \in DOMAIN old |->
              IF old[i].name = e THEN [old[i] EXCEPT !.on = on] ELSE old[i]]
<1>1. SlotsFollow(old, p[k]) /\ k \in DOMAIN live0
  BY DEF Follows, SectionOf, IsComposite
<1>2. \A i \in DOMAIN old : IsSlot(old[i])
  BY <1>1 DEF IsChain, IsSlots
<1>3. DOMAIN slots = DOMAIN old /\ \A i \in DOMAIN old :
        /\ slots[i].name = old[i].name /\ slots[i].params = old[i].params
        /\ slots[i].on = IF old[i].name = e THEN on ELSE old[i].on
  BY <1>2 DEF IsSlot
<1>4. \A i \in DOMAIN old : IsFirst(slots, i) <=> IsFirst(old, i)
  BY <1>3 DEF IsFirst
<1>5. SlotsFollow(slots, q[k])
  <2> HIDE DEF slots, old
  <2> QED
    BY <1>1, <1>3, <1>4 DEF SlotsFollow
<1>6. Follows([live0 EXCEPT ![k] = slots], q)
  BY <1>5, SectionEdited
<1> QED
  BY <1>6 DEF Switched

LEMMA ToggledFollows ==
  ASSUME NEW p, IsPreset(p), NEW live0, Follows(live0, p), IsChain(live0),
         "mask" \in DOMAIN p, NEW k \in DOMAIN p, k \in Kind, NEW e, NEW on \in BOOLEAN
  PROVE  Follows(Switched(live0, k, e, on), Toggled(p, k, e, on))
<1> DEFINE q == Toggled(p, k, e, on)
           params == ParamsOf(p[k], e)
<1>1. IsParams(params)
  BY ParamsOfShape DEF IsPreset
<1>2. DOMAIN q = DOMAIN p /\ \A x \in DOMAIN p : x # k => q[x] = p[x]
  BY DEF Toggled, PutEntry, DropEntry
<1>3. q[k].chain = p[k].chain
  BY DEF Toggled, PutEntry, DropEntry, IsPreset, IsSection
<1>4. q[k].table = IF ~on THEN With(p[k].table, e, [params |-> params, on |-> FALSE])
                   ELSE IF e \notin DOMAIN p[k].table THEN p[k].table
                   ELSE IF DOMAIN params = {} THEN Without(p[k].table, e)
                   ELSE With(p[k].table, e, [params |-> params, on |-> TRUE])
  BY DEF Toggled, PutEntry, DropEntry, IsPreset, IsSection
<1>5. DOMAIN params = {} => params = None
  BY <1>1 DEF None, IsParams, IsPartial
<1>6. EnabledIn(q[k], e) = on
  BY <1>4 DEF EnabledIn, With, Without, Restrict
<1>7. \A x : x # e => EnabledIn(q[k], x) = EnabledIn(p[k], x)
  BY <1>4 DEF EnabledIn, With, Without, Restrict
<1>8. \A x : ParamsOf(q[k], x) = ParamsOf(p[k], x)
  <2> TAKE x
  <2>1. CASE x = e
    <3> HIDE DEF q
    <3> QED
      BY <1>4, <1>5, <2>1 DEF ParamsOf, With, Without, Restrict
  <2>2. CASE x # e
    <3> HIDE DEF q
    <3> QED
      BY <1>4, <2>2 DEF ParamsOf, With, Without, Restrict
  <2> QED
    BY <2>1, <2>2
<1>9. Follows(Switched(live0, k, e, on), q)
  <2> HIDE DEF q
  <2> QED
    BY <1>2, <1>3, <1>6, <1>7, <1>8, SwitchFollows
<1> QED
  BY <1>9

LEMMA RechainedFollows ==
  ASSUME NEW p, IsPreset(p), NEW live0, Follows(live0, p),
         "mask" \in DOMAIN p, NEW k \in DOMAIN p, k \in Kind, NEW names \in Seq(Effect)
  PROVE  Follows([live0 EXCEPT ![k] = Slots([p[k] EXCEPT !.chain = names])],
                 Rechained(p, k, names))
<1> DEFINE q == Rechained(p, k, names)
           wanted == [p[k] EXCEPT !.chain = names]
           slots == Slots(wanted)
<1>1. DOMAIN q = DOMAIN p /\ \A x \in DOMAIN p : x # k => q[x] = p[x]
  BY DEF Rechained
<1>2. /\ q[k].chain = names
      /\ q[k].table = Restrict(p[k].table, DOMAIN p[k].table \intersect Range(names))
  BY DEF Rechained
<1>3. wanted.chain = names /\ wanted.table = p[k].table
  BY DEF IsPreset, IsSection
<1>4. \A e \in Range(names) : /\ ParamsOf(q[k], e) = ParamsOf(wanted, e)
                              /\ EnabledIn(q[k], e) = EnabledIn(wanted, e)
  <2> HIDE DEF q, wanted
  <2> QED
    BY <1>2, <1>3 DEF ParamsOf, EnabledIn, Restrict
<1>5. DOMAIN slots = DOMAIN names /\ \A i \in DOMAIN names :
        /\ slots[i].name = names[i] /\ names[i] \in Range(names)
        /\ slots[i].params = ParamsOf(wanted, names[i])
        /\ slots[i].on = EnabledIn(wanted, names[i])
  <2> HIDE DEF q, wanted
  <2> QED
    BY <1>3 DEF Slots, Range
<1>6. SlotsFollow(slots, q[k])
  <2> HIDE DEF q, wanted, slots
  <2> QED
    BY <1>2, <1>4, <1>5 DEF SlotsFollow
<1> HIDE DEF q, slots
<1>7. Follows([live0 EXCEPT ![k] = slots], q)
  BY <1>1, <1>6, SectionEdited
<1> QED
  BY <1>7 DEF q, slots

-----------------------------------------------------------------------------
(* The invariant. *)

Inv == TypeOK /\ ActiveBuilds /\ LiveFollowsPreset

-----------------------------------------------------------------------------
(* Commands as transformations of a preset p and the chain that follows it. *)

\* A chain that takes edits renders a preset with a mask.
LEMMA CompositeHasMask ==
  ASSUME NEW p, NEW live0, Follows(live0, p), IsComposite(live0)
  PROVE  "mask" \in DOMAIN p
  BY DEF Follows, IsComposite, Passthrough, None, Kind

\* The effects of a live section are those of the preset's, which is present
\* when there are any.
LEMMA NamesOfSection ==
  ASSUME NEW p, NEW live0, Follows(live0, p), IsComposite(live0),
         NEW k \in Kind, NEW e \in Names(live0[k])
  PROVE  k \in DOMAIN p /\ e \in Range(p[k].chain)
<1>1. SlotsFollow(live0[k], SectionOf(p, k))
  BY CompositeHasMask DEF Follows
<1>2. PICK i \in DOMAIN live0[k] : live0[k][i].name = e
  BY DEF Names
<1>3. i \in DOMAIN SectionOf(p, k).chain /\ SectionOf(p, k).chain[i] = e
  BY <1>1, <1>2 DEF SlotsFollow
<1>4. k \in DOMAIN p
  BY <1>3 DEF SectionOf, EmptySection
<1> QED
  BY <1>3, <1>4 DEF SectionOf, Range

\* A `set` that is accepted edits a section that was there.
LEMMA SetAccepted ==
  ASSUME NEW p, IsPreset(p), Builds(p), NEW live0, IsChain(live0), Follows(live0, p),
         NEW k \in Kind, NEW e, NEW entry,
         entry = [params |-> entry.params, on |-> EnabledIn(Materialised(p, k)[k], e)],
         CanReconfigure(live0, k, e, entry.params)
  PROVE  LET q == PutEntry(Materialised(p, k), k, e, entry)
         IN  Builds(q) /\ Follows(Reconfigured(live0, k, e, entry.params), q)
<1>1. "mask" \in DOMAIN p
  BY CompositeHasMask DEF CanReconfigure
<1>2. k \in DOMAIN p /\ e \in Range(p[k].chain) /\ Accepts(e, entry.params)
  BY NamesOfSection DEF CanReconfigure
<1>3. Materialised(p, k) = p
  BY <1>2 DEF Materialised
<1>4. Builds(PutEntry(p, k, e, entry))
  BY <1>1, <1>2, SetBuilds
<1>5. Follows(Reconfigured(live0, k, e, entry.params), PutEntry(p, k, e, entry))
  BY <1>1, <1>2, <1>3, SetFollows
<1> QED
  BY <1>3, <1>4, <1>5

\* A `set` that is refused leaves the preset and the chain as they were.
LEMMA SetRefused ==
  ASSUME NEW p, IsPreset(p), NEW live0, IsChain(live0), Follows(live0, p),
         NEW k \in Kind, NEW e, NEW entry
  PROVE  LET base == Materialised(p, k)
             original == ParamsOf(base[k], e)
         IN  /\ RevertAbsent(RestoreEntry(PutEntry(base, k, e, entry), k, e, base[k].table),
                             k, k \notin DOMAIN p) = p
             /\ CanReconfigure(live0, k, e, original)
                  => Reconfigured(live0, k, e, original) = live0
<1> DEFINE base == Materialised(p, k)
           original == ParamsOf(base[k], e)
<1>1. IsPreset(base) /\ k \in DOMAIN base
  BY MaterialisedShape
<1>2. RestoreEntry(PutEntry(base, k, e, entry), k, e, base[k].table) = base
  BY <1>1, RestoreUndoes
<1>3. RevertAbsent(base, k, k \notin DOMAIN p) = p
  BY RevertUndoes
<1>4. ASSUME CanReconfigure(live0, k, e, original)
      PROVE  Reconfigured(live0, k, e, original) = live0
  <2>1. IsComposite(live0) /\ "mask" \in DOMAIN p
    BY <1>4, CompositeHasMask DEF CanReconfigure
  <2>2. Follows(live0, base) /\ "mask" \in DOMAIN base
    BY <2>1, MaterialisedFollows DEF Materialised, With
  <2>3. SlotsFollow(live0[k], base[k])
    BY <1>1, <2>2 DEF Follows, SectionOf
  <2>4. \A i \in DOMAIN live0[k] :
          live0[k][i].name = e /\ IsFirst(live0[k], i) => live0[k][i].params = original
    BY <2>3 DEF SlotsFollow
  <2> QED
    BY <2>1, <2>4, ReconfigureSame DEF IsComposite
<1> QED
  BY <1>2, <1>3, <1>4

\* A new chain that works.
LEMMA SetChainAccepted ==
  ASSUME NEW p, IsPreset(p), Builds(p), NEW live0, Follows(live0, p), IsComposite(live0),
         NEW k \in Kind, NEW names \in Seq(Effect),
         Configures(k, [Materialised(p, k)[k] EXCEPT !.chain = names])
  PROVE  LET base == Materialised(p, k)
             q == Rechained(base, k, names)
         IN  /\ Builds(q)
             /\ Follows([live0 EXCEPT ![k] = Slots([base[k] EXCEPT !.chain = names])], q)
<1> DEFINE base == Materialised(p, k)
<1>1. "mask" \in DOMAIN p
  BY CompositeHasMask
<1>2. IsPreset(base) /\ k \in DOMAIN base
  BY MaterialisedShape
<1>3. Follows(live0, base) /\ "mask" \in DOMAIN base
  BY <1>1, MaterialisedFollows DEF Materialised, With
<1>4. Builds(Rechained(base, k, names))
  BY <1>1, RechainedBuilds
<1>5. Follows([live0 EXCEPT ![k] = Slots([base[k] EXCEPT !.chain = names])],
              Rechained(base, k, names))
  BY <1>2, <1>3, RechainedFollows
<1> QED
  BY <1>4, <1>5

-----------------------------------------------------------------------------
(* Type correctness. *)

\* A file written by a save is a file, and so is the mirror of the save.
LEMMA SaveShape ==
  ASSUME TypeOK, NEW n \in Name
  PROVE  /\ IsFile(Written(n, active))
         /\ IsPresets(With(cfg.presets, n, active))
<1>1. IsPreset(Normalised(active)) /\ IsPreset(active)
  BY NormalisedShape DEF TypeOK
<1>2. ASSUME NEW presets, IsPresets(presets), NEW p, IsPreset(p)
      PROVE  IsPresets(With(presets, n, p))
  BY <1>2 DEF IsPresets, IsPartial, With
<1>3. IsPresets(With(cfg.presets, n, active))
  BY <1>1, <1>2 DEF TypeOK
<1>4. IsPresets(With(file.presets, n, Normalised(active)))
  BY <1>1, <1>2 DEF TypeOK, IsFile
<1>5. "valid" \in FileKind /\ DefaultGlobals \in Globals
  BY GlobalsAssumption DEF FileKind
<1>6. /\ file.blamed \subseteq DOMAIN file.presets /\ \A m, o \in file.blamed : m = o
      /\ file.kind \in {"absent", "valid"} => file.blamed = {}
  BY DEF TypeOK, IsFile
<1>7. /\ file.blamed \ {n} \subseteq DOMAIN With(file.presets, n, Normalised(active))
      /\ \A m, o \in file.blamed \ {n} : m = o
      /\ Repairs(n) \/ file.kind \in {"absent", "valid"} => file.blamed \ {n} = {}
  BY <1>6 DEF With, Repairs
<1>8. PICK kind, globals, presets, blamed :
        /\ kind = IF Repairs(n) THEN "valid" ELSE file.kind
        /\ globals = IF file.kind = "absent" THEN DefaultGlobals ELSE file.globals
        /\ presets = With(file.presets, n, Normalised(active))
        /\ blamed = file.blamed \ {n}
  OBVIOUS
<1>9. Written(n, active) = [kind |-> kind, globals |-> globals, presets |-> presets, blamed |-> blamed]
  BY <1>8 DEF Written
<1>10. kind \in FileKind /\ globals \in Globals
  BY <1>5, <1>8 DEF TypeOK, IsFile
<1>11. /\ IsPresets(presets) /\ blamed \subseteq DOMAIN presets /\ \A m, o \in blamed : m = o
       /\ kind \in {"absent", "valid"} => blamed = {}
  BY <1>4, <1>7, <1>8
<1>12. IsFile([kind |-> kind, globals |-> globals, presets |-> presets, blamed |-> blamed])
  BY <1>10, <1>11 DEF IsFile
<1> QED
  BY <1>3, <1>9, <1>12

\* What the commands need to know of the types, all of which a step that leaves
\* a variable alone leaves alone.
LEMMA SetShape ==
  ASSUME TypeOK, NEW k \in Kind, NEW e \in Effect, NEW f \in Param, NEW v \in Value
  PROVE  LET base == Materialised(active, k)
             entry == Merged(base[k], e, f, v)
             original == ParamsOf(base[k], e)
         IN  /\ IsPreset(PutEntry(base, k, e, entry))
             /\ IsPreset(RevertAbsent(RestoreEntry(PutEntry(base, k, e, entry), k, e,
                                                   base[k].table),
                                      k, k \notin DOMAIN active))
             /\ IsComposite(live) => /\ IsChain(Reconfigured(live, k, e, entry.params))
                                     /\ IsChain(Reconfigured(live, k, e, original))
<1> DEFINE base == Materialised(active, k)
           entry == Merged(base[k], e, f, v)
           edited == PutEntry(base, k, e, entry)
<1>1. IsPreset(base) /\ k \in DOMAIN base
  BY MaterialisedShape DEF TypeOK
<1>2. IsSection(base[k]) /\ IsTable(base[k].table)
  BY <1>1 DEF IsPreset, IsSection
<1>3. IsEntry(entry) /\ IsParams(entry.params) /\ IsParams(ParamsOf(base[k], e))
  BY <1>2, MergedShape, ParamsOfShape DEF IsEntry
<1>4. IsPreset(edited) /\ k \in DOMAIN edited
  BY <1>1, <1>3, PutEntryShape DEF PutEntry
<1>5. IsPreset(RestoreEntry(edited, k, e, base[k].table))
  BY <1>2, <1>4, RestoreEntryShape
<1>6. IsPreset(RevertAbsent(RestoreEntry(edited, k, e, base[k].table),
                            k, k \notin DOMAIN active))
  BY <1>5, RevertAbsentShape
<1>7. ASSUME IsComposite(live)
      PROVE  /\ IsChain(Reconfigured(live, k, e, entry.params))
             /\ IsChain(Reconfigured(live, k, e, ParamsOf(base[k], e)))
  BY <1>3, <1>7, ReconfiguredShape DEF TypeOK, IsComposite
<1> QED
  BY <1>4, <1>6, <1>7

LEMMA SetChainShape ==
  ASSUME TypeOK, NEW k \in Kind, NEW names \in Seq(Effect)
  PROVE  LET base == Materialised(active, k)
         IN  /\ IsPreset(Rechained(base, k, names))
             /\ IsPreset(RevertAbsent(base, k, k \notin DOMAIN active))
             /\ IsComposite(live) =>
                  IsChain([live EXCEPT ![k] = Slots([base[k] EXCEPT !.chain = names])])
<1> DEFINE base == Materialised(active, k)
           wanted == [base[k] EXCEPT !.chain = names]
<1>1. IsPreset(base) /\ k \in DOMAIN base
  BY MaterialisedShape DEF TypeOK
<1>2. IsSection(wanted)
  BY <1>1 DEF IsPreset, IsSection
<1>3. IsSlots(Slots(wanted))
  BY <1>2, SlotsShape
<1>4. IsComposite(live) => IsChain([live EXCEPT ![k] = Slots(wanted)])
  BY <1>3, ReplaceSlots DEF TypeOK, IsComposite
<1> QED
  BY <1>1, <1>4, RechainedShape, RevertAbsentShape

(***************************************************************************)
(* The session stays well formed: whatever the clients ask for and the     *)
(* operator writes, presets and chains keep their shape through every edit *)
(* and the file remains one the daemon can describe.                       *)
(***************************************************************************)
THEOREM TypeCorrect == Spec => []TypeOK
<1>1. Init => TypeOK
  <2> SUFFICES ASSUME Init PROVE TypeOK
    OBVIOUS
  <2>1. IsFile(file) /\ name \in Name /\ DefaultGlobals \in Globals
    BY FilesAssumption, NameAssumption, GlobalsAssumption DEF Init
  <2>2. IsPreset(None) /\ IsPresets(None) /\ IsChain(Passthrough)
    BY DEF None, Passthrough, IsPreset, IsPresets, IsChain, IsPartial
  <2>3. commands \in 0..MaxCommands /\ edits \in 0..MaxEdits /\ boots \in 0..MaxBoots
    BY BoundAssumption DEF Init
  <2> QED
    BY <2>1, <2>2, <2>3 DEF Init, TypeOK, Phases
<1>2. TypeOK /\ [Next]_vars => TypeOK'
  <2> SUFFICES ASSUME TypeOK, [Next]_vars PROVE TypeOK'
    OBVIOUS
  <2> USE DEF session, env
  <2>0. /\ \A n \in 0..MaxCommands : n < MaxCommands => n + 1 \in 0..MaxCommands
        /\ \A n \in 0..MaxEdits : n < MaxEdits => n + 1 \in 0..MaxEdits
        /\ \A n \in 0..MaxBoots : n < MaxBoots => n + 1 \in 0..MaxBoots
    BY BoundAssumption
  <2>1. CASE Boot
    <3>1. IsPreset(active') /\ IsChain(live')
      BY <2>1, ChainShape DEF Boot, TypeOK, IsFile, IsPresets, IsChain, IsPartial,
                              Passthrough, None
    <3>2. Override[file.globals] \in Globals
      BY GlobalsAssumption DEF TypeOK, IsFile
    <3> QED
      BY <2>0, <2>1, <3>1, <3>2, NameAssumption DEF Boot, TypeOK, IsFile, Phases
  <2>2. CASE RunBegins
    <3>1. IsChain(live') /\ using' \in Globals /\ phase' \in Phases
      BY <2>2, ChainShape DEF RunBegins, TypeOK, Phases
    <3> QED
      BY <2>2, <3>1 DEF RunBegins, TypeOK
  <2>3. CASE CameraOpens \/ CameraLost
    BY <2>3 DEF CameraOpens, CameraLost, TypeOK, Phases
  <2>4. CASE RunFails \/ ProcessEnds
    <3>1. IsChain(Passthrough)
      BY DEF IsChain, IsPartial, Passthrough, None
    <3> QED
      BY <2>4, <3>1 DEF RunFails, ProcessEnds, TypeOK, Phases
  <2>5. CASE EditFile
    BY <2>0, <2>5, FilesAssumption DEF EditFile, TypeOK
  <2>6. CASE Offline
    BY <2>0, <2>6 DEF Offline, Command, Refuse, Answer, TypeOK
  <2>7. ASSUME NEW k \in EditKinds, NEW e \in Effect, NEW f \in Param, NEW v \in Value,
               Set(k, e, f, v)
        PROVE  TypeOK'
    <3>0. k \in Kind
      BY ClientAssumption
    <3>1. IsPreset(active') /\ IsChain(live') /\ reply' \in {"ok", "err"}
      BY <2>7, <3>0, SetShape DEF Set, Answer, CanReconfigure, TypeOK
    <3> QED
      BY <2>0, <2>7, <3>1 DEF Set, Serving, Command, TypeOK
  <2>8. ASSUME NEW k \in EditKinds, NEW e \in Effect, NEW on \in BOOLEAN,
               SetEnabled(k, e, on)
        PROVE  TypeOK'
    <3>1. IsPreset(active') /\ IsChain(live') /\ reply' \in {"ok", "err"}
      BY <2>8, ClientAssumption, ToggledShape, SwitchedShape
         DEF SetEnabled, Answer, IsComposite, TypeOK
    <3> QED
      BY <2>0, <2>8, <3>1 DEF SetEnabled, Serving, Command, TypeOK
  <2>9. ASSUME NEW k \in EditKinds, NEW names \in Chains, SetChain(k, names)
        PROVE  TypeOK'
    <3>0. k \in Kind /\ names \in Seq(Effect)
      BY ClientAssumption
    <3>1. IsPreset(active') /\ IsChain(live') /\ reply' \in {"ok", "err"}
      BY <2>9, <3>0, SetChainShape DEF SetChain, Answer, TypeOK
    <3> QED
      BY <2>0, <2>9, <3>1 DEF SetChain, Serving, Command, TypeOK
  <2>10. ASSUME NEW n \in Name, SetPreset(n)
         PROVE  TypeOK'
    <3>1. /\ IsPreset(active') /\ IsChain(live') /\ name' \in Name
          /\ reply' \in {"ok", "err"} /\ UNCHANGED <<file, cfg, touched>>
      BY <2>10, ChainShape DEF SetPreset, Refuse, Answer, IsPresets, TypeOK
    <3> QED
      BY <2>0, <2>10, <3>1 DEF SetPreset, Serving, Command, TypeOK
  <2>11. ASSUME NEW n \in Name, SavePresetAs(n)
         PROVE  TypeOK'
    BY <2>0, <2>11, SaveShape
       DEF SavePresetAs, Save, Refuse, Answer, Serving, Command, TypeOK
  <2>12. CASE SavePreset
    BY <2>0, <2>12, SaveShape
       DEF SavePreset, Save, Refuse, Answer, Serving, Command, TypeOK
  <2>13. CASE Reload
    <3>1. /\ IsPreset(active') /\ IsChain(live') /\ touched' \in BOOLEAN
          /\ cfg' = [globals |-> cfg'.globals, presets |-> cfg'.presets]
          /\ cfg'.globals \in Globals /\ IsPresets(cfg'.presets)
          /\ reply' \in {"ok", "err"} /\ UNCHANGED <<file, name>>
      <4>1. CASE Refuse
        BY <4>1 DEF Refuse, Answer, TypeOK
      <4>2. CASE ~Refuse
        <5>1. /\ name \in DOMAIN file.presets
              /\ active' = file.presets[name] /\ live' = Chain(file.presets[name])
              /\ cfg' = [globals |-> file.globals, presets |-> file.presets]
              /\ touched' = FALSE /\ reply' = "ok" /\ UNCHANGED <<file, name>>
          BY <2>13, <4>2 DEF Reload, Answer
        <5>2. /\ file.globals \in Globals /\ IsPresets(file.presets)
              /\ IsPreset(file.presets[name])
          BY <5>1 DEF TypeOK, IsFile, IsPresets
        <5>3. IsPreset(active') /\ IsChain(live')
          BY <5>1, <5>2, ChainShape
        <5> QED
          BY <5>1, <5>2, <5>3
      <4> QED
        BY <4>1, <4>2
    <3> QED
      BY <2>0, <2>13, <3>1 DEF Reload, Serving, Command, TypeOK
  <2>14. CASE UNCHANGED vars
    BY <2>14 DEF vars, TypeOK
  <2> QED
    BY <2>1, <2>2, <2>3, <2>4, <2>5, <2>6, <2>7, <2>8, <2>9, <2>10, <2>11, <2>12,
       <2>13, <2>14 DEF Next
<1> QED
  BY <1>1, <1>2, PTL DEF Spec

-----------------------------------------------------------------------------
(* The inductive invariant. *)

LEMMA InvInit == Init => ActiveBuilds /\ LiveFollowsPreset
  BY DEF Init, ActiveBuilds, LiveFollowsPreset, Running

\* The two parts that matter, seen as a pair: a step that sets both variables to
\* a pair that fits keeps them.
LEMMA InvNext == Inv /\ [Next]_vars => (ActiveBuilds /\ LiveFollowsPreset)'
<1> SUFFICES ASSUME Inv, [Next]_vars, Running'
             PROVE  Builds(active') /\ Follows(live', active')
  BY DEF ActiveBuilds, LiveFollowsPreset
<1> USE DEF session, env
<1>0. IsPreset(active) /\ IsChain(live) /\ IsPresets(cfg.presets) /\ IsPresets(file.presets)
  BY DEF Inv, TypeOK, IsFile
<1>1. ASSUME phase = "serving" \/ Running
      PROVE  Builds(active) /\ Follows(live, active)
  BY <1>1 DEF Inv, ActiveBuilds, LiveFollowsPreset, Running
<1>2. CASE Boot \/ RunFails \/ ProcessEnds
  BY <1>2 DEF Boot, RunFails, ProcessEnds, Running
<1>3. CASE RunBegins
  BY <1>0, <1>3, ChainFollows DEF RunBegins, Running
<1>4. CASE CameraOpens \/ CameraLost
  BY <1>1, <1>4 DEF CameraOpens, CameraLost, Running
<1>5. CASE EditFile \/ Offline \/ UNCHANGED vars
  BY <1>1, <1>5 DEF EditFile, Offline, Command, Refuse, vars, Running
<1>6. ASSUME NEW k \in EditKinds, NEW e \in Effect, NEW f \in Param, NEW v \in Value,
             Set(k, e, f, v)
      PROVE  Builds(active') /\ Follows(live', active')
  <2> DEFINE base == Materialised(active, k)
             entry == Merged(base[k], e, f, v)
             original == ParamsOf(base[k], e)
  <2>1. k \in Kind /\ Builds(active) /\ Follows(live, active)
    BY <1>1, <1>6, ClientAssumption DEF Set, Serving
  <2>2. CASE active' = active /\ live' = live
    BY <2>1, <2>2
  <2>3. CASE /\ CanReconfigure(live, k, e, entry.params)
             /\ active' = PutEntry(base, k, e, entry)
             /\ live' = Reconfigured(live, k, e, entry.params)
    <3>1. entry = [params |-> entry.params, on |-> EnabledIn(base[k], e)]
      BY DEF Merged
    <3> HIDE DEF entry
    <3> QED
      BY <1>0, <2>1, <2>3, <3>1, SetAccepted
  <2>4. CASE /\ active' = RevertAbsent(RestoreEntry(PutEntry(base, k, e, entry), k, e,
                                                    base[k].table),
                                       k, k \notin DOMAIN active)
             /\ live' = IF CanReconfigure(live, k, e, original)
                        THEN Reconfigured(live, k, e, original) ELSE live
    <3> HIDE DEF entry
    <3> QED
      BY <1>0, <2>1, <2>4, SetRefused
  <2> QED
    BY <1>6, <2>2, <2>3, <2>4 DEF Set
<1>7. ASSUME NEW k \in EditKinds, NEW e \in Effect, NEW on \in BOOLEAN,
             SetEnabled(k, e, on)
      PROVE  Builds(active') /\ Follows(live', active')
  <2>1. k \in Kind /\ Builds(active) /\ Follows(live, active)
    BY <1>1, <1>7, ClientAssumption DEF SetEnabled, Serving
  <2>2. CASE active' = active /\ live' = live
    BY <2>1, <2>2
  <2>3. CASE /\ k \in DOMAIN active /\ e \in Range(active[k].chain) /\ IsComposite(live)
             /\ live' = Switched(live, k, e, on) /\ active' = Toggled(active, k, e, on)
    BY <1>0, <2>1, <2>3, CompositeHasMask, ToggledBuilds, ToggledFollows
  <2> QED
    BY <1>7, <2>2, <2>3 DEF SetEnabled
<1>8. ASSUME NEW k \in EditKinds, NEW names \in Chains, SetChain(k, names)
      PROVE  Builds(active') /\ Follows(live', active')
  <2> DEFINE base == Materialised(active, k)
             wanted == [base[k] EXCEPT !.chain = names]
  <2>1. /\ k \in Kind /\ names \in Seq(Effect)
        /\ Builds(active) /\ Follows(live, active)
    BY <1>1, <1>8, ClientAssumption DEF SetChain, Serving
  <2>2. CASE active' = active /\ live' = live
    BY <2>1, <2>2
  <2>3. CASE /\ IsComposite(live) /\ Configures(k, wanted)
             /\ active' = Rechained(base, k, names)
             /\ live' = [live EXCEPT ![k] = Slots(wanted)]
    BY <1>0, <2>1, <2>3, SetChainAccepted
  <2>4. CASE active' = RevertAbsent(base, k, k \notin DOMAIN active) /\ live' = live
    BY <1>0, <2>1, <2>4, RevertUndoes
  <2> QED
    BY <1>8, <2>2, <2>3, <2>4 DEF SetChain
<1>9. ASSUME NEW n \in Name, SetPreset(n)
      PROVE  Builds(active') /\ Follows(live', active')
  BY <1>0, <1>1, <1>9, ChainFollows DEF SetPreset, Serving, Refuse, IsPresets
<1>10. CASE Reload
  BY <1>0, <1>1, <1>10, ChainFollows DEF Reload, Serving, Refuse, IsPresets
<1>11. CASE SavePreset \/ \E n \in Name : SavePresetAs(n)
  BY <1>1, <1>11 DEF SavePreset, SavePresetAs, Save, Refuse, Serving
<1> QED
  BY <1>2, <1>3, <1>4, <1>5, <1>6, <1>7, <1>8, <1>9, <1>10, <1>11 DEF Next

(***************************************************************************)
(* The inductive invariant holds in every reachable state.                 *)
(***************************************************************************)
THEOREM InvHolds == Spec => []Inv
<1>1. Spec => []TypeOK
  BY TypeCorrect
<1>2. Init => ActiveBuilds /\ LiveFollowsPreset
  BY InvInit
<1>3. TypeOK /\ ActiveBuilds /\ LiveFollowsPreset /\ [Next]_vars
        => (ActiveBuilds /\ LiveFollowsPreset)'
  BY InvNext DEF Inv
<1> QED
  BY <1>1, <1>2, <1>3, PTL DEF Spec, Inv

(***************************************************************************)
(* No sequence of accepted edits leaves the daemon with a preset its next  *)
(* run cannot build.                                                       *)
(***************************************************************************)
THEOREM EditsKeepPresetBuildable == Spec => []ActiveBuilds
  BY InvHolds, PTL DEF Inv

(***************************************************************************)
(* The live chain is edited in step with the preset: after any sequence of *)
(* commands it has the preset's effects, flags and parameters.             *)
(***************************************************************************)
THEOREM PictureIsThePreset == Spec => []LiveFollowsPreset
  BY InvHolds, PTL DEF Inv

-----------------------------------------------------------------------------
(* A rebuilt chain shows the same. *)

\* Where no effect is twice in a chain every slot is the first of its effect,
\* and the correspondence leaves nothing open.
LEMMA FollowsExactly ==
  ASSUME NEW p, IsPreset(p), NoRepeats(p), NEW live0, IsChain(live0), Follows(live0, p)
  PROVE  live0 = Chain(p)
<1>1. CASE "mask" \notin DOMAIN p
  BY <1>1 DEF Follows, Chain
<1>2. CASE "mask" \in DOMAIN p
  <2>1. /\ DOMAIN live0 = Kind /\ live0 = [k \in Kind |-> live0[k]]
        /\ \A k \in Kind : SlotsFollow(live0[k], SectionOf(p, k)) /\ IsSlots(live0[k])
    BY <1>2 DEF Follows, IsComposite, IsChain, IsPartial
  <2>2. ASSUME NEW k \in Kind, k \in DOMAIN p
        PROVE  live0[k] = Slots(p[k])
    <3> DEFINE slots == live0[k]
    <3>1. SlotsFollow(slots, p[k]) /\ IsSlots(slots)
      BY <2>1, <2>2 DEF SectionOf
    <3>2. \A i \in DOMAIN p[k].chain : \A j \in DOMAIN p[k].chain :
            p[k].chain[i] = p[k].chain[j] => i = j
      BY <2>2 DEF NoRepeats
    <3>3. p[k].chain \in Seq(Effect)
      BY <2>2 DEF IsPreset, IsSection
    <3>4. \A i \in DOMAIN slots : IsFirst(slots, i)
      <4> SUFFICES ASSUME NEW i \in DOMAIN slots, NEW j \in DOMAIN slots, j < i
                   PROVE  slots[j].name # slots[i].name
        BY DEF IsFirst
      <4>1. i \in DOMAIN p[k].chain /\ j \in DOMAIN p[k].chain
        BY <3>1 DEF SlotsFollow
      <4>2. slots[i].name = p[k].chain[i] /\ slots[j].name = p[k].chain[j]
        BY <3>1 DEF SlotsFollow
      <4>3. i \in Nat /\ j \in Nat
        BY <3>3, <4>1
      <4> QED
        BY <3>2, <4>1, <4>2, <4>3
    <3>5. DOMAIN slots = DOMAIN p[k].chain /\ slots = [i \in DOMAIN slots |-> slots[i]]
      BY <3>1 DEF SlotsFollow, IsSlots
    <3>6. ASSUME NEW i \in DOMAIN slots
          PROVE  slots[i] = Slots(p[k])[i]
      <4>1. slots[i] = [name |-> slots[i].name, params |-> slots[i].params,
                        on |-> slots[i].on]
        BY <3>1 DEF IsSlots, IsSlot
      <4>2. /\ slots[i].name = p[k].chain[i]
            /\ slots[i].params = ParamsOf(p[k], p[k].chain[i])
            /\ slots[i].on = EnabledIn(p[k], p[k].chain[i])
        BY <3>1, <3>4 DEF SlotsFollow
      <4>3. Slots(p[k])[i] = [name |-> p[k].chain[i],
                              params |-> ParamsOf(p[k], p[k].chain[i]),
                              on |-> EnabledIn(p[k], p[k].chain[i])]
        BY <3>5 DEF Slots
      <4> HIDE DEF slots
      <4> QED
        BY <4>1, <4>2, <4>3
    <3> HIDE DEF slots
    <3>7. slots = Slots(p[k])
      BY <3>5, <3>6 DEF Slots
    <3> QED
      BY <3>7 DEF slots
  <2>3. ASSUME NEW k \in Kind, k \notin DOMAIN p
        PROVE  live0[k] = <<>>
    <3>1. IsSlots(live0[k]) /\ DOMAIN live0[k] = DOMAIN <<>>
      BY <2>1, <2>3 DEF SectionOf, EmptySection, SlotsFollow
    <3>2. live0[k] = [i \in DOMAIN live0[k] |-> live0[k][i]]
      BY <3>1 DEF IsSlots
    <3> QED
      BY <3>1, <3>2
  <2> QED
    BY <1>2, <2>1, <2>2, <2>3 DEF Chain
<1> QED
  BY <1>1, <1>2

(***************************************************************************)
(* A restart of the pipeline shows the picture the client was shown.       *)
(***************************************************************************)
THEOREM RestartKeepsPicture == Spec => []RebuildShowsTheSame
<1>1. Inv => RebuildShowsTheSame
  BY FollowsExactly DEF Inv, TypeOK, LiveFollowsPreset, RebuildShowsTheSame
<1> QED
  BY <1>1, InvHolds, PTL

-----------------------------------------------------------------------------
(* Refusals. *)

(***************************************************************************)
(* A refused command has changed nothing, whatever it had already edited   *)
(* when it found out: the table it merged, the section it materialised and *)
(* the live effect it reconfigured are all put back.                       *)
(***************************************************************************)
THEOREM RefusalsChangeNothing == Spec => RefusedChangesNothing
<1>1. Inv /\ [Next]_vars =>
        [commands' # commands /\ reply' = "err"
           => UNCHANGED <<active, name, live, cfg, file>>]_vars
  <2> SUFFICES ASSUME Inv, Next, commands' # commands, reply' = "err"
               PROVE  UNCHANGED <<active, name, live, cfg, file>>
    BY DEF vars
  <2> USE DEF session, env
  <2>0. IsPreset(active) /\ IsChain(live)
    BY DEF Inv, TypeOK
  <2>1. CASE Boot \/ RunBegins \/ CameraOpens \/ CameraLost \/ RunFails \/ ProcessEnds \/ EditFile
    BY <2>1 DEF Boot, RunBegins, CameraOpens, CameraLost, RunFails, ProcessEnds, EditFile
  <2>2. CASE Offline
    BY <2>2 DEF Offline, Refuse
  <2>3. ASSUME NEW k \in EditKinds, NEW e \in Effect, NEW f \in Param, NEW v \in Value,
               Set(k, e, f, v)
        PROVE  UNCHANGED <<active, name, live, cfg, file>>
    <3> DEFINE base == Materialised(active, k)
               entry == Merged(base[k], e, f, v)
               original == ParamsOf(base[k], e)
    <3>1. k \in Kind /\ Follows(live, active) /\ UNCHANGED <<file, cfg, name>>
      BY <2>3, ClientAssumption DEF Set, Serving, Inv, LiveFollowsPreset, Running
    <3>2. CASE active' = active /\ live' = live
      BY <3>1, <3>2
    <3>3. CASE /\ active' = RevertAbsent(RestoreEntry(PutEntry(base, k, e, entry), k, e,
                                                      base[k].table),
                                         k, k \notin DOMAIN active)
               /\ live' = IF CanReconfigure(live, k, e, original)
                          THEN Reconfigured(live, k, e, original) ELSE live
      <4> HIDE DEF entry
      <4> QED
        BY <2>0, <3>1, <3>3, SetRefused
    <3> QED
      BY <2>3, <3>2, <3>3 DEF Set, Answer
  <2>4. ASSUME NEW k \in EditKinds, NEW names \in Chains, SetChain(k, names)
        PROVE  UNCHANGED <<active, name, live, cfg, file>>
    BY <2>0, <2>4, RevertUndoes DEF SetChain, Answer
  <2>5. CASE \E k \in EditKinds, e \in Effect, on \in BOOLEAN : SetEnabled(k, e, on)
    BY <2>5 DEF SetEnabled, Answer
  <2>6. CASE \E n \in Name : SetPreset(n) \/ SavePresetAs(n)
    BY <2>6 DEF SetPreset, SavePresetAs, Save, Refuse, Answer
  <2>7. CASE SavePreset \/ Reload
    BY <2>7 DEF SavePreset, Reload, Save, Refuse, Answer
  <2> QED
    BY <2>1, <2>2, <2>3, <2>4, <2>5, <2>6, <2>7 DEF Next
<1> QED
  BY <1>1, InvHolds, PTL DEF Spec, RefusedChangesNothing

-----------------------------------------------------------------------------
(* The file and the daemon's list of presets. *)

(***************************************************************************)
(* A save reaches the file and the mirror alike, so they agree until the   *)
(* operator changes the file.                                              *)
(***************************************************************************)
THEOREM MirrorKept == Spec => []MirrorAgrees
<1>1. Init => MirrorAgrees
  BY DEF Init, MirrorAgrees
<1>2. TypeOK /\ MirrorAgrees /\ [Next]_vars => MirrorAgrees'
  <2> SUFFICES ASSUME TypeOK, MirrorAgrees, [Next]_vars, phase' # "off", ~touched'
               PROVE  /\ DOMAIN file'.presets = DOMAIN cfg'.presets
                      /\ \A n \in DOMAIN cfg'.presets :
                           file'.presets[n] \in {cfg'.presets[n], Normalised(cfg'.presets[n])}
    BY DEF MirrorAgrees
  <2> USE DEF session, env
  <2>1. ASSUME UNCHANGED <<file, cfg, touched>>, phase # "off"
        PROVE  /\ DOMAIN file'.presets = DOMAIN cfg'.presets
               /\ \A n \in DOMAIN cfg'.presets :
                    file'.presets[n] \in {cfg'.presets[n], Normalised(cfg'.presets[n])}
    BY <2>1 DEF MirrorAgrees
  <2>2. CASE Boot
    BY <2>2 DEF Boot
  <2>3. CASE RunBegins \/ CameraOpens \/ CameraLost \/ RunFails \/ UNCHANGED vars
    BY <2>1, <2>3 DEF RunBegins, CameraOpens, CameraLost, RunFails, Running, vars
  <2>4. CASE ProcessEnds \/ EditFile
    BY <2>4 DEF ProcessEnds, EditFile
  <2>5. CASE Offline
    BY <2>1, <2>5 DEF Offline, Refuse
  <2>6. CASE \E k \in EditKinds, e \in Effect :
               \/ \E f \in Param, v \in Value : Set(k, e, f, v)
               \/ \E on \in BOOLEAN : SetEnabled(k, e, on)
    BY <2>1, <2>6 DEF Set, SetEnabled, Serving
  <2>7. CASE \E k \in EditKinds, names \in Chains : SetChain(k, names)
    BY <2>1, <2>7 DEF SetChain, Serving
  <2>8. CASE \E n \in Name : SetPreset(n)
    BY <2>1, <2>8 DEF SetPreset, Serving, Refuse
  <2>9. ASSUME NEW n, Save(n), phase # "off"
        PROVE  /\ DOMAIN file'.presets = DOMAIN cfg'.presets
               /\ \A m \in DOMAIN cfg'.presets :
                    file'.presets[m] \in {cfg'.presets[m], Normalised(cfg'.presets[m])}
    <3>1. /\ file'.presets = With(file.presets, n, Normalised(active))
          /\ cfg'.presets = With(cfg.presets, n, active)
      <4>1. file' = Written(n, active) /\ cfg' = [cfg EXCEPT !.presets = With(@, n, active)]
        BY <2>9 DEF Save
      <4> QED
        BY <4>1 DEF Written, TypeOK
    <3>2. DOMAIN file.presets = DOMAIN cfg.presets
          /\ \A m \in DOMAIN cfg.presets :
               file.presets[m] \in {cfg.presets[m], Normalised(cfg.presets[m])}
      BY <2>9 DEF Save, MirrorAgrees
    <3> QED
      BY <3>1, <3>2 DEF With
  <2>10. CASE SavePreset \/ \E n \in Name : SavePresetAs(n)
    BY <2>1, <2>9, <2>10 DEF SavePreset, SavePresetAs, Serving, Refuse
  <2>11. CASE Reload
    BY <2>1, <2>11 DEF Reload, Serving, Refuse
  <2> QED
    BY <2>2, <2>3, <2>4, <2>5, <2>6, <2>7, <2>8, <2>10, <2>11 DEF Next
<1> QED
  BY <1>1, <1>2, TypeCorrect, PTL DEF Spec

(***************************************************************************)
(* A reload brings back what was saved.                                    *)
(***************************************************************************)
THEOREM ReloadBringsBack == Spec => ReloadKeepsSaved
<1>1. MirrorAgrees =>
        [Reload /\ reply' = "ok" /\ ~touched
           /\ name \in DOMAIN cfg.presets /\ cfg.presets[name] = active
          => /\ active' \in {active, Normalised(active)}
             /\ DOMAIN cfg'.presets = DOMAIN cfg.presets]_vars
  <2> SUFFICES ASSUME MirrorAgrees, Reload, reply' = "ok", ~touched,
                      name \in DOMAIN cfg.presets, cfg.presets[name] = active
               PROVE  /\ active' \in {active, Normalised(active)}
                      /\ DOMAIN cfg'.presets = DOMAIN cfg.presets
    OBVIOUS
  <2>1. /\ DOMAIN file.presets = DOMAIN cfg.presets
        /\ file.presets[name] \in {active, Normalised(active)}
    BY DEF MirrorAgrees, Reload, Serving
  <2>2. active' = file.presets[name] /\ cfg'.presets = file.presets
    BY DEF Reload, Refuse, Answer
  <2> QED
    BY <2>1, <2>2
<1> QED
  BY <1>1, MirrorKept, PTL DEF Spec, ReloadKeepsSaved
=============================================================================
