------------------------------- MODULE Preset -------------------------------
(***************************************************************************)
(* Presets as data: what an operator's [presets.NAME] table holds, when it *)
(* builds into a chain, what chain that is, and the edits the control      *)
(* socket makes to a preset and to a live chain.                           *)
(*                                                                         *)
(* An optional section, table or key is a partial function: the key is in  *)
(* the domain or it is not.  An effect is configured by the parameters     *)
(* written in its table; those it does not write take defaults that are a  *)
(* function of the effect, and every effect's configure() either takes all *)
(* of its parameters or none.                                              *)
(*                                                                         *)
(* A definition whose comment starts with "Fault:" is a wrong variant of   *)
(* the one below it; nothing uses it.                                      *)
(***************************************************************************)
EXTENDS Naturals, Sequences, Functions

CONSTANTS
    Effect,    \* effect names, registered or not
    Param,     \* parameter names
    Value,     \* parameter values
    Registry,  \* Registry[k]: the effects registered for sections of kind k
    Schema,    \* Schema[e]: the parameters effect e knows
    Needs,     \* Needs[e]: its required parameters that have no default
    Refused,   \* <<parameter, value>> that configure() refuses
    Corrupt    \* <<parameter, value>> that configure() accepts and prepare()
               \* refuses: an image that opens and does not decode

Kind == {"mask", "background", "foreground", "post"}
Planes == {"background", "foreground"}

ASSUME RegistryAssumption == Registry \in [Kind -> SUBSET Effect]
ASSUME SchemaAssumption == /\ Schema \in [Effect -> SUBSET Param]
                           /\ Needs \in [Effect -> SUBSET Param]
ASSUME ValueAssumption == /\ Refused \subseteq Param \X Value
                          /\ Corrupt \subseteq Param \X Value

\* Partial functions with keys in S.
IsPartial(f, S) == f = [x \in DOMAIN f |-> f[x]] /\ DOMAIN f \subseteq S
With(f, x, v) == [y \in DOMAIN f \union {x} |-> IF y = x THEN v ELSE f[y]]
Without(f, x) == Restrict(f, DOMAIN f \ {x})
None == [x \in {} |-> {}]

\* Written parameters, an effect's table, a section, a preset.
IsParams(params) ==
    IsPartial(params, Param) /\ \A f \in DOMAIN params : params[f] \in Value
IsEntry(entry) ==
    /\ entry = [params |-> entry.params, on |-> entry.on]
    /\ IsParams(entry.params)
    /\ entry.on \in BOOLEAN
IsTable(table) ==
    IsPartial(table, Effect) /\ \A e \in DOMAIN table : IsEntry(table[e])
IsSection(section) ==
    /\ section = [chain |-> section.chain, table |-> section.table, model |-> section.model]
    /\ section.model \in BOOLEAN    \* of a mask: there is a segmentation model
    /\ section.chain \in Seq(Effect)
    /\ IsTable(section.table)
IsPreset(p) == IsPartial(p, Kind) /\ \A k \in DOMAIN p : IsSection(p[k])

EmptySection == [chain |-> <<>>, table |-> None, model |-> FALSE]

-----------------------------------------------------------------------------
(* What a preset builds into. *)

ParamsOf(section, e) ==
    IF e \in DOMAIN section.table THEN section.table[e].params ELSE None
EnabledIn(section, e) == e \in DOMAIN section.table => section.table[e].on

Accepts(e, params) ==
    /\ DOMAIN params \subseteq Schema[e]
    /\ Needs[e] \subseteq DOMAIN params
    /\ \A f \in DOMAIN params : <<f, params[f]>> \notin Refused

Loads(params) == \A f \in DOMAIN params : <<f, params[f]>> \notin Corrupt

\* Every effect of the section exists and can be configured.
Configures(k, section) ==
    \A e \in Range(section.chain) :
        e \in Registry[k] /\ Accepts(e, ParamsOf(section, e))

\* No table without an effect: the check that catches misspelt tables.
NoOrphans(section) == DOMAIN section.table \subseteq Range(section.chain)

PlanesHaveMask(p) == DOMAIN p \intersect Planes # {} => "mask" \in DOMAIN p

Builds(p) ==
    /\ PlanesHaveMask(p)
    /\ "mask" \in DOMAIN p =>
         /\ p["mask"].model
         /\ \A k \in DOMAIN p : NoOrphans(p[k]) /\ Configures(k, p[k])

Prepares(p) ==
    "mask" \in DOMAIN p =>
        \A k \in DOMAIN p : \A e \in Range(p[k].chain) : Loads(ParamsOf(p[k], e))

\* The slots of a built section, in chain order.
Slots(section) ==
    [i \in DOMAIN section.chain |->
        [name |-> section.chain[i],
         params |-> ParamsOf(section, section.chain[i]),
         on |-> EnabledIn(section, section.chain[i])]]

IsSlot(slot) ==
    /\ slot = [name |-> slot.name, params |-> slot.params, on |-> slot.on]
    /\ slot.name \in Effect /\ IsParams(slot.params) /\ slot.on \in BOOLEAN
IsSlots(slots) ==
    /\ slots = [i \in DOMAIN slots |-> slots[i]]
    /\ \A i \in DOMAIN slots : IsSlot(slots[i])

\* A built chain: the four slot lists of the composite, or Passthrough for a
\* preset without a mask.
Passthrough == None
IsComposite(chain) == DOMAIN chain = Kind
Chain(p) ==
    IF "mask" \in DOMAIN p
    THEN [k \in Kind |-> IF k \in DOMAIN p THEN Slots(p[k]) ELSE <<>>]
    ELSE Passthrough
IsChain(chain) ==
    /\ IsPartial(chain, Kind)
    /\ \A k \in DOMAIN chain : IsSlots(chain[k])

-----------------------------------------------------------------------------
(* Edits of a preset. *)

Materialised(p, k) == IF k \in DOMAIN p THEN p ELSE With(p, k, EmptySection)

\* Fault: the empty section stays.
KeepMaterialised(p, k, absent) == p

\* Undo Materialised when the edit it was made for came to nothing.
RevertAbsent(p, k, absent) ==
    IF absent /\ p[k] = EmptySection THEN Without(p, k) ELSE p

PutEntry(p, k, e, entry) == [p EXCEPT ![k].table = With(@, e, entry)]
DropEntry(p, k, e) == [p EXCEPT ![k].table = Without(@, e)]
RestoreEntry(p, k, e, table) ==
    IF e \in DOMAIN table THEN PutEntry(p, k, e, table[e]) ELSE DropEntry(p, k, e)

Merged(section, e, f, v) ==
    [params |-> With(ParamsOf(section, e), f, v), on |-> EnabledIn(section, e)]

\* Fault: the tables of the effects that left stay.
RechainedUnpruned(p, k, names) == [p EXCEPT ![k].chain = names]

\* A new chain for section k, with the tables of the effects that left pruned.
Rechained(p, k, names) ==
    [p EXCEPT ![k] = [chain |-> names,
                      table |-> Restrict(@.table, DOMAIN @.table \intersect Range(names)),
                      model |-> @.model]]

\* Fault: switching on drops the whole table.
ToggledDropsTable(p, k, e, on) ==
    IF on THEN DropEntry(p, k, e)
    ELSE PutEntry(p, k, e, [params |-> ParamsOf(p[k], e), on |-> FALSE])

\* `enabled = false` when off, no key when on, and no table for no keys.
Toggled(p, k, e, on) ==
    LET table == p[k].table
        params == ParamsOf(p[k], e)
    IN  IF ~on THEN PutEntry(p, k, e, [params |-> params, on |-> FALSE])
        ELSE IF e \notin DOMAIN table THEN p
        ELSE IF DOMAIN params = {} THEN DropEntry(p, k, e)
        ELSE PutEntry(p, k, e, [params |-> params, on |-> TRUE])

\* What a save writes: the preset without orphaned tables.
Normalised(p) ==
    [k \in DOMAIN p |->
        [p[k] EXCEPT !.table = Restrict(@, DOMAIN @ \intersect Range(p[k].chain))]]

-----------------------------------------------------------------------------
(* Edits of a live chain. *)

Names(slots) == {slots[i].name : i \in DOMAIN slots}
IsFirst(slots, i) == \A j \in DOMAIN slots : j < i => slots[j].name # slots[i].name

CanReconfigure(live, k, e, params) ==
    IsComposite(live) /\ e \in Names(live[k]) /\ Accepts(e, params)

\* reconfigure_in stops at the first slot with the name ...
Reconfigured(live, k, e, params) ==
    [live EXCEPT ![k] = [i \in DOMAIN @ |->
        IF @[i].name = e /\ IsFirst(@, i) THEN [@[i] EXCEPT !.params = params] ELSE @[i]]]

\* Fault: only the first is switched.
SwitchedFirst(live, k, e, on) ==
    [live EXCEPT ![k] = [i \in DOMAIN @ |->
        IF @[i].name = e /\ IsFirst(@, i) THEN [@[i] EXCEPT !.on = on] ELSE @[i]]]

\* ... set_enabled_in goes through all of them.
Switched(live, k, e, on) ==
    [live EXCEPT ![k] = [i \in DOMAIN @ |->
        IF @[i].name = e THEN [@[i] EXCEPT !.on = on] ELSE @[i]]]

-----------------------------------------------------------------------------
(* The correspondence between a preset and the chain that renders it: the    *)
(* same effects in the same order, each with its flag, and the first slot of *)
(* every effect with the parameters of its table.                            *)

SectionOf(p, k) == IF k \in DOMAIN p THEN p[k] ELSE EmptySection

SlotsFollow(slots, section) ==
    /\ DOMAIN slots = DOMAIN section.chain
    /\ \A i \in DOMAIN slots :
         /\ slots[i].name = section.chain[i]
         /\ slots[i].on = EnabledIn(section, slots[i].name)
         /\ IsFirst(slots, i) => slots[i].params = ParamsOf(section, slots[i].name)

Follows(live, p) ==
    IF "mask" \in DOMAIN p
    THEN IsComposite(live) /\ \A k \in Kind : SlotsFollow(live[k], SectionOf(p, k))
    ELSE live = Passthrough

\* No effect is twice in one chain.
NoRepeats(p) ==
    \A k \in DOMAIN p : \A i \in DOMAIN p[k].chain : \A j \in DOMAIN p[k].chain :
        p[k].chain[i] = p[k].chain[j] => i = j
=============================================================================
