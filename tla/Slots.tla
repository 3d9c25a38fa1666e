-------------------------------- MODULE Slots --------------------------------
(***************************************************************************)
(* One effect of a chain, twice: as the table the session keeps and saves, *)
(* and as the configuration of the effect that draws.  `set` merges a key  *)
(* into the table and configures the effect with what is written and the   *)
(* defaults of its configuration type; building the chain replaces a table *)
(* without parameters by the defaults the effect declares.  Two ways to    *)
(* the same configuration, if the two sets of defaults agree.              *)
(***************************************************************************)
EXTENDS EffectParams, FiniteSets

CONSTANT MaxWritten   \* bound: how many parameters a table comes to hold

VARIABLES
    slot,   \* the effect, with the section it is in
    table,  \* its table in the active preset, <<>> if there is none
    live,   \* the configuration and the flag of the effect that draws
    reply   \* the last command and its answer

vars == <<slot, table, live, reply>>

Vacant == [section |-> "none", effect |-> "none"]
Quiet == [op |-> "none", ok |-> TRUE]

Init ==
    /\ slot = Vacant
    /\ table = <<>>
    /\ live = [params |-> <<>>, on |-> TRUE]
    /\ reply = Quiet

\* A whole of all parameters as configure leaves them.
Configuration(effect, params) ==
    IF effect \in Plain THEN <<>> ELSE Configured(effect, params)

(***************************************************************************)
(* configure_each: what building a chain with this table makes of it.      *)
(***************************************************************************)
Built(effect, t) ==
    LET resolved == Resolve(effect, t)
    IN  IF resolved.ok /\ Accepts(effect, resolved.params)
        THEN [ok |-> TRUE, live |-> [params |-> Configuration(effect, resolved.params),
                                     on |-> resolved.enabled]]
        ELSE Refused

\* The tables an operator may have written: nothing, the flag, one parameter.
Written(effect) ==
    {<<>>} \cup [{"enabled"} -> {"true", "false", "perhaps"}]
           \cup UNION {[{k} -> OfferedValues(Offers(effect)[k])] : k \in DOMAIN Offers(effect)}

Build(section, effect, t) ==
    /\ slot = Vacant
    /\ ChainBuilds(section, <<effect>>)
    /\ Built(effect, t).ok
    /\ slot' = [section |-> section, effect |-> effect]
    /\ table' = t
    /\ live' = Built(effect, t).live
    /\ reply' = Quiet

\* Chain edits, reloads and restarts build from the table again.
Rebuild ==
    /\ slot # Vacant
    /\ LET built == Built(slot.effect, table)
       IN  /\ live' = IF built.ok THEN built.live ELSE live
           /\ reply' = [op |-> "rebuild", ok |-> built.ok]
    /\ UNCHANGED <<slot, table>>

(***************************************************************************)
(* set: the table with the key in it must configure the effect; otherwise  *)
(* the table is put back, and the effect configured from it.               *)
(***************************************************************************)
Params(t) == SplitTable(t).params
Merged(t, key, value) == Over([k \in {key} |-> value], t)

\* Fault: a refused value stays in the table.
SetKeepingTable(key, value) ==
    LET merged == Merged(table, key, value)
        ok     == Accepts(slot.effect, Params(merged))
    IN  /\ slot # Vacant
        /\ table' = merged
        /\ live' = IF ok THEN [live EXCEPT !.params = Configuration(slot.effect, Params(merged))]
                   ELSE live
        /\ reply' = [op |-> "set", ok |-> ok, key |-> key, value |-> value, before |-> live]
        /\ UNCHANGED slot

Set(key, value) ==
    LET merged == Merged(table, key, value)
        ok     == Accepts(slot.effect, Params(merged))
        kept   == IF ok THEN merged ELSE table
    IN  /\ slot # Vacant
        /\ table' = kept
        /\ live' = IF Accepts(slot.effect, Params(kept))
                   THEN [live EXCEPT !.params = Configuration(slot.effect, Params(kept))]
                   ELSE live
        /\ reply' = [op |-> "set", ok |-> ok, key |-> key, value |-> value, before |-> live]
        /\ UNCHANGED slot

\* set_enabled: on is the absence of the key.
SetEnabled(on) ==
    /\ slot # Vacant
    /\ table' = IF on THEN Params(table) ELSE Merged(table, "enabled", "false")
    /\ live' = [live EXCEPT !.on = on]
    /\ reply' = [op |-> "set_enabled", ok |-> TRUE]
    /\ UNCHANGED slot

\* What a client may send: what the controls offer, and what they do not.
Sent(effect) ==
    (UNION {{<<k, v>> : v \in OfferedValues(Offers(effect)[k])} : k \in DOMAIN Offers(effect)})
        \cup {<<k, NaN>> : k \in {p \in DOMAIN Offers(effect) : Offers(effect)[p].kind = "number"}}
        \cup {<<"unknown", 1>>}

Next ==
    \/ \E section \in Sections :
          \E effect \in Registered(section) : \E t \in Written(effect) : Build(section, effect, t)
    \/ /\ slot # Vacant
       /\ \E pair \in Sent(slot.effect) :
            /\ Cardinality(DOMAIN Params(table) \cup {pair[1]}) <= MaxWritten
            /\ Set(pair[1], pair[2])
    \/ \E on \in BOOLEAN : SetEnabled(on)
    \/ Rebuild

Spec == Init /\ [][Next]_vars

(***************************************************************************)
(* The two stay one.                                                       *)
(***************************************************************************)
\* Building from the table gives the effect that draws: a reload, a restart or an
\* edit elsewhere in the chain changes nothing on the screen.
RebuildChangesNothing ==
    slot # Vacant => Built(slot.effect, table) = [ok |-> TRUE, live |-> live]

\* An accepted `set` changes its key and no other, a refused one nothing.
OneKeyMoves ==
    reply.op = "set" =>
        live.params = IF reply.ok /\ slot.effect \notin Plain
                      THEN [reply.before.params EXCEPT ![reply.key] = reply.value]
                      ELSE reply.before.params

\* Everything the editor offers is accepted, except a file that is not there.
OfferedIsAccepted ==
    reply.op = "set" /\ reply.key \in DOMAIN Offers(slot.effect) =>
        reply.ok = (IF Offers(slot.effect)[reply.key].kind = "path"
                    THEN reply.value # "missing" ELSE reply.value \in OfferedValues(Offers(slot.effect)[reply.key]))

SlotsHold == RebuildChangesNothing /\ OneKeyMoves /\ OfferedIsAccepted
=============================================================================
