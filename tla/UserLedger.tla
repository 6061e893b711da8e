------------------------------ MODULE UserLedger ------------------------------
(***************************************************************************)
(* The ledger of a user (core/ledger.py): lists of what the user did, each  *)
(* with a rolling window of live entries and an archive of the older ones, *)
(* and the settings they chose.  Ledger and archive are two files, each    *)
(* replaced in one step.  A call reads the files and then writes one after  *)
(* the other; it does not await, so no other call comes in, but the process *)
(* may die between two of the writes, and the next one goes on from the    *)
(* files.                                                                  *)
(***************************************************************************)
EXTENDS Integers, Sequences, SequencesExt

CONSTANTS
  LedgerUsers,    \* users with a ledger
  Fields,         \* historical_mistakes, behavioral_patterns
  OldFields,      \* the fields of the template before its update
  RollingWindow,  \* ROLLING_WINDOW
  Settings,       \* values of indicator_inventory
  Default,        \* the template's value
  MaxEntries,     \* bound: the entries of a field
  MaxDeaths,      \* bound: the times the process may die
  Absent          \* no file, no field

ASSUME UserLedgerAssumption ==
  /\ OldFields \subseteq Fields
  /\ RollingWindow \in Nat \ {0}
  /\ Default \in Settings
  /\ MaxEntries \in Nat /\ MaxDeaths \in Nat

Ledger == [lists: [Fields -> Seq(Nat) \cup {Absent}], inventory: Settings]

ASSUME AbsentAssumption == Absent \notin Ledger \cup Seq(Nat)

VARIABLES
  template,  \* the fields of the user template
  ledger,    \* user |-> lists and settings, or Absent
  deep,      \* user |-> the archived entries of each field
  writes,    \* the writes the running call still has to do
  past       \* history: how many entries were recorded, the settings chosen,
             \* and deaths

ledgerVars == <<template, ledger, deep, writes, past>>

\* A ledger made from the template.
Fresh == [lists |-> [f \in Fields |-> IF f \in template THEN <<>> ELSE Absent], inventory |-> Default]

LedgerInit ==
  /\ template = OldFields
  /\ ledger = [u \in LedgerUsers |-> Absent]
  /\ deep = [u \in LedgerUsers |-> [f \in Fields |-> <<>>]]
  /\ writes = <<>>
  /\ past = [recorded |-> [u \in LedgerUsers |-> [f \in Fields |-> 0]],
             chosen |-> [u \in LedgerUsers |-> Default], deaths |-> 0]

\* A write: the file it replaces, of whom, its new content, and what has come to
\* pass once it is done.
Replace(file, user, data, then) == [file |-> file, user |-> user, data |-> data, then |-> then]

\* A call starts when none is running.
Call(todoList) ==
  /\ writes = <<>>
  /\ writes' = todoList
  /\ UNCHANGED <<template, ledger, deep, past>>

-----------------------------------------------------------------------------
\* Regression: the template's values replace those of the file.
BackfillAll(led) == Fresh
\* _backfill_schema: only what the file lacks is taken from the template.
Backfill(led) ==
  [led EXCEPT !.lists = [f \in Fields |-> IF @[f] = Absent THEN Fresh.lists[f] ELSE @[f]]]

\* ensure_ledger
EnsureLedger(u) ==
  LET filled == IF ledger[u] = Absent THEN Fresh ELSE Backfill(ledger[u])
  IN  Call(IF filled = ledger[u] THEN <<>> ELSE <<Replace("ledger", u, filled, past)>>)

\* read_ledger makes a ledger that is missing and takes one that is old as it is.
ReadLedger(u) == IF ledger[u] = Absent THEN Fresh ELSE ledger[u]
Creation(u) == IF ledger[u] = Absent THEN <<Replace("ledger", u, Fresh, past)>> ELSE <<>>

Excess(list) == IF Len(list) > RollingWindow THEN Len(list) - RollingWindow ELSE 0

\* Regression: what leaves the window is not archived.
Unarchived(u, f, list) == <<>>
\* _enforce_rolling_window: the archive is replaced once for each evicted entry.
Archived(u, f, list) ==
  [i \in 1..Excess(list) |-> Replace("deep", u, [deep[u] EXCEPT ![f] = @ \o SubSeq(list, 1, i)], past)]

\* Regression: the ledger is replaced before the archive.
LedgerFirst(archive, live) == Append(<<>>, live) \o archive
ArchiveFirst(archive, live) == Append(archive, live)

\* append_mistake, append_pattern: a ledger without the field raises.
AppendEntry(u, f) ==
  LET led == ReadLedger(u)
      entry == past.recorded[u][f] + 1
      grown == Append(led.lists[f], entry)
      left == SubSeq(grown, Excess(grown) + 1, Len(grown))
  IN  /\ entry <= MaxEntries
      /\ led.lists[f] # Absent
      /\ Call(Creation(u) \o
              ArchiveFirst(Archived(u, f, grown),
                           Replace("ledger", u, [led EXCEPT !.lists[f] = left],
                                   [past EXCEPT !.recorded[u][f] = entry])))

\* set_indicator
SetIndicator(u, v) ==
  Call(Creation(u) \o
       <<Replace("ledger", u, [ReadLedger(u) EXCEPT !.inventory = v], [past EXCEPT !.chosen[u] = v])>>)

\* A release with a template that has every field.
UpdateTemplate ==
  /\ writes = <<>>
  /\ template' = Fields
  /\ UNCHANGED <<ledger, deep, writes, past>>

-----------------------------------------------------------------------------
\* The next write of the running call.
ReplaceFile ==
  /\ writes # <<>>
  /\ LET w == Head(writes)
         content(file, old) == IF w.file = file THEN [old EXCEPT ![w.user] = w.data] ELSE old
     IN  /\ ledger' = content("ledger", ledger)
         /\ deep' = content("deep", deep)
         /\ past' = w.then
  /\ writes' = Tail(writes)
  /\ UNCHANGED template

\* The process dies in the middle of a call.
Die ==
  /\ writes # <<>>
  /\ past.deaths < MaxDeaths
  /\ writes' = <<>>
  /\ past' = [past EXCEPT !.deaths = @ + 1]
  /\ UNCHANGED <<template, ledger, deep>>

LedgerNext ==
  \/ \E u \in LedgerUsers :
       \/ EnsureLedger(u)
       \/ \E f \in Fields : AppendEntry(u, f)
       \/ \E v \in Settings : SetIndicator(u, v)
  \/ UpdateTemplate
  \/ ReplaceFile \/ Die

LedgerSpec == LedgerInit /\ [][LedgerNext]_ledgerVars

-----------------------------------------------------------------------------
(* Properties *)

LedgerTypeOK ==
  /\ template \in SUBSET Fields
  /\ ledger \in [LedgerUsers -> Ledger \cup {Absent}]
  /\ deep \in [LedgerUsers -> [Fields -> Seq(Nat)]]
  /\ \A i \in DOMAIN writes : writes[i].file \in {"ledger", "deep"}
  /\ past.deaths \in 0..MaxDeaths

\* What a user's files hold of a field, the archive and then the live entries.
Live(u, f) == IF ledger[u] = Absent \/ ledger[u].lists[f] = Absent THEN <<>> ELSE ledger[u].lists[f]
Kept(u, f) == deep[u][f] \o Live(u, f)

Ascending(s) == \A i \in 2..Len(s) : s[i - 1] <= s[i]

\* "Each entry beyond the cap is extracted oldest-first and written to the user's
\* deep history archive before being removed from the live ledger": whenever the
\* process dies, archive and ledger together hold every recorded entry and no
\* other, in order, and the ledger no more than the window; an entry is there
\* twice only for a death, or while it is being moved.  Settings last across
\* evictions and backfills.
NothingForgotten ==
  /\ \A u \in LedgerUsers, f \in Fields :
       /\ Len(Live(u, f)) <= RollingWindow
       /\ Ascending(Kept(u, f))
       /\ Range(Kept(u, f)) = 1..past.recorded[u][f]
       /\ Len(Kept(u, f)) <= past.recorded[u][f] + past.deaths + (IF writes = <<>> THEN 0 ELSE 1)
  /\ \A u \in LedgerUsers : ledger[u] # Absent => ledger[u].inventory = past.chosen[u]
=============================================================================
