--------------------------- MODULE StrategyStore ---------------------------
(***************************************************************************)
(* strategies.yaml and the routing made of it: the load-modify-save edits  *)
(* of the admin page (strategy_store.py, routes/admin.py) and the reload   *)
(* of the router (routing.py).                                             *)
(*                                                                         *)
(* Edits run in threads without a lock between them.  They all write the   *)
(* one temporary file and rename it over the file; a handle opened on the  *)
(* temporary file follows it there.  A process that dies leaves both files *)
(* as they are.                                                            *)
(***************************************************************************)
EXTENDS Integers, FiniteSets

CONSTANTS Strategies, Marks,    \* the switches of a strategy: venues, sar, entry, size
          Editors,              \* requests running at a time
          Absent,               \* no entry for the strategy
          Invalid,              \* an entry _build_strategy refuses
          NoFile, Partial, Garbled   \* no file; opened and not written; two writers' bytes

VARIABLES file, tmp,     \* what is in strategies.yaml and in its .tmp
          router,        \* StrategyRouter._routes
          editor,        \* the requests: step, contents held, where the open file is linked
          last           \* the latest edit: contents before and after, and how it went

vars == <<file, tmp, router, editor, last>>

Entries == (SUBSET Marks) \cup {Absent, Invalid}
Contents == [Strategies -> Entries]
Empty == [s \in Strategies |-> Absent]
Idle == [step |-> "idle", data |-> Empty, handle |-> "none"]
Quiet == \A e \in Editors : editor[e] = Idle

\* load: no file, an empty one and malformed YAML are all the empty skeleton.
Load(c) == IF c \in Contents THEN c ELSE Empty

\* reload: bad entries are skipped, one by one.
Routes(c) == [s \in Strategies |-> IF c[s] = Invalid THEN Absent ELSE c[s]]

Init == /\ file \in Contents \cup {NoFile}
        /\ tmp = NoFile
        /\ router = Routes(Load(file))
        /\ editor = [e \in Editors |-> Idle]
        /\ last = [before |-> file, after |-> file, stage |-> "ok"]
----------------------------------------------------------------------------
(* The edits: what each makes of the contents it loaded *)

Upsert(c, s, entry) == [c EXCEPT ![s] = entry]

\* toggle_venue, toggle_sar, toggle_entry; set_position_size sets a mark or clears it.
Flip(entry, m) == IF entry = Invalid THEN Invalid
                  ELSE IF m \in entry THEN entry \ {m} ELSE entry \cup {m}

\* save_strategy, delete_strategy, and the switches, which leave the rest of the entry alone.
\* For a strategy that is not there the others are a 404: nothing is saved, nothing reloaded.
Edited(c) == {Upsert(c, s, entry) : s \in Strategies, entry \in SUBSET Marks}
             \cup {[c EXCEPT ![s] = Absent] : s \in {t \in Strategies : c[t] # Absent}}
             \cup {[c EXCEPT ![s] = Flip(c[s], m)] : s \in {t \in Strategies : c[t] # Absent},
                                                     m \in Marks}

Become(e, step, data, handle) ==
    editor' = [editor EXCEPT ![e] = [step |-> step, data |-> data, handle |-> handle]]

Mark(stage) == last' = IF last.stage = "raced" THEN last ELSE [last EXCEPT !.stage = stage]

\* An edit that overlaps with another one: nothing is said of either.
Raced == [before |-> NoFile, after |-> NoFile, stage |-> "raced"]

\* An edit begins by loading the file.
Begin(e) ==
    /\ editor[e] = Idle
    /\ \E after \in Edited(Load(file)) :
          /\ Become(e, "loaded", after, "none")
          /\ last' = IF Quiet
                     THEN [before |-> file, after |-> after, stage |-> "running"]
                     ELSE Raced
    /\ UNCHANGED <<file, tmp, router>>
----------------------------------------------------------------------------
(* save *)

\* Mutant of OpenTmp: the file itself is opened for writing.
OpenFile(e) ==
    /\ editor[e].step = "loaded"
    /\ file' = Partial
    /\ Become(e, "opened", editor[e].data, "file")
    /\ UNCHANGED <<tmp, router, last>>

\* open("w") truncates a temporary file that is there, also one another edit is writing.
OpenTmp(e) ==
    /\ editor[e].step = "loaded"
    /\ tmp' = Partial
    /\ Become(e, "opened", editor[e].data, "tmp")
    /\ UNCHANGED <<file, router, last>>

\* Contents go in at the start of the file: over another edit's, a longer text shows behind.
Over(old, new) == IF old \in {Partial, new} THEN {new} ELSE {new, Garbled}

\* The dump ends and the file is closed.  It may be in its place by now, or unlinked.
Dump(e) ==
    /\ editor[e].step = "opened"
    /\ LET h == editor[e].handle IN
       /\ IF h = "tmp" THEN tmp' \in Over(tmp, editor[e].data) ELSE UNCHANGED tmp
       /\ IF h = "file" THEN file' \in Over(file, editor[e].data) ELSE UNCHANGED file
    /\ Become(e, "dumped", editor[e].data, "none")
    /\ UNCHANGED <<router, last>>

\* Where an open file is linked once the temporary one was renamed.
Relinked(h) == CASE h = "tmp" -> "file" [] h = "file" -> "gone" [] OTHER -> h

\* Mutant of Replace: an edit does not end in a reload.
ReplaceOnly(e) ==
    /\ editor[e].step = "dumped" /\ tmp # NoFile
    /\ file' = tmp /\ tmp' = NoFile
    /\ editor' = [f \in Editors |-> IF f = e THEN Idle
                                    ELSE [editor[f] EXCEPT !.handle = Relinked(@)]]
    /\ Mark("ok")
    /\ UNCHANGED router

\* tmp.replace(path).
Replace(e) ==
    /\ editor[e].step = "dumped" /\ tmp # NoFile
    /\ file' = tmp /\ tmp' = NoFile
    /\ editor' = [f \in Editors |-> IF f = e THEN [Idle EXCEPT !.step = "saved"]
                                    ELSE [editor[f] EXCEPT !.handle = Relinked(@)]]
    /\ UNCHANGED <<router, last>>

\* Another edit has renamed it: FileNotFoundError, and no reload.
ReplaceFails(e) ==
    /\ editor[e].step = "dumped" /\ tmp = NoFile
    /\ editor' = [editor EXCEPT ![e] = Idle]
    /\ Mark("failed")
    /\ UNCHANGED <<file, tmp, router>>
----------------------------------------------------------------------------
(* reload: the file is read, then the new dict takes the place of the old one.  reload_strategies *)
(* of the admin page does it without an edit. *)

Reread(e) ==
    /\ \/ editor[e].step = "saved" /\ UNCHANGED last
       \/ /\ editor[e] = Idle
          /\ last' = IF Quiet THEN [before |-> file, after |-> file, stage |-> "running"]
                     ELSE Raced
    /\ Become(e, "reread", Load(file), "none")
    /\ UNCHANGED <<file, tmp, router>>

Swap(e) ==
    /\ editor[e].step = "reread"
    /\ router' = Routes(editor[e].data)
    /\ editor' = [editor EXCEPT ![e] = Idle]
    /\ Mark("ok")
    /\ UNCHANGED <<file, tmp>>
----------------------------------------------------------------------------
\* The process dies and restarts: StrategyRouter loads the file.
Restart ==
    /\ editor' = [e \in Editors |-> Idle]
    /\ router' = Routes(Load(file))
    /\ Mark(IF Quiet THEN last.stage ELSE "cut")
    /\ UNCHANGED <<file, tmp>>

Edit(e) == \/ Begin(e) \/ OpenTmp(e) \/ Dump(e) \/ Replace(e) \/ ReplaceFails(e)
           \/ Reread(e) \/ Swap(e)

Next == (\E e \in Editors : Edit(e)) \/ Restart

Spec == Init /\ [][Next]_vars
----------------------------------------------------------------------------
(* Properties *)

\* save, "avoids leaving the file half-written if the process is killed mid-write": an edit no
\* other edit overlapped is applied in whole or not at all, wherever a crash cuts it, also when
\* an earlier edit, raced or cut, left a temporary file behind.
EditIsAtomic ==
    last.stage # "raced" => file \in {last.before, last.after}

\* Once such an edit was answered, the file holds it and every signal is routed by it; what
\* races left behind before, in the router or on disk, does not outlive it.
AnsweredIsServed ==
    last.stage = "ok" => file = last.after /\ router = Routes(Load(last.after))
============================================================================
