------------------------- MODULE BreakpointRegistry -------------------------
(***************************************************************************)
(* The breakpoint registry of debugger.py against the prover it describes. *)
(* The registry holds the agent's breakpoints; the prover holds breakable  *)
(* sites, each with a serial it forgets when the code around it is edited, *)
(* retired by a cancellation, or dies with the process.  The tools that    *)
(* switch sites run under registry.lock and await the prover at every      *)
(* toggle; edits, evaluation, cancellation and teardown do not take it.    *)
(***************************************************************************)
EXTENDS Naturals, Sequences, FiniteSets, FiniteSetsExt

CONSTANTS
  Calls,      \* tool calls that may be in flight together
  Files,      \* the files with breakable statements
  ML,         \* those of them that are .ML files, loaded by a theory
  Stmts,      \* the breakable statements of the program under debug
  FileOf,     \* the file of a statement
  AnchorOf,   \* the text a statement is recognised by
  Lines,      \* line numbers
  Home,       \* the line a statement starts on
  Downstream, \* the files whose sites die with an edit of a file
  Nobody,     \* no call: the lock is free, a toggle's caller stopped waiting
  MaxEntries, MaxSerial, MaxCalls,
  MaxTrouble  \* edits, failed requests, cancelled calls, retirements, teardowns

ASSUME RegistryAssumption ==
  /\ ML \subseteq Files
  /\ FileOf \in [Stmts -> Files]
  /\ DOMAIN AnchorOf = Stmts
  /\ Lines \subseteq Nat \ {0}
  /\ Home \in [Stmts -> Lines]
  /\ \A s, t \in Stmts : FileOf[s] = FileOf[t] /\ Home[s] = Home[t] => s = t
  /\ Downstream \in [Files -> SUBSET Files]
  /\ Nobody \notin Calls
  /\ {MaxEntries, MaxSerial, MaxCalls, MaxTrouble} \subseteq Nat

VARIABLES
  prover,  \* "up", "closing" while it is torn down, "none"
  life,    \* the prover processes there have been
  held,    \* the files the prover has models of
  at,      \* the line of each statement in the prover's text
  sites,   \* serial -> the live site: statement, finished or not, on or off
  serials, \* the last serial this prover process gave
  wire,    \* toggles on their way to the prover, in order
  entries, \* the registry: id -> entry; ids are in list order
  born,    \* entries created so far
  dirty,   \* files whose sites may have died
  lock,    \* registry.lock
  call,    \* the tool calls
  sweep,   \* the ranges a cancellation retired and has not demoted yet
  due,     \* edits the prover has, whose file will be marked when a send
           \* returns or a flush is answered: file, way, serials that died
  coming,  \* files whose last push has not reached the files downstream
  unsure,  \* history: sites whose switch no finished call vouches for
  doubled, \* history: sites two entries have stood on between calls
  stale,   \* history: serials an entry was armed on after their death
  untold,  \* history: serials whose death nothing will ever report
  spent    \* what is used up of each bound

progVars  == <<prover, life, held, at, sites, serials, wire>>
histVars  == <<unsure, doubled, stale>>
reportVars == <<due, coming, untold>>
vars == <<progVars, entries, born, dirty, lock, call, sweep, reportVars, histVars, spent>>

Serials == 1..MaxSerial
NoSite == [serial |-> 0, file |-> Nobody, anchor |-> Nobody, line |-> 0,
           ready |-> FALSE, life |-> 0]

\* The reasons an entry is pending for.
NotEvaluated == "not evaluated"
Evaluating   == "still evaluating"
NotFound     == "code not found"
WireFailure  == "state unknown"

Idle == [op |-> "none", pc |-> "idle", ids |-> {}, plan |-> {},
         paths |-> {}, failed |-> {}, marks |-> {}, site |-> NoSite,
         cur |-> 0, reply |-> "none"]

\* A finite map with X at KEY.
Put(map, key, x) == [k \in DOMAIN map \cup {key} |-> IF k = key THEN x ELSE map[k]]

Spend(calls, trouble) ==
  spent' = [calls |-> spent.calls + calls, trouble |-> spent.trouble + trouble]
MoreTrouble == spent.trouble < MaxTrouble
-----------------------------------------------------------------------------
(* The registry's own operators.                                           *)

Armed(es) == {e \in DOMAIN es : es[e].state = "armed"}
ArmedIn(es, f) == {e \in Armed(es) : es[e].file = f}
ArmedFiles(es) == {es[e].file : e \in Armed(es)}
Carries(es, s) == {e \in DOMAIN es : es[e].serial = s}

Arm(entry, site) ==
  [entry EXCEPT !.state = "armed", !.serial = site.serial, !.reason = "none",
                !.line = site.line, !.anchor = site.anchor]

\* Mutant: the serial outlives the demotion.
DemotedWithSerial(entry, tag) == [entry EXCEPT !.state = "pending", !.reason = tag]

\* The armed entry loses its serial; no site is toggled.
Demoted(entry, tag) ==
  [entry EXCEPT !.state = "pending", !.serial = 0, !.reason = tag]

Demote(es, ids, tag) ==
  [e \in DOMAIN es |-> IF e \in ids THEN Demoted(es[e], tag) ELSE es[e]]

Enable(es, ids, flag) ==
  [e \in DOMAIN es |->
     IF e \in ids THEN [es[e] EXCEPT !.enabled = flag] ELSE es[e]]

Without(es, ids) == [e \in DOMAIN es \ ids |-> es[e]]

\* Mutant: the whole file is taken as unloaded.
UnloadedFile(es, ranges) ==
  {e \in Armed(es) : \E u \in ranges : es[e].file = u.file \/ es[e].file \in u.loads}

\* A cancellation unloads a file from its first retired line on, and the
\* ML files the unloaded commands load.
Unloaded(es, ranges) ==
  {e \in Armed(es) : \E u \in ranges :
     \/ es[e].file = u.file /\ es[e].line >= u.line
     \/ es[e].file \in u.loads}

\* Entries on one site are kept once, the earliest; only IDS are looked at.
MergeSameSite(es, ids) ==
  Without(es, {e \in ids \cap Armed(es) : \E k \in ids \cap Armed(es) :
                 k < e /\ es[k].serial = es[e].serial})

\* An entry finds its site by serial, else by its statement's text (the
\* anchor), nearest to the recorded line, the earlier one of a tie.
Distance(m, n) == IF m <= n THEN n - m ELSE m - n
ResolveEntry(entry, listing) ==
  LET same == {x \in listing : x.serial = entry.serial}
      like == {x \in listing : x.anchor = entry.anchor}
      near(x, y) == \/ Distance(x.line, entry.line) < Distance(y.line, entry.line)
                    \/ /\ Distance(x.line, entry.line) = Distance(y.line, entry.line)
                       /\ x.line <= y.line
  IN IF same # {} THEN CHOOSE x \in same : TRUE
     ELSE IF like = {} THEN NoSite
     ELSE CHOOSE x \in like : \A y \in like : near(x, y)

\* The entries an acknowledged arming of a site is about.
Matching(es, site) ==
  {e \in DOMAIN es : /\ es[e].file = site.file
                     /\ \/ es[e].serial = site.serial
                        \/ es[e].line = site.line /\ es[e].anchor = site.anchor}

\* Serials that two entries carry.
Twins(es) ==
  {es[e].serial : e \in {x \in Armed(es) : Cardinality(Carries(es, es[x].serial)) > 1}}
-----------------------------------------------------------------------------
(* What the prover answers.                                                *)

Listing(f) ==
  {[serial |-> s, file |-> f, anchor |-> AnchorOf[sites[s].stmt],
    line |-> at[sites[s].stmt], ready |-> sites[s].ready, life |-> life] :
     s \in {x \in DOMAIN sites : FileOf[sites[x].stmt] = f}}

\* The answers a listing request may get: prover truth, the file not being
\* open, or a failure (a deadline, a dead connection, outdated to the end).
Answers(f) ==
  (IF prover = "none" THEN {} ELSE IF f \in held THEN {"ok"} ELSE {"closed"})
    \cup (IF prover # "up" \/ MoreTrouble THEN {"failed"} ELSE {})

Cost(answer) == IF answer = "failed" /\ prover = "up" THEN 1 ELSE 0

\* A toggle is put on the wire; without a process the send itself fails.
Send(c, serial, on) ==
  wire' = IF prover = "none" THEN wire
          ELSE Append(wire, [serial |-> serial, on |-> on, by |-> c])

Awaiting(r, serial) ==
  [r EXCEPT !.cur = serial,
            !.reply = IF prover = "none" THEN "failed" ELSE "wait"]

\* What is known of a site after a toggle's answer.
Vouched(serial, reply) ==
  CASE reply = "ok"     -> unsure \ {serial}
    [] reply = "failed" -> unsure \cup {serial}
    [] OTHER            -> unsure

Answered(c, pc) ==
  call[c].pc = pc /\ call[c].reply \notin {"none", "wait"}

\* The prover takes the next toggle: absolute, applied at once, and answered
\* if its caller still waits.
ProverToggles ==
  /\ prover # "none" /\ wire # <<>>
  /\ LET h == Head(wire)
         status == IF h.serial \notin DOMAIN sites THEN "unknown"
                   ELSE IF sites[h.serial].ready THEN "ok" ELSE "unfinished"
     IN /\ sites' = IF status = "ok" THEN [sites EXCEPT ![h.serial].on = h.on] ELSE sites
        /\ call' = IF h.by = Nobody THEN call
                   ELSE [call EXCEPT ![h.by].reply = status]
  /\ wire' = Tail(wire)
  /\ UNCHANGED <<prover, life, held, at, serials, entries, born, dirty, lock, sweep, reportVars,
                 histVars, spent>>

\* The caller's deadline passes: the write may still be applied later.
ToggleFails(c) ==
  /\ call[c].reply = "wait"
  /\ prover = "up" => MoreTrouble
  /\ call' = [call EXCEPT ![c].reply = "failed"]
  /\ wire' = [i \in DOMAIN wire |->
                IF wire[i].by = c THEN [wire[i] EXCEPT !.by = Nobody] ELSE wire[i]]
  /\ Spend(0, Cost("failed"))
  /\ UNCHANGED <<prover, life, held, at, sites, serials, entries, born, dirty, lock,
                 sweep, reportVars, histVars>>
-----------------------------------------------------------------------------
(* The tool calls.                                                         *)

\* A call begins: its arguments are the agent's, and a wait for the lock
\* before its first step changes nothing.
Begins(c) == spent.calls < MaxCalls /\ call[c].pc = "idle"

\* A finished call goes through the middleware: a successful one pops every
\* dirty mark at once and, if some entry is armed, verifies what they touch.
After(ok, es) ==
  IF ok /\ dirty # {} /\ Armed(es) # {}
  THEN [Idle EXCEPT !.op = "reconcile", !.pc = "targets", !.marks = dirty,
                    !.paths = ArmedFiles(es)]
  ELSE Idle

\* The call is over: the registry is ES, and the lock is free if it held it.
Return(c, ok, es) ==
  /\ entries' = es
  /\ call' = [call EXCEPT ![c] = After(ok, es)]
  /\ dirty' = IF ok THEN {} ELSE dirty
  /\ lock' = IF lock = c THEN Nobody ELSE lock

\* The call goes on awaiting the answer about SERIAL, holding the lock.
Await(c, r, serial, on) ==
  /\ call' = [call EXCEPT ![c] = Awaiting(r, serial)]
  /\ lock' = c
  /\ Send(c, serial, on)
  /\ UNCHANGED dirty

\* A tool that does not touch the registry: only its middleware matters.
OtherTool(c) ==
  /\ Begins(c) /\ Spend(1, 0) /\ dirty # {}
  /\ Return(c, TRUE, entries)
  /\ UNCHANGED <<progVars, born, sweep, reportVars, histVars>>

-----------------------------------------------------------------------------
(* set_breakpoint.                                                         *)

\* Under the lock: the listing decides; only a finished site is switched on.
SetLists(c) ==
  /\ Begins(c) /\ lock = Nobody
  /\ \E f \in Files, l \in Lines : \E a \in Answers(f) :
       LET onLine == {x \in Listing(f) : x.line = l}
       IN /\ Spend(1, Cost(a))
          /\ IF a # "ok" \/ onLine = {} \/ \A x \in onLine : ~x.ready
             THEN Return(c, FALSE, entries) /\ UNCHANGED wire
             ELSE \E x \in onLine :
                    /\ x.ready
                    /\ Await(c, [Idle EXCEPT !.op = "set", !.pc = "arming", !.site = x], x.serial, TRUE)
                    /\ UNCHANGED entries
  /\ UNCHANGED <<prover, life, held, at, sites, serials, born, sweep, reportVars, histVars>>

\* Serials the matching entries are bound to that are not the new site's.
Abandoned(es, ids, site) == {e \in ids : es[e].serial \notin {0, site.serial}}

\* The acknowledged arming enters the registry: into the first matching
\* entry, the others merged into it, or as a new one.
Recorded(es, ids, site) ==
  IF ids = {}
  THEN Put(es, born + 1,
           Arm([file |-> site.file, line |-> site.line, anchor |-> site.anchor, enabled |-> TRUE,
                state |-> "armed", reason |-> "none", serial |-> 0], site))
  ELSE Without([es EXCEPT ![Min(ids)] = [Arm(@, site) EXCEPT !.enabled = TRUE]],
               ids \ {Min(ids)})

\* An entry recorded on a site that has died meanwhile.
Late(site) == IF site.serial \in DOMAIN sites /\ site.life = life THEN {} ELSE {site.serial}

Record(c, ids, site, known) ==
  /\ Return(c, TRUE, Recorded(entries, ids, site))
  /\ born' = IF ids = {} THEN born + 1 ELSE born
  /\ unsure' = known \cup Late(site)
  /\ stale' = stale \cup Late(site)
  /\ UNCHANGED wire

\* Switch off the site of the next entry that is rebound to this one.
Abandon(c, ids, todo, site) ==
  LET e == Min(todo)
  IN /\ Await(c, [call[c] EXCEPT !.pc = "abandon", !.site = site, !.ids = ids,
                                 !.plan = todo \ {e}], entries[e].serial, FALSE)
     /\ UNCHANGED <<entries, born, stale>>

SetAnswered(c) ==
  /\ Answered(c, "arming")
  /\ LET site  == call[c].site
         ids   == Matching(entries, site)
         todo  == Abandoned(entries, ids, site)
         known == Vouched(site.serial, call[c].reply)
     IN IF call[c].reply # "ok"
        THEN /\ Return(c, FALSE, entries)
             /\ unsure' = known
             /\ UNCHANGED <<born, stale, wire>>
        ELSE IF todo = {}
        THEN (ids = {} => born < MaxEntries) /\ Record(c, ids, site, known)
        ELSE Abandon(c, ids, todo, site) /\ unsure' = known
  /\ UNCHANGED <<prover, life, held, at, sites, serials, sweep, reportVars, doubled, spent>>

\* Whatever became of that switch-off, the next one or the recording follows.
SetAbandoned(c) ==
  /\ Answered(c, "abandon")
  /\ LET todo  == Abandoned(entries, call[c].plan, call[c].site)
         known == Vouched(call[c].cur, call[c].reply)
     IN IF todo = {}
        THEN Record(c, call[c].ids, call[c].site, known)
        ELSE Abandon(c, call[c].ids, todo, call[c].site) /\ unsure' = known
  /\ UNCHANGED <<prover, life, held, at, sites, serials, sweep, reportVars, doubled, spent>>
-----------------------------------------------------------------------------
(* del_breakpoints, one reference: best-effort off, then the entry goes.   *)

\* Mutant: the entry goes, its site is left as it is.
DeleteForgets(c) ==
  /\ Begins(c) /\ Spend(1, 0) /\ lock = Nobody
  /\ \E d \in DOMAIN entries : Return(c, TRUE, Without(entries, {d}))
  /\ UNCHANGED <<progVars, born, sweep, reportVars, histVars>>

\* A reference that matches no entry or several is skipped.
DeleteStarts(c) ==
  /\ Begins(c) /\ Spend(1, 0) /\ lock = Nobody
  /\ \E d \in DOMAIN entries :
       LET ids == {e \in DOMAIN entries : entries[e].file = entries[d].file
                                         /\ entries[e].line = entries[d].line}
       IN CASE ids # {d} -> Return(c, TRUE, entries) /\ UNCHANGED wire
            [] ids = {d} /\ entries[d].serial = 0 ->
                 Return(c, TRUE, Without(entries, ids)) /\ UNCHANGED wire
            [] OTHER ->
                 /\ Await(c, [Idle EXCEPT !.op = "delete", !.pc = "disarm", !.ids = ids],
                          entries[d].serial, FALSE)
                 /\ UNCHANGED entries
  /\ UNCHANGED <<prover, life, held, at, sites, serials, born, sweep, reportVars, histVars>>

DeleteAnswered(c) ==
  /\ Answered(c, "disarm")
  /\ Return(c, TRUE, Without(entries, call[c].ids))
  /\ unsure' = Vouched(call[c].cur, call[c].reply)
  /\ UNCHANGED <<progVars, born, sweep, reportVars, doubled, stale, spent>>
-----------------------------------------------------------------------------
(* The scope of disable_all and enable_all: one file, or all of them.      *)

Scopes == {{f} : f \in Files} \cup {Files}
InScope(scope) == {e \in DOMAIN entries : entries[e].file \in scope}

(* disable_all: the flag goes down and the armed sites off, in list order. *)

\* The entries of TODO up to the next armed one lose the flag; that one's
\* site is switched off.
DisableFrom(c, es, todo) ==
  LET armed == todo \cap Armed(es)
      e     == Min(armed)
      upto  == {x \in todo : x <= e}
  IN IF armed = {}
     THEN Return(c, TRUE, Enable(es, todo, FALSE)) /\ UNCHANGED wire
     ELSE /\ entries' = Enable(es, upto, FALSE)
          /\ Await(c, [Idle EXCEPT !.op = "disable", !.pc = "off", !.ids = {e},
                             !.plan = todo \ upto], es[e].serial, FALSE)

DisableStarts(c) ==
  /\ Begins(c) /\ Spend(1, 0) /\ lock = Nobody
  /\ \E scope \in Scopes : DisableFrom(c, entries, InScope(scope))
  /\ UNCHANGED <<prover, life, held, at, sites, serials, born, sweep, reportVars, histVars>>

\* An answer that is not "ok" demotes the entry.
DisableAnswered(c) ==
  /\ Answered(c, "off")
  /\ LET r   == call[c].reply
         tag == IF r = "unknown" THEN NotFound ELSE WireFailure
         es  == IF r = "ok" THEN entries ELSE Demote(entries, call[c].ids, tag)
     IN /\ DisableFrom(c, es, call[c].plan)
        /\ unsure' = Vouched(call[c].cur, r)
  /\ UNCHANGED <<prover, life, held, at, sites, serials, born, sweep, reportVars, doubled, stale,
                 spent>>
-----------------------------------------------------------------------------
(* enable_all, in its three stages.                                        *)

\* Mutant: the flag goes up before the lock is given away.
EnableFlagsFirst(c) ==
  /\ Begins(c) /\ Spend(1, 0) /\ lock = Nobody
  /\ \E scope \in Scopes :
       /\ InScope(scope) # {}
       /\ entries' = Enable(entries, InScope(scope), TRUE)
       /\ call' = [call EXCEPT ![c] = [Idle EXCEPT !.op = "enable", !.pc = "reopen",
                     !.ids = InScope(scope), !.paths = {entries[e].file : e \in InScope(scope)}]]
  /\ UNCHANGED <<progVars, born, dirty, lock, sweep, reportVars, histVars>>

\* One: the entries in scope are collected; nothing is written.
EnableCollects(c) ==
  /\ Begins(c) /\ Spend(1, 0) /\ lock = Nobody
  /\ \E scope \in Scopes :
       /\ InScope(scope) # {}
       /\ call' = [call EXCEPT ![c] = [Idle EXCEPT !.op = "enable", !.pc = "reopen",
                     !.ids = InScope(scope), !.paths = {entries[e].file : e \in InScope(scope)}]]
  /\ UNCHANGED <<progVars, entries, born, dirty, lock, sweep, reportVars, histVars>>

\* Two: swept files are reopened outside the lock; one may fail.
EnableReopens(c) ==
  /\ call[c].op = "enable" /\ call[c].pc = "reopen"
  /\ \E bad \in {{}} \cup (IF MoreTrouble \/ prover # "up"
                           THEN {{f} : f \in call[c].paths} ELSE {}) :
       /\ call' = [call EXCEPT ![c].pc = "stage three", ![c].failed = bad]
       /\ Spend(0, Cost(IF bad = {} THEN "ok" ELSE "failed"))
  /\ UNCHANGED <<progVars, entries, born, dirty, lock, sweep, reportVars, histVars>>

\* The call ends: entries on one site merge, among those it collected.
EnableEnds(c, es, ids, known) ==
  LET merged == MergeSameSite(es, ids)
  IN /\ Return(c, TRUE, merged)
     /\ unsure' = known /\ doubled' = doubled \cup Twins(merged)

\* Three: the flag goes up on what is still registered, ...
EnableFlags(c) ==
  /\ call[c].op = "enable" /\ call[c].pc = "stage three" /\ lock = Nobody
  /\ LET ids == call[c].ids \cap DOMAIN entries
     IN IF ids = {} THEN Return(c, TRUE, entries)
        ELSE /\ entries' = Enable(entries, ids, TRUE)
             /\ lock' = c
             /\ call' = [call EXCEPT ![c].pc = "files", ![c].ids = ids,
                           ![c].paths = {entries[e].file : e \in ids}]
             /\ UNCHANGED dirty
  /\ UNCHANGED <<progVars, born, sweep, reportVars, histVars, spent>>

\* Arm the planned entries one by one; with none left, the next file.
ArmNext(c, es, plan, paths, known) ==
  IF plan # {}
  THEN LET first == CHOOSE x \in plan : \A y \in plan : x.id <= y.id
       IN /\ Await(c, [call[c] EXCEPT !.pc = "on", !.site = first.site, !.marks = {first.id},
                         !.plan = plan \ {first}, !.paths = paths], first.site.serial, TRUE)
          /\ entries' = es /\ unsure' = known /\ UNCHANGED doubled
  ELSE IF paths # {}
  THEN /\ call' = [call EXCEPT ![c] = [@ EXCEPT !.pc = "files", !.plan = {},
                     !.paths = paths, !.reply = "none", !.cur = 0]]
       /\ entries' = es /\ unsure' = known
       /\ UNCHANGED <<lock, dirty, wire, doubled>>
  ELSE EnableEnds(c, es, call[c].ids, known) /\ UNCHANGED wire

\* ... and each file's entries are armed against one listing: an entry with
\* no site, or an unfinished one, is demoted; a file that could not be
\* reopened or listed has all of its entries demoted.
EnableLists(c) ==
  /\ call[c].op = "enable" /\ call[c].pc = "files"
  /\ \E f \in call[c].paths :
     \E a \in IF f \in call[c].failed THEN {"failed before"} ELSE Answers(f) :
       LET ids   == {e \in call[c].ids : entries[e].file = f}
           found == [e \in ids |-> ResolveEntry(entries[e], Listing(f))]
           none  == {e \in ids : found[e] = NoSite}
           soon  == {e \in ids \ none : ~found[e].ready}
           rest  == call[c].paths \ {f}
           lost  == {entries[e].serial : e \in ids} \ {0}
       IN /\ Spend(0, Cost(a))
          /\ CASE a = "ok" ->
                    \E tag \in {NotEvaluated, NotFound} :
                      ArmNext(c, Demote(Demote(entries, none, tag), soon, Evaluating),
                              {[id |-> e, site |-> found[e]] : e \in ids \ (none \cup soon)},
                              rest, unsure)
               [] a = "closed" -> ArmNext(c, Demote(entries, ids, NotEvaluated), {}, rest, unsure)
               [] OTHER -> ArmNext(c, Demote(entries, ids, WireFailure), {}, rest,
                                   unsure \cup lost)
  /\ UNCHANGED <<prover, life, held, at, sites, serials, born, sweep, reportVars, stale>>

\* Only "ok" arms the entry.
EnableAnswered(c) ==
  /\ Answered(c, "on")
  /\ LET r   == call[c].reply
         e   == Min(call[c].marks)
         tag == CASE r = "unfinished" -> Evaluating
                  [] r = "unknown"    -> NotFound
                  [] OTHER            -> WireFailure
         es  == IF r = "ok" THEN [entries EXCEPT ![e] = Arm(@, call[c].site)]
                ELSE Demote(entries, {e}, tag)
         gone == IF r = "ok" THEN Late(call[c].site) ELSE {}
     IN /\ ArmNext(c, es, call[c].plan, call[c].paths,
                   Vouched(call[c].cur, r) \cup gone)
        /\ stale' = stale \cup gone
  /\ UNCHANGED <<prover, life, held, at, sites, serials, born, sweep, reportVars, spent>>
-----------------------------------------------------------------------------
(* reconcile_dirty: the popped marks are verified by listing.              *)

\* The armed files a set of marks puts in question: a marked theory's are its
\* importers and every .ML file; a marked .ML file puts all in question.
Questioned(marks, armed) ==
  IF marks \cap ML # {} THEN armed
  ELSE armed \cap (marks \cup ML \cup UNION {Downstream[m] : m \in marks})

\* Without the theory graph every armed file is verified.
ReconcileTargets(c) ==
  /\ call[c].pc = "targets"
  /\ \E targets \in {Questioned(call[c].marks, call[c].paths), call[c].paths} :
       call' = [call EXCEPT ![c] =
                  IF targets = {} THEN Idle
                  ELSE [call[c] EXCEPT !.pc = "verify", !.paths = targets,
                                 !.marks = call[c].marks \cup targets]]
  /\ UNCHANGED <<progVars, entries, born, dirty, lock, sweep, reportVars, histVars, spent>>

\* One file, under the lock for one listing; what is not listed is demoted.
ReconcileVerifies(c) ==
  /\ call[c].pc = "verify" /\ lock = Nobody
  /\ \E f \in call[c].paths :
     \E a \in IF ArmedIn(entries, f) = {} THEN {"none armed"} ELSE Answers(f) :
       LET ids   == ArmedIn(entries, f)
           gone  == {e \in ids : \A x \in Listing(f) : x.serial # entries[e].serial}
           rest  == call[c].paths \ {f}
       IN /\ Spend(0, Cost(a))
          /\ entries' = CASE a = "ok"     -> Demote(entries, gone, NotEvaluated)
                          [] a = "closed" -> Demote(entries, ids, NotEvaluated)
                          [] a = "failed" -> Demote(entries, ids, WireFailure)
                          [] OTHER        -> entries
          /\ unsure' = IF a = "failed" THEN unsure \cup {entries[e].serial : e \in ids}
                       ELSE unsure
          /\ call' = [call EXCEPT ![c] =
                        IF rest = {} THEN Idle
                        ELSE [call[c] EXCEPT !.paths = rest, !.marks = call[c].marks \ {f}]]
  /\ UNCHANGED <<progVars, born, dirty, lock, sweep, reportVars, doubled, stale>>

\* Mutant: a cancelled reconciliation loses its marks.
CutForgetsMarks(c) ==
  /\ MoreTrouble /\ call[c].pc # "idle"
  /\ LET r == call[c]
         about == {r.cur, r.site.serial} \cup {entries[e].serial : e \in r.ids \cap DOMAIN entries}
     IN unsure' = IF lock = c THEN unsure \cup (about \ {0}) ELSE unsure
  /\ call' = [call EXCEPT ![c] = Idle]
  /\ lock' = IF lock = c THEN Nobody ELSE lock
  /\ wire' = [i \in DOMAIN wire |->
                IF wire[i].by = c THEN [wire[i] EXCEPT !.by = Nobody] ELSE wire[i]]
  /\ doubled' = IF lock = c THEN doubled \cup Twins(entries) ELSE doubled
  /\ Spend(0, 1)
  /\ UNCHANGED <<prover, life, held, at, sites, serials, entries, born, dirty, sweep, reportVars,
                 stale>>

\* The agent's client cancels the call at an await: the lock is released, the
\* marks a reconciliation has not verified are put back, and nothing vouches
\* for the sites the call was about.
Cut(c) ==
  /\ MoreTrouble /\ call[c].pc # "idle"
  /\ LET r == call[c]
         about == {r.cur, r.site.serial} \cup {entries[e].serial : e \in r.ids \cap DOMAIN entries}
     IN /\ unsure' = IF lock = c THEN unsure \cup (about \ {0}) ELSE unsure
        /\ dirty' = dirty \cup (IF r.op = "reconcile" THEN r.marks ELSE {})
  /\ call' = [call EXCEPT ![c] = Idle]
  /\ lock' = IF lock = c THEN Nobody ELSE lock
  /\ wire' = [i \in DOMAIN wire |->
                IF wire[i].by = c THEN [wire[i] EXCEPT !.by = Nobody] ELSE wire[i]]
  /\ doubled' = IF lock = c THEN doubled \cup Twins(entries) ELSE doubled
  /\ Spend(0, 1)
  /\ UNCHANGED <<prover, life, held, at, sites, serials, entries, born, sweep, reportVars, stale>>
-----------------------------------------------------------------------------
(* The prover and the session, outside registry.lock.                      *)

Dead(stmts) == [s \in {x \in DOMAIN sites : sites[x].stmt \notin stmts} |-> sites[s]]

\* Evaluation compiles a statement: a site under a fresh serial, off, listed
\* before the command has finished or after.  A cancellation still under way
\* holds the evaluation lock, so nothing is evaluated meanwhile; the text of a
\* pushed edit is compiled only when the prover has it.
Compile ==
  /\ prover = "up" /\ serials < MaxSerial /\ sweep = {}
  /\ \E s \in {x \in Stmts : \A n \in DOMAIN sites : sites[n].stmt # x} :
     \E done \in BOOLEAN :
       /\ FileOf[s] \notin coming
       /\ sites' = Put(sites, serials + 1, [stmt |-> s, ready |-> done, on |-> FALSE])
       /\ held' = held \cup {FileOf[s]}
  /\ serials' = serials + 1
  /\ UNCHANGED <<prover, life, at, wire, entries, born, dirty, lock, call, sweep, reportVars,
                 histVars, spent>>

FinishCommand ==
  /\ \E n \in DOMAIN sites : ~sites[n].ready /\ sites' = [sites EXCEPT ![n].ready = TRUE]
  /\ UNCHANGED <<prover, life, held, at, serials, wire, entries, born, dirty, lock,
                 call, sweep, reportVars, histVars, spent>>

\* An edit moves statement S to line L: everything from there to the end of
\* the file, and everything downstream, is compiled anew.
Below(s, l) ==
  {s} \cup {t \in Stmts : FileOf[t] = FileOf[s] /\ (at[t] >= at[s] \/ at[t] >= l)}
Importing(f) == {t \in Stmts : FileOf[t] \in Downstream[f]}
Recompiled(s, l) == Below(s, l) \cup Importing(FileOf[s])

\* The serials of the registry that die with STMTS.
Killed(stmts) == {n \in DOMAIN sites : sites[n].stmt \in stmts /\ Carries(entries, n) # {}}

EditLands(s, l, stmts) ==
  /\ \A t \in Stmts : FileOf[t] = FileOf[s] => at[t] # l
  /\ at' = [at EXCEPT ![s] = l]
  /\ sites' = Dead(stmts)

Due(f, way, stmts) == [file |-> f, way |-> way, died |-> Killed(stmts)]
Pushing == \E d \in due : d.way = "push"

\* sync_dirty_files writes the edit of an open theory under the evaluation
\* lock; the file is marked only once the send has returned.  The file's own
\* listings are outdated until the prover has the edit, those downstream not.
EditPushed ==
  /\ prover = "up" /\ MoreTrouble /\ sweep = {} /\ ~Pushing
  /\ \E s \in {t \in Stmts : FileOf[t] \notin ML}, l \in Lines :
       /\ EditLands(s, l, Below(s, l))
       /\ due' = due \cup {Due(FileOf[s], "push", Below(s, l))}
       /\ coming' = coming \cup {FileOf[s]}
  /\ Spend(0, 1)
  /\ UNCHANGED <<prover, life, held, serials, wire, entries, born, dirty, lock, call, sweep,
                 histVars, untold>>

\* The prover has the edit of F, and what was compiled downstream goes.  If the
\* mark was popped before, listings may have been believed that are outdated.
EditReaches(f) ==
  /\ prover = "up"
  /\ sites' = Dead(Importing(f))
  /\ due' = {[d EXCEPT !.died = IF d.file = f THEN @ \cup Killed(Importing(f)) ELSE @] : d \in due}
  /\ untold' = IF f \in dirty \cup {d.file : d \in due} THEN untold
               ELSE untold \cup Killed(Importing(f))
  /\ coming' = coming \ {f}
  /\ UNCHANGED <<prover, life, held, at, serials, wire, entries, born, dirty, lock, call, sweep,
                 histVars, spent>>

\* A flush re-reads the files that are not open and names in its answer those
\* that changed; they are marked when the answer is read.  Like every flush it
\* hands over all the edits pending before it.
EditReread ==
  /\ prover = "up" /\ MoreTrouble /\ coming = {}
  /\ \E s \in Stmts, l \in Lines :
       /\ EditLands(s, l, Recompiled(s, l))
       /\ due' = due \cup {Due(FileOf[s], "flush", Recompiled(s, l))}
  /\ Spend(0, 1)
  /\ UNCHANGED <<prover, life, held, serials, wire, entries, born, dirty, lock, call, sweep,
                 histVars, coming, untold>>

\* The server's own file watcher takes the edit before any flush does, or an
\* opened or closed document brings another text: nobody marks the file.
EditAbsorbed ==
  /\ prover = "up" /\ MoreTrouble /\ coming = {}
  /\ \E s \in Stmts, l \in Lines :
       EditLands(s, l, Recompiled(s, l)) /\ untold' = untold \cup Killed(Recompiled(s, l))
  /\ Spend(0, 1)
  /\ UNCHANGED <<prover, life, held, serials, wire, entries, born, dirty, lock, call, sweep,
                 histVars, due, coming>>

\* The send returns, or the flush's answer is read: the file is marked.
MarkSet(d) ==
  /\ due' = due \ {d}
  /\ dirty' = dirty \cup {d.file}
  /\ UNCHANGED <<progVars, entries, born, lock, call, sweep, histVars, coming, untold, spent>>

\* The send is cut off after its bytes -- its bound passes, its caller is
\* cancelled -- or the flush fails: no later sync finds a difference to mark.
MarkLost(d) ==
  /\ MoreTrouble
  /\ due' = due \ {d}
  /\ untold' = untold \cup d.died
  /\ Spend(0, 1)
  /\ UNCHANGED <<progVars, entries, born, dirty, lock, call, sweep, histVars, coming>>

\* A cancellation retires the running commands: a file is unloaded from the
\* first of them on, with the ML files loaded there.  No file is marked: the
\* cancellation's own wrap-up demotes.  Its rounds flush the pending edits first.
Retire ==
  /\ prover = "up" /\ sweep = {} /\ ~Pushing /\ coming = {} /\ MoreTrouble
  /\ \E f \in Files \ ML, l \in Lines, withML \in BOOLEAN :
       LET loads == IF withML THEN Downstream[f] \cap ML ELSE {}
       IN /\ sites' = Dead({t \in Stmts : \/ FileOf[t] = f /\ at[t] >= l
                                          \/ FileOf[t] \in loads})
          /\ sweep' = {[file |-> f, line |-> l, loads |-> loads]}
  /\ Spend(0, 1)
  /\ UNCHANGED <<prover, life, held, at, serials, wire, entries, born, dirty, lock,
                 call, reportVars, histVars>>

\* finish_cancel_sweep: with the lock within its bound, the unloaded entries
\* are demoted wire-free.
SweepDemotes ==
  /\ sweep # {} /\ lock = Nobody
  /\ entries' = Demote(entries, Unloaded(entries, sweep), NotEvaluated)
  /\ sweep' = {}
  /\ UNCHANGED <<progVars, born, dirty, lock, call, reportVars, histVars, spent>>

\* The unloaded entries stay armed on their dead sites.
SweepEnds ==
  /\ sweep # {} /\ sweep' = {}
  /\ untold' = untold \cup ({entries[e].serial : e \in Unloaded(entries, sweep)} \ DOMAIN sites)
  /\ UNCHANGED <<progVars, entries, born, dirty, lock, call, histVars, due, coming>>

\* A tool held the lock too long: the demotion is skipped.
SweepSkipped == lock # Nobody /\ SweepEnds /\ UNCHANGED spent

\* The cancellation's own caller is cancelled before the demotion.
SweepDropped == MoreTrouble /\ SweepEnds /\ Spend(0, 1)

\* Teardown, under the evaluation lock, fails every waiting request first, the
\* flushes too, ...
TeardownBegins ==
  /\ prover = "up" /\ sweep = {} /\ ~Pushing /\ MoreTrouble
  /\ prover' = "closing"
  /\ call' = [c \in Calls |-> IF call[c].reply = "wait"
                              THEN [call[c] EXCEPT !.reply = "failed"] ELSE call[c]]
  /\ wire' = [i \in DOMAIN wire |-> [wire[i] EXCEPT !.by = Nobody]]
  /\ due' = {} /\ coming' = {}
  /\ Spend(0, 1)
  /\ UNCHANGED <<life, held, at, sites, serials, entries, born, dirty, lock, sweep, histVars,
                 untold>>

\* ... and clears the session when the process is gone, by which time the
\* failed waiters have run; a request sent meanwhile gets no answer.
TeardownEnds ==
  /\ prover = "closing" /\ \A c \in Calls : call[c].reply \in {"none", "wait"}
  /\ prover' = "none"
  /\ held' = {} /\ sites' = <<>> /\ wire' = <<>> /\ serials' = 0
  /\ entries' = Demote(entries, Armed(entries), NotEvaluated)
  /\ dirty' = {} /\ unsure' = {} /\ doubled' = {} /\ stale' = {} /\ untold' = {}
  /\ UNCHANGED <<life, at, born, lock, call, sweep, due, coming, spent>>

Relaunch ==
  /\ prover = "none"
  /\ prover' = "up" /\ life' = life + 1
  /\ UNCHANGED <<held, at, sites, serials, wire, entries, born, dirty, lock,
                 call, sweep, reportVars, histVars, spent>>

-----------------------------------------------------------------------------
Init ==
  /\ prover = "up" /\ life = 1 /\ held = {} /\ sites = <<>> /\ serials = 0 /\ wire = <<>>
  /\ at = Home
  /\ entries = <<>> /\ born = 0 /\ dirty = {} /\ lock = Nobody
  /\ call = [c \in Calls |-> Idle]
  /\ sweep = {} /\ due = {} /\ coming = {} /\ unsure = {} /\ doubled = {} /\ stale = {} /\ untold = {}
  /\ spent = [calls |-> 0, trouble |-> 0]

Tool(c) ==
  \/ OtherTool(c) \/ SetLists(c) \/ SetAnswered(c) \/ SetAbandoned(c)
  \/ DeleteStarts(c) \/ DeleteAnswered(c)
  \/ DisableStarts(c) \/ DisableAnswered(c)
  \/ EnableCollects(c) \/ EnableReopens(c) \/ EnableFlags(c) \/ EnableLists(c)
  \/ EnableAnswered(c)
  \/ ReconcileTargets(c) \/ ReconcileVerifies(c)
  \/ ToggleFails(c) \/ Cut(c)

Prover ==
  \/ ProverToggles \/ Compile \/ FinishCommand \/ Retire
  \/ EditPushed \/ EditReread \/ EditAbsorbed
  \/ TeardownBegins \/ TeardownEnds \/ Relaunch

Session ==
  \/ \E f \in coming : EditReaches(f)
  \/ \E d \in due : MarkSet(d) \/ MarkLost(d)
  \/ SweepDemotes \/ SweepSkipped \/ SweepDropped

Next == (\E c \in Calls : Tool(c)) \/ Prover \/ Session

Spec == Init /\ [][Next]_vars
-----------------------------------------------------------------------------
EntryOK(x) ==
  /\ x.file \in Files /\ x.line \in Lines /\ x.enabled \in BOOLEAN
  /\ \/ x.state = "armed" /\ x.serial \in Serials /\ x.reason = "none"
     \/ /\ x.state = "pending" /\ x.serial = 0
        /\ x.reason \in {NotEvaluated, Evaluating, NotFound, WireFailure}

\* Every variable keeps its type; an armed entry carries a serial, a pending
\* one none.
TypeOK ==
  /\ prover \in {"up", "closing", "none"} /\ life \in Nat /\ held \subseteq Files
  /\ at \in [Stmts -> Lines]
  /\ DOMAIN sites \subseteq 1..serials /\ serials \in 0..MaxSerial
  /\ \A n \in DOMAIN sites : sites[n] \in [stmt : Stmts, ready : BOOLEAN, on : BOOLEAN]
  /\ \A i \in DOMAIN wire : wire[i] \in [serial : Serials, on : BOOLEAN, by : Calls \cup {Nobody}]
  /\ DOMAIN entries \subseteq 1..born /\ born \in 0..MaxEntries
  /\ \A e \in DOMAIN entries : EntryOK(entries[e])
  /\ dirty \subseteq Files /\ lock \in Calls \cup {Nobody}
  /\ due \subseteq [file : Files, way : {"push", "flush"}, died : SUBSET Serials] /\ coming \subseteq Files
  /\ unsure \subseteq Serials /\ doubled \subseteq Serials
  /\ stale \subseteq Serials /\ untold \subseteq Serials

\* Between calls, a breakpoint shown as armed and enabled is on a site that
\* is on, and one shown as armed and disabled is on a site that is off, unless
\* no finished call vouches for the site: its last switch went unanswered, its
\* call was cut short, an entry was armed on the serial after its death (a new
\* prover counts its serials from one again), or a second entry was armed on
\* it outside the merge.
FlagMatchesSite ==
  lock = Nobody =>
    \A e \in Armed(entries) :
      entries[e].serial \in DOMAIN sites \ (unsure \cup doubled \cup stale) =>
        sites[entries[e].serial].on = entries[e].enabled

\* Between calls, a site that stops threads is some armed entry's: no thread
\* ever stops at a breakpoint the registry does not list, unless the agent was
\* told that its state is unknown, its switch went unanswered, or an arming
\* landed on a serial that was dead.
NoStrayBreakpoint ==
  lock = Nobody =>
    \A n \in DOMAIN sites \ (unsure \cup stale) : sites[n].on => Carries(entries, n) # {}

\* A file whose marks are still to be verified.
Doubted(f) ==
  LET marks == dirty \cup UNION {call[c].marks : c \in {d \in Calls : call[d].op = "reconcile"}}
  IN \E m \in marks : f = m \/ f \in Downstream[m]

\* The death of an armed entry's site does not go unnoticed: the mark of the
\* edit that killed it is still to come, a dirty mark that leads to it or a
\* reconciliation under way puts its file in question, or a cancellation's
\* wrap-up will demote it -- unless it was armed after the death, the mark of
\* the edit was lost or never due, or the wrap-up was skipped or dropped.
SiteDeathIsNoticed ==
  \A e \in Armed(entries) :
    entries[e].serial \notin DOMAIN sites \cup stale \cup untold =>
      \/ \E d \in due : entries[e].serial \in d.died
      \/ Doubted(entries[e].file)
      \/ e \in Unloaded(entries, sweep)
      \/ prover = "closing"

\* An armed entry keeps its site for as long as the site lives: it is demoted
\* as not evaluated or not found only when its site is gone, and no arming
\* binds it to another site while its own is there.
LiveEntryKeepsItsSite ==
  [][\A e \in Armed(entries) \cap DOMAIN entries' :
       /\ entries[e].serial \in DOMAIN sites \cap DOMAIN sites'
       /\ entries[e].serial \notin stale
       => \/ entries'[e].serial = entries[e].serial
          \/ entries'[e].reason = WireFailure]_vars
=============================================================================
