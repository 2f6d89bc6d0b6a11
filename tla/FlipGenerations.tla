--------------------------- MODULE FlipGenerations ---------------------------
(****************************************************************************)
(* The liquidity manager's live restore (daemon.rs, backup.rs).  A process   *)
(* runs one runtime generation at a time over its data directory.  A restore *)
(* is staged while the generation serves, admitted under the write side of   *)
(* the allocation-admission lock, and applied between two generations by     *)
(* renaming the directory's entries one by one: out to a pre-restore         *)
(* directory, then in from the staging directory.  A restored state that     *)
(* cannot start is rolled back.  Any rename or build may fail and the        *)
(* process may die between any two of them.                                  *)
(*                                                                           *)
(* Nothing records how far the renames of a swap came.  A process that ends  *)
(* among them, because it dies or because a rename fails while state is      *)
(* moved aside or put back, leaves a directory with entries missing or of    *)
(* two states, and the next start completes and serves it: also where        *)
(* commit_live_restore reports that the "data dir is unchanged", which is    *)
(* true only of a failure of the first rename.  "cut" records that this      *)
(* happened; the properties say which of them it excuses.                    *)
(*                                                                           *)
(* An entry's content is the era it belongs to: one era per state that was   *)
(* created or restored.  The database of an era also holds its allocations.  *)
(****************************************************************************)
EXTENDS Integers, Sequences, FiniteSets

CONSTANTS Entries,     \* the data directory's entries, in rename order
          DbEntry,     \* the one that is the SQLite database
          Feds,        \* federations
          Requests,    \* liquidity requests, each from its own requester
          Handlers,    \* concurrent restore_backup calls
          MaxEras,     \* bound: states created or restored
          MaxArchives, \* bound: backups taken
          MaxFaults,   \* bound: crashes, failed renames, failed builds
          None

VARIABLES proc,      \* run_generations: where it is, the entry it is at, the
                     \* era being swapped in, restored_from, why it rolls back
          dir,       \* the data directory
          aside,     \* pre-restore directories, by the era that displaced them
          eras,      \* eras so far
          book,      \* allocations in the database of an era
          archives,  \* allocations in each backup archive
          admission, pending, restoring, lastError,
          staged,    \* per restore call: the archive it staged
          guarded,   \* per request: the federation it holds the read guard for
          accepted,  \* allocations acknowledged and not released since
          failed,    \* the most recent restore of this process failed
          cut,       \* some process ended with the directory halfway through a swap
          exit,      \* what the process said as it gave up
          held,      \* entries some generation served
          faults

vars == <<proc, dir, aside, eras, book, archives, admission, pending, restoring,
          lastError, staged, guarded, accepted, failed, cut, exit, held, faults>>
disk == <<dir, aside, eras, book, archives>>
shell == <<admission, pending, restoring, lastError, staged, guarded>>
ghosts == <<accepted, failed, cut, exit, held>>

Names == {Entries[i] : i \in DOMAIN Entries}
Eras == 1..MaxEras
NoAllocations == [f \in Feds |-> None]
Down == [pc |-> "down", at |-> 1, era |-> None, from |-> None, why |-> "none"]

Init ==
    /\ proc = Down
    /\ dir = [e \in Names |-> None]
    /\ aside = [x \in Eras |-> [e \in Names |-> None]]
    /\ eras = 0 /\ book = [x \in Eras |-> NoAllocations]
    /\ archives = <<NoAllocations>>
    /\ admission = "open" /\ pending = None /\ restoring = FALSE /\ lastError = FALSE
    /\ staged = [h \in Handlers |-> None] /\ guarded = [r \in Requests |-> None]
    /\ accepted = NoAllocations
    /\ failed = FALSE /\ cut = FALSE /\ exit = "none" /\ held = {} /\ faults = 0

Serving == proc.pc = "serve"
Live == book[dir[DbEntry]]
Swapping == proc.pc \in {"aside", "movein", "clear", "putback"}

\* Whether a process that ends now leaves a directory that is no one state.
LeavesCut ==
    \/ cut
    \/ Swapping /\ \E d, e \in Names : dir[d] = None \/ dir[d] # dir[e]

\* Everything the process held in memory is gone.
ProcessEnds(says) ==
    /\ proc' = Down /\ exit' = says /\ failed' = FALSE
    /\ admission' = "open" /\ pending' = None /\ restoring' = FALSE /\ lastError' = FALSE
    /\ staged' = [h \in Handlers |-> None] /\ guarded' = [r \in Requests |-> None]

Fault == faults < MaxFaults /\ faults' = faults + 1

------------------------------------------------------------------------------
(* build_generation and install                                              *)

Boot ==
    /\ proc.pc = "down"
    /\ proc' = [Down EXCEPT !.pc = "build"] /\ exit' = "none"
    /\ UNCHANGED <<disk, shell, accepted, failed, cut, held, faults>>

\* The store constructors create what is missing.
Completed(fresh) == [e \in Names |-> IF dir[e] = None THEN fresh ELSE dir[e]]

InstallWith(stillRestoring, tidied) ==
    /\ proc.pc = "build"
    /\ LET missing == \E e \in Names : dir[e] = None
           fresh == eras + 1
       IN  /\ eras' = IF missing THEN fresh ELSE eras
           /\ dir' = Completed(fresh)
           /\ held' = held \cup {<<e, dir'[e]>> : e \in Names}
    /\ admission' = "open" /\ lastError' = FALSE /\ restoring' = stillRestoring
    /\ failed' = (failed /\ proc.from = None)
    /\ aside' = tidied
    /\ proc' = [Down EXCEPT !.pc = "serve", !.from = proc.from]
    /\ UNCHANGED <<book, archives, pending, staged, guarded, accepted, cut, exit, faults>>

Install == InstallWith(FALSE, aside)

\* A restored state that cannot start is rolled back; any other is fatal.
BuildFails ==
    /\ proc.pc = "build" /\ Fault
    /\ IF proc.from = None
       THEN ProcessEnds("build failed") /\ UNCHANGED <<accepted, cut, held>>
       ELSE /\ proc' = [proc EXCEPT !.pc = "clear", !.at = 1, !.era = proc.from,
                                    !.from = None, !.why = "build"]
            /\ UNCHANGED <<shell, ghosts>>
    /\ UNCHANGED disk

------------------------------------------------------------------------------
(* What a serving generation does                                            *)

CreateBackup ==
    /\ Serving /\ Len(archives) <= MaxArchives
    /\ archives' = Append(archives, Live)
    /\ UNCHANGED <<proc, dir, aside, eras, book, shell, ghosts, faults>>

\* accept_or_reject_request after verification: the read guard, then the commit.
TakeGuard(r, f) ==
    /\ Serving /\ admission = "open" /\ guarded[r] = None
    /\ guarded' = [guarded EXCEPT ![r] = f]
    /\ UNCHANGED <<proc, disk, admission, pending, restoring, lastError, staged, ghosts, faults>>

CommitAllocation(r) ==
    /\ Serving /\ guarded[r] # None
    /\ guarded' = [guarded EXCEPT ![r] = None]
    /\ IF Live[guarded[r]] = None
       THEN /\ book' = [book EXCEPT ![dir[DbEntry]][guarded[r]] = r]
            /\ accepted' = [accepted EXCEPT ![guarded[r]] = r]
       ELSE UNCHANGED <<book, accepted>>
    /\ UNCHANGED <<proc, dir, aside, eras, archives, admission, pending, restoring, lastError,
                   staged, failed, cut, exit, held, faults>>

\* release_federation_allocation is not gated on admission.
ReleaseAllocation(f) ==
    /\ Serving /\ Live[f] # None
    /\ book' = [book EXCEPT ![dir[DbEntry]][f] = None]
    /\ accepted' = [accepted EXCEPT ![f] = None]
    /\ UNCHANGED <<proc, dir, aside, eras, archives, shell, failed, cut, exit, held, faults>>

\* stage_restore: extraction and validation, outside any lock.
StageRestore(h) ==
    /\ Serving /\ staged[h] = None
    /\ eras + 1 + (MaxFaults - faults) <= MaxEras     \* bound
    /\ \E a \in DOMAIN archives : staged' = [staged EXCEPT ![h] = a]
    /\ UNCHANGED <<proc, disk, admission, pending, restoring, lastError, guarded, ghosts, faults>>

NoCommitInFlight == \A r \in Requests : guarded[r] = None

GuardDrained == NoCommitInFlight

\* ensure_preserves_live_allocations
Preserves(a) == \A f \in Feds : Live[f] # None => archives[a][f] = Live[f]

RequestRestore(a) == pending' = a /\ restoring' = TRUE /\ admission' = "closing"

RestoreBackup(h) ==
    /\ Serving /\ staged[h] # None /\ GuardDrained
    /\ staged' = [staged EXCEPT ![h] = None]
    /\ IF admission = "open" /\ Preserves(staged[h]) /\ pending = None
       THEN RequestRestore(staged[h])
       ELSE UNCHANGED <<admission, pending, restoring>>
    /\ UNCHANGED <<proc, disk, lastError, guarded, ghosts, faults>>

------------------------------------------------------------------------------
(* Between two generations: teardown, commit_live_restore, rollback          *)

\* The pending restore cancels the generation; closing the database waits for
\* the transactions in flight.  Calls that captured this generation fail.
StandDown ==
    /\ Serving /\ pending # None /\ NoCommitInFlight
    /\ eras' = eras + 1
    /\ book' = [book EXCEPT ![eras + 1] = archives[pending]]
    /\ proc' = [Down EXCEPT !.pc = "aside", !.era = eras + 1]
    /\ pending' = None /\ staged' = [h \in Handlers |-> None]
    /\ UNCHANGED <<dir, aside, archives, admission, restoring, lastError, guarded, ghosts, faults>>

\* A generation that ends for its own reasons, or a signal, ends the process.
GenerationEnds ==
    /\ Serving /\ Fault
    /\ ProcessEnds("stopped") /\ UNCHANGED <<disk, accepted, cut, held>>

At == Entries[proc.at]
More == proc.at <= Len(Entries)
Step == proc' = [proc EXCEPT !.at = @ + 1]
Turn(pc) == proc' = [proc EXCEPT !.pc = pc, !.at = 1]

MoveAside ==
    /\ proc.pc = "aside"
    /\ IF More
       THEN /\ aside' = [aside EXCEPT ![proc.era][At] = dir[At]]
            /\ dir' = [dir EXCEPT ![At] = None] /\ Step
       ELSE Turn("movein") /\ UNCHANGED <<aside, dir>>
    /\ UNCHANGED <<eras, book, archives, shell, ghosts, faults>>

MoveAsideFails ==
    /\ proc.pc = "aside" /\ More /\ Fault
    /\ ProcessEnds("data dir is unchanged") /\ cut' = LeavesCut
    /\ UNCHANGED <<disk, accepted, held>>

MoveStagedIn ==
    /\ proc.pc = "movein"
    /\ IF More
       THEN dir' = [dir EXCEPT ![At] = proc.era] /\ Step
       ELSE /\ proc' = [Down EXCEPT !.pc = "build", !.from = proc.era]
            /\ UNCHANGED dir
    /\ UNCHANGED <<aside, eras, book, archives, shell, ghosts, faults>>

MoveInFailsTo(next) ==
    /\ proc.pc = "movein" /\ More /\ Fault
    /\ next
    /\ UNCHANGED <<disk, shell, ghosts>>

MoveInFails == MoveInFailsTo(proc' = [proc EXCEPT !.pc = "clear", !.at = 1, !.why = "swap"])

\* rollback_live_restore: discard what the restore left, move the rest back.
ClearRestored ==
    /\ proc.pc = "clear"
    /\ IF More THEN dir' = [dir EXCEPT ![At] = None] /\ Step
       ELSE Turn("putback") /\ UNCHANGED dir
    /\ UNCHANGED <<aside, eras, book, archives, shell, ghosts, faults>>

PutBackUpTo(last) ==
    /\ proc.pc = "putback"
    /\ IF proc.at <= last
       THEN /\ dir' = [dir EXCEPT ![At] = aside[proc.era][At]]
            /\ aside' = [aside EXCEPT ![proc.era][At] = None] /\ Step
            /\ UNCHANGED <<shell, ghosts>>
       ELSE /\ UNCHANGED <<dir, aside, accepted, cut, held>>
            /\ IF proc.why = "swap"
               THEN ProcessEnds("restore rolled back")
               ELSE /\ lastError' = TRUE /\ failed' = TRUE /\ proc' = [Down EXCEPT !.pc = "build"]
                    /\ UNCHANGED <<admission, pending, restoring, staged, guarded, exit>>
    /\ UNCHANGED <<eras, book, archives, faults>>

PutBack == PutBackUpTo(Len(Entries))

RollbackFails ==
    /\ proc.pc \in {"clear", "putback"} /\ More /\ Fault
    /\ ProcessEnds("rollback failed") /\ cut' = LeavesCut
    /\ UNCHANGED <<disk, accepted, held>>

Crash ==
    /\ proc.pc # "down" /\ Fault
    /\ ProcessEnds("crash") /\ cut' = LeavesCut
    /\ UNCHANGED <<disk, accepted, held>>

Loop ==
    \/ Boot \/ Install \/ BuildFails \/ StandDown
    \/ MoveAside \/ MoveStagedIn \/ MoveInFails \/ ClearRestored \/ PutBack

Next ==
    \/ Loop \/ GenerationEnds \/ MoveAsideFails \/ RollbackFails \/ Crash
    \/ CreateBackup
    \/ \E r \in Requests : CommitAllocation(r) \/ \E f \in Feds : TakeGuard(r, f)
    \/ \E f \in Feds : ReleaseAllocation(f)
    \/ \E h \in Handlers : StageRestore(h) \/ RestoreBackup(h)

Spec == Init /\ [][Next]_vars

------------------------------------------------------------------------------
\* The type invariant; a restore is pending only in a generation that closed.
TypeOK ==
    /\ proc \in [pc : {"down", "build", "serve", "aside", "movein", "clear", "putback"},
                 at : 1..(Len(Entries) + 1), era : Eras \cup {None},
                 from : Eras \cup {None}, why : {"none", "build", "swap"}]
    /\ dir \in [Names -> Eras \cup {None}]
    /\ aside \in [Eras -> [Names -> Eras \cup {None}]]
    /\ eras \in 0..MaxEras
    /\ book \in [Eras -> [Feds -> Requests \cup {None}]]
    /\ \A a \in DOMAIN archives : archives[a] \in [Feds -> Requests \cup {None}]
    /\ admission \in {"open", "closing"} /\ restoring \in BOOLEAN /\ lastError \in BOOLEAN
    /\ pending \in DOMAIN archives \cup {None}
    /\ pending # None => Serving /\ admission = "closing" /\ restoring
    /\ staged \in [Handlers -> DOMAIN archives \cup {None}]
    /\ guarded \in [Requests -> Feds \cup {None}]
    /\ accepted \in [Feds -> Requests \cup {None}]
    /\ faults \in 0..MaxFaults

\* A generation that serves still has every allocation the daemon acknowledged
\* and did not release, across restores, rollbacks and restarts, unless some
\* process ended halfway through a swap (ensure_preserves_live_allocations
\* under the admission write guard).
AcceptedSurvives ==
    Serving /\ ~cut => \A f \in Feds : accepted[f] # None => Live[f] = accepted[f]

\* A generation serves one state, never a mixture of a restored one and the one
\* it replaced, unless some process ended halfway through a swap
\* (commit_live_restore and rollback_live_restore).
ServedWhole == Serving /\ ~cut => \A d, e \in Names : dir[d] = dir[e]

\* Nothing that some generation served is ever deleted: it is in the data
\* directory or in a pre-restore directory, whatever failed and wherever the
\* process died (commit_live_restore: "deliberately left on disk").
PriorStateKept ==
    \A s \in held : dir[s[1]] = s[2] \/ \E x \in Eras : aside[x][s[1]] = s[2]

\* Every allocation the daemon acknowledged and did not release is in a
\* database that is on the disk, in the data directory or a pre-restore one,
\* whatever failed and wherever the process died: what a swap cut halfway
\* takes from the generations that serve can still be put back by hand.
AcceptedIsOnDisk ==
    LET kept == {dir[DbEntry]} \cup {aside[x][DbEntry] : x \in Eras} IN
    \A f \in Feds : accepted[f] # None =>
        \E x \in kept \cap Eras : book[x][f] = accepted[f]

\* When commit_live_restore reports that the "previous state is back in place",
\* every entry is one that was served, and all are of one state unless some
\* earlier process ended halfway through a swap.
RolledBackIsWhole ==
    exit = "restore rolled back" =>
        /\ \A d \in Names : dir[d] # None /\ <<d, dir[d]>> \in held
        /\ ~cut => \A d, e \in Names : dir[d] = dir[e]

==============================================================================
