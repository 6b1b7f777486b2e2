------------------------------- MODULE PatchStore -------------------------------
(***************************************************************************)
(* The data the daemon works on: patch files (diffs), the original files   *)
(* of the operating system, and the cache below /tmp/patchmanager that     *)
(* holds patched copies of them.  This module has no state.  It defines    *)
(* what doPrepareCache, pm_apply and pm_unapply compute.                   *)
(*                                                                         *)
(* A diff is an abstract value; what matters of it is which files it       *)
(* creates, which it edits and on which content its hunks match.  A file's *)
(* content is the version of the original it was copied from together with *)
(* the set of diffs whose hunks are in it.                                 *)
(***************************************************************************)
EXTENDS Naturals

CONSTANTS
    Patches,     \* names of patches: directories of PATCHES_DIR
    Files,       \* paths that patches touch
    Diffs,       \* contents a unified_diff.patch can have
    PatchOf,     \* the patch a diff belongs to
    Creates,     \* the files a diff creates (--- /dev/null)
    Edits,       \* the files a diff edits
    Fits,        \* the base versions a diff's hunks match (0: a created file)
    Clash,       \* pairs of diffs that cannot be stacked on one another
    Needs,       \* the diffs whose changes are in the context of a diff's hunks
    MaxVersion,  \* bound: how often an original is replaced by an OS update
    None         \* no file, no diff, no directory

Touches(d) == Creates[d] \union Edits[d]

ASSUME StoreAssumption ==
    /\ PatchOf \in [Diffs -> Patches]
    /\ Creates \in [Diffs -> SUBSET Files]
    /\ Edits \in [Diffs -> SUBSET Files]
    /\ \A d \in Diffs : Touches(d) # {} /\ Creates[d] \intersect Edits[d] = {}
    /\ MaxVersion \in Nat
    /\ Fits \in [Diffs -> SUBSET (0 .. MaxVersion)]
    /\ Clash \subseteq Diffs \X Diffs
    /\ Needs \in [Diffs -> SUBSET Diffs]
    /\ None \notin Diffs

\* A file in the cache: the version it was copied from and the diffs in it.
Copy == [base : 0 .. MaxVersion, diffs : SUBSET Diffs]
Cache == [Files -> Copy \union {None}]

ASSUME NoneIsNoCopy == None \notin Copy

\* QFile::copy of an original at version v.
CopyOf(v) == [base |-> v, diffs |-> {}]

EmptyCache == [f \in Files |-> None]

---------------------------------------------------------------------------
(***************************************************************************)
(* patch(1) on one file.                                                   *)
(***************************************************************************)

\* The hunks of d match the content c of f.
CanApply(d, f, c) ==
    /\ d \notin c.diffs
    /\ c.base \in Fits[d]
    /\ \A e \in Needs[d] : f \in Touches(e) => e \in c.diffs
    /\ \A e \in c.diffs : <<d, e>> \notin Clash /\ <<e, d>> \notin Clash

\* The hunks of d can be taken out of the content c of f again.
CanReverse(d, f, c) ==
    /\ d \in c.diffs
    /\ f \in Creates[d] => c.diffs = {d}
    /\ \A e \in c.diffs : d \notin Needs[e]

---------------------------------------------------------------------------
(***************************************************************************)
(* The scripts.  pm_apply does nothing when a reverse dry run succeeds,    *)
(* fails when a dry run fails, and patches every file otherwise.           *)
(* pm_unapply ignores the result of patch(1): it reverses the files it can *)
(* reverse and leaves the others alone.                                    *)
(***************************************************************************)

\* test_if_applied: `patch -R --dry-run` succeeds on every file of d.
TestIfApplied(d, cache) ==
    \A f \in Touches(d) : cache[f] # None /\ CanReverse(d, f, cache[f])

\* verify_text_patch: `patch --dry-run` succeeds on every file of d.
VerifyTextPatch(d, cache) ==
    /\ \A f \in Creates[d] : cache[f] = None
    /\ \A f \in Edits[d] : cache[f] # None /\ CanApply(d, f, cache[f])

\* install_text_patch: what the cache holds afterwards.
InstallTextPatch(d, cache) ==
    [f \in Files |->
        IF f \in Creates[d] THEN [base |-> 0, diffs |-> {d}]
        ELSE IF f \in Edits[d] THEN [cache[f] EXCEPT !.diffs = @ \union {d}]
        ELSE cache[f]]

\* remove_text_patch: a created file is deleted, an edited one reverted.
RemoveTextPatch(d, cache) ==
    [f \in Files |->
        IF f \notin Touches(d) \/ cache[f] = None THEN cache[f]
        ELSE IF ~CanReverse(d, f, cache[f]) THEN cache[f]
        ELSE IF f \in Creates[d] THEN None
        ELSE [cache[f] EXCEPT !.diffs = @ \ {d}]]

---------------------------------------------------------------------------
(***************************************************************************)
(* doPrepareCache, per file of the patch.  A real path is a regular file   *)
(* (orig[f] # 0), a symbolic link into the cache (link[f]) or nothing.     *)
(***************************************************************************)

\* apply: originals that are not in the cache yet are copied into it.
FilledCache(fs, orig, cache) ==
    [f \in Files |-> IF f \in fs /\ orig[f] # 0 /\ cache[f] = None
                     THEN CopyOf(orig[f]) ELSE cache[f]]

\* apply: where there is no original, a link to the cached file is placed.
PlacedLinks(fs, orig, link) ==
    [f \in Files |-> link[f] \/ (f \in fs /\ orig[f] = 0)]

\* apply: paths that exist are watched, through the link if there is one.
WatchedPaths(fs, orig, link, cache) ==
    {f \in fs : orig[f] # 0 \/ (link[f] /\ cache[f] # None)}

\* mutant: only the files another patch shares are removed.
ClearedShared(fs, shared, cache) ==
    [f \in Files |-> IF f \in fs \intersect shared THEN None ELSE cache[f]]

\* not apply: cached files are removed unless another patch shares them.
ClearedCache(fs, shared, cache) ==
    [f \in Files |-> IF f \in fs \ shared THEN None ELSE cache[f]]

\* not apply: links are removed, shared or not.
ClearedLinks(fs, link) == [f \in Files |-> link[f] /\ f \notin fs]

\* not apply: removed files are no longer watched.
UnwatchedPaths(fs, shared, cache) == {f \in fs \ shared : cache[f] # None}

=============================================================================
