------------------------------ MODULE Semantic ------------------------------
(***************************************************************************)
(* Semantic admission (core/semantic.mjs): a request carries a footprint,  *)
(* scanned from the tracked files that the write patterns of its task      *)
(* match, and is approved only if it is apart from the footprints of all   *)
(* approvals that wait to be dispatched.  What the scanner takes from the  *)
(* text of one file is given with the file; the scan over the files, its   *)
(* limits and the comparison are modelled.  Paths and patterns are         *)
(* sequences of characters, since a pattern may end within a name.         *)
(***************************************************************************)
EXTENDS Integers, FiniteSets, SequencesExt

CONSTANTS
    Attempt,
    Legacy,        \* attempts that may be approved already, without a footprint
    Path,          \* the paths a file may have, as a sequence in their order
    Repository,    \* what a project may look like: its files and the tasks to come
    Revised,       \* contents a commit may give a file
    Untracked,
    MaxScanFiles, MaxScanBytes, MaxTotalScanBytes, MaxFactsPerField,
    MaxCommits     \* bound: on commits

ASSUME SemanticAssumption ==
    /\ Legacy \subseteq Attempt
    /\ {MaxScanFiles, MaxScanBytes, MaxTotalScanBytes, MaxFactsPerField, MaxCommits} \subseteq Nat
    /\ Path \in Seq(Seq(STRING))
    /\ \A content \in Revised : content.size \in Nat
    /\ \A repository \in Repository :
         /\ DOMAIN repository.files = DOMAIN Path
         /\ \A i \in DOMAIN Path : repository.files[i] # Untracked => repository.files[i].size \in Nat
         /\ \A task \in repository.tasks : task.in_scope_paths \subseteq Seq(STRING)

\* A fact is a field and a name in it; names are numbered in their order.
TooLong == 0   \* a name that is no text of at most 512 characters

VARIABLES
    files,      \* what is at each path
    commits,    \* how many there were: the HEAD of the repository
    tasks,      \* that requests are prepared for
    approvals,  \* of each attempt
    semantic_review_required

semanticVars == <<files, commits, tasks, approvals, semantic_review_required>>

NoFootprint == [write_paths |-> {}, facts |-> {}, uncertainty |-> {"LEGACY_SEMANTIC_FOOTPRINT_MISSING"}]
NoApproval == [status |-> "none", commit |-> 0, task |-> [in_scope_paths |-> {}, scope |-> [write_paths |-> {}, facts |-> {}]],
               footprint |-> NoFootprint]

SemanticInit ==
    /\ \E repository \in Repository :
         /\ files = repository.files
         /\ tasks = repository.tasks
         /\ \E approved \in SUBSET Legacy : \E task \in repository.tasks :
              approvals = [a \in Attempt |-> IF a \in approved
                  THEN [NoApproval EXCEPT !.status = "legacy", !.task = task] ELSE NoApproval]
    /\ commits = 0
    /\ semantic_review_required = FALSE

-----------------------------------------------------------------------------
(* Paths and patterns                                                       *)

Glob(pattern) == "*" \in ToSet(pattern)

\* From places in a file over the j-th character of a pattern: "*" goes on within a name, "**" (a
\* star behind a star) across names.
Onward(file, pattern, starts, j) ==
    IF pattern[j] # "*" THEN {k \in 1..Len(file) : k - 1 \in starts /\ file[k] = pattern[j]}
    ELSE {k \in 0..Len(file) : \E i \in starts : i <= k /\
            ((j > 1 /\ pattern[j - 1] = "*") \/ \A l \in i + 1..k : file[l] # "/")}

\* How far into a file a pattern reaches.
Reached(file, pattern) ==
    LET reach[j \in 0..Len(pattern)] == IF j = 0 THEN {0} ELSE Onward(file, pattern, reach[j - 1], j)
    IN  reach[Len(pattern)]

\* A pattern without "*" is a file, or a directory and all there is in it.
ScannerMatches(file, pattern) ==
    \/ Len(file) \in Reached(file, pattern)
    \/ ~Glob(pattern) /\ IsStrictPrefix(Append(pattern, "/"), file)

\* The part of a pattern before its first "*", without a "/" at its end.
Literal(pattern) ==
    LET stars == {j \in DOMAIN pattern : pattern[j] = "*"}
        before == IF stars = {} THEN pattern ELSE SubSeq(pattern, 1, Min(stars) - 1)
    IN  IF before # << >> /\ Last(before) = "/" THEN Front(before) ELSE before

\* Faulty: only whole names are compared.
PathOverlapOfNames(left, right) ==
    LET ap == Literal(left)
        bp == Literal(right)
    IN  \/ ap = bp \/ ap = << >> \/ bp = << >>
        \/ IsPrefix(Append(bp, "/"), ap) \/ IsPrefix(Append(ap, "/"), bp)

PathOverlap(left, right) ==
    LET ap == Literal(left)
        bp == Literal(right)
    IN  \/ ap = bp \/ ap = << >> \/ bp = << >>
        \/ IsPrefix(Append(bp, "/"), ap) \/ IsPrefix(Append(ap, "/"), bp)
        \/ Glob(left) /\ IsPrefix(ap, bp)
        \/ Glob(right) /\ IsPrefix(bp, ap)

-----------------------------------------------------------------------------
(* scanSemanticFootprint                                                    *)

\* The tracked files that a task may write, by their places in Path.
AllMatched(task) ==
    {i \in DOMAIN Path : files[i] # Untracked /\ \E pattern \in task.in_scope_paths : ScannerMatches(Path[i], pattern)}

\* The first of them, which are read.
Matched(all) == {i \in all : Cardinality({j \in all : j <= i}) <= MaxScanFiles}

Doubt(scan, reason) == [scan EXCEPT !.uncertainty = @ \cup {reason}]

\* One pass of the loop over the files.
Scanned(scan, i) ==
    LET file == files[i]
        counted == [scan EXCEPT !.bytes = @ + file.size]
    IN  IF ~file.regular \/ file.size > MaxScanBytes THEN Doubt(scan, "SCAN_TARGET")
        ELSE IF counted.bytes > MaxTotalScanBytes THEN Doubt(scan, "TOTAL_SCAN_BYTES_EXCEEDED")
        ELSE IF ~file.text THEN Doubt(counted, "CONTENT_NOT_ANALYZED")
        ELSE [counted EXCEPT !.facts = @ \cup file.facts, !.uncertainty = @ \cup file.uncertainty]

\* The valid facts, up to the limit in each field.
Kept(facts) ==
    LET valid == {fact \in facts : fact[2] # TooLong}
    IN  {fact \in valid : Cardinality({other \in valid : other[1] = fact[1] /\ other[2] <= fact[2]})
                            <= MaxFactsPerField}

\* The scan before the first file is read, and behind the last.
ScanStart(task, all) ==
    [bytes |-> 0, facts |-> task.scope.facts, uncertainty |->
        (IF Cardinality(all) > MaxScanFiles THEN {"TRACKED_FILE_LIMIT_EXCEEDED"} ELSE {}) \cup
        (IF \E p \in task.in_scope_paths : \A i \in all : ~ScannerMatches(Path[i], p)
         THEN {"NO_TRACKED_WRITE_PATH_MATCH"} ELSE {})]

Scan(task) ==
    LET all == AllMatched(task)
        matched == Matched(all)
        scan[i \in 0..Len(Path)] ==
            IF i = 0 THEN ScanStart(task, all)
            ELSE IF i \in matched THEN Scanned(scan[i - 1], i) ELSE scan[i - 1]
    IN  scan[Len(Path)]

\* Of the scope that the policy declares, the write paths are not taken over.
ScanSemanticFootprint(task) ==
    LET scan == Scan(task)
    IN  [write_paths |-> task.in_scope_paths,
         facts |-> Kept(scan.facts),
         uncertainty |-> scan.uncertainty \cup (IF scan.facts # Kept(scan.facts) THEN {"SEMANTIC_FACT_LIMITS"} ELSE {})]

-----------------------------------------------------------------------------
(* assessSemanticAdmission                                                  *)

\* A request of an earlier version has only what its scope says.
RequestSemanticFootprint(approval) ==
    IF approval.status \in {"legacy", "lapsed"}
    THEN [NoFootprint EXCEPT !.write_paths = approval.task.scope.write_paths, !.facts = approval.task.scope.facts]
    ELSE approval.footprint

Conflict(left, right) ==
    \/ \E a \in left.write_paths, b \in right.write_paths : PathOverlap(a, b)
    \/ left.facts \cap right.facts # {}

Live(a) == approvals[a].status \in {"approved", "legacy"}

AssessSemanticAdmission(a, footprint) ==
    LET peers == {RequestSemanticFootprint(approvals[b]) : b \in {b \in Attempt \ {a} : Live(b)}}
    IN  IF \E f \in peers \cup {footprint} : f.uncertainty # {} THEN "MANUAL_DECISION_REQUIRED"
        ELSE IF \E f \in peers : Conflict(footprint, f) THEN "SEMANTIC_CONFLICT"
        ELSE "NON_OVERLAPPING"

\* approve: the request is prepared anew from the repository as it is.
ApproveRequest(a, task) ==
    LET footprint == ScanSemanticFootprint(task)
    IN  /\ ~semantic_review_required
        /\ approvals[a].status = "none"
        /\ IF AssessSemanticAdmission(a, footprint) = "NON_OVERLAPPING"
           THEN /\ approvals' = [approvals EXCEPT ![a] =
                      [status |-> "approved", commit |-> commits, task |-> task, footprint |-> footprint]]
                /\ UNCHANGED semantic_review_required
           ELSE semantic_review_required' = TRUE /\ UNCHANGED approvals
        /\ UNCHANGED <<files, commits, tasks>>

\* An approval waits no longer when its attempt is dispatched, which needs the
\* repository it was prepared in, or when its time is over.
Dispatched(a) ==
    /\ ~semantic_review_required
    /\ approvals[a].status = "approved" /\ approvals[a].commit = commits
    /\ approvals' = [approvals EXCEPT ![a].status = "over"]
    /\ UNCHANGED <<files, commits, tasks, semantic_review_required>>

ApprovalExpires(a) ==
    /\ Live(a)
    /\ approvals' = [approvals EXCEPT ![a].status = IF @ = "legacy" THEN "lapsed" ELSE "over"]
    /\ UNCHANGED <<files, commits, tasks, semantic_review_required>>

\* run: an approval of an earlier version, even if its time is over, is assessed now,
\* and cannot be clear.
AssessLegacyApproval(a) ==
    /\ ~semantic_review_required
    /\ approvals[a].status \in {"legacy", "lapsed"}
    /\ AssessSemanticAdmission(a, RequestSemanticFootprint(approvals[a])) # "NON_OVERLAPPING"
    /\ semantic_review_required' = TRUE
    /\ UNCHANGED <<files, commits, tasks, approvals>>

Commit ==
    /\ commits < MaxCommits
    /\ \E i \in DOMAIN Path, content \in Revised :
         /\ files[i] # Untracked /\ files[i] # content
         /\ files' = [files EXCEPT ![i] = content]
    /\ commits' = commits + 1
    /\ UNCHANGED <<tasks, approvals, semantic_review_required>>

SemanticNext ==
    \/ \E a \in Attempt : \/ \E task \in tasks : ApproveRequest(a, task)
                          \/ Dispatched(a) \/ ApprovalExpires(a) \/ AssessLegacyApproval(a)
    \/ Commit

SemanticSpec == SemanticInit /\ [][SemanticNext]_semanticVars

-----------------------------------------------------------------------------
(* Properties                                                               *)

MayWrite(task, i) == \E pattern \in task.in_scope_paths : ScannerMatches(Path[i], pattern)

\* What the files a task may write declare, read or not, and the policy for it.
Declares(task) ==
    task.scope.facts \cup UNION {files[i].facts : i \in {i \in DOMAIN Path : files[i] # Untracked /\ MayWrite(task, i)}}

\* Two requests that were assessed and wait to be dispatched may never write one file,
\* tracked or not; and if both were prepared in the repository as it is, nothing that one may
\* rewrite declares what the other may rewrite declares too, however much the limits of
\* the scan left unread.
ApprovedApart ==
    \A a, b \in {a \in Attempt : approvals[a].status = "approved"} : a # b =>
        /\ \A i \in DOMAIN Path : ~(MayWrite(approvals[a].task, i) /\ MayWrite(approvals[b].task, i))
        /\ approvals[a].commit = commits /\ approvals[b].commit = commits =>
             Declares(approvals[a].task) \cap Declares(approvals[b].task) = {}
=============================================================================
