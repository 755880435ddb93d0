------------------------------ MODULE Commands ------------------------------
(***************************************************************************)
(* A command of the CLI as the calls it makes one after the other, what it *)
(* does when one of them fails, what it prints and the code it exits with  *)
(* (cmd/record/share_set.go, cmd/meeting, cmd/minutes/get.go,              *)
(* cmd/tshoot/log.go, the commands of one call; cmd/root.go and            *)
(* internal/crash for a panic).                                            *)
(*                                                                         *)
(*   single     one call, its answer printed                               *)
(*   share-set  up to three calls, each tried whatever the others did      *)
(*   list       a call, then two more whose failure costs only a field     *)
(*   get        the same, with the recordings fetched in two pages at most *)
(*   transient  pages fetched to the end and printed as one                *)
(*   upload     a token, an upload to the object store, a completion       *)
(***************************************************************************)
EXTENDS RestCall, Sequences

CONSTANTS
  CommandKinds,   \* the commands above
  ShareOps,       \* the calls share-set may be asked for, in its order
  Pages           \* the requests of transient, one per page, to its limit

\* The requests that have names of their own; crash reports a panic.
NamedRequests == {"schema", "single", "base", "records", "records1", "records2", "minutes",
          "token", "complete", "crash"}

\* No two calls of a command are the same request: they go to different
\* endpoints, or ask for different pages.
ASSUME CommandAssumption ==
  /\ CommandKinds \subseteq {"single", "share-set", "list", "get", "transient", "upload"}
  /\ NamedRequests \subseteq Requests
  /\ ShareOps \in Seq(Requests \ NamedRequests)
  /\ \A i, j \in DOMAIN ShareOps : ShareOps[i] = ShareOps[j] => i = j
  /\ Pages \in Seq(Requests \ NamedRequests) /\ Pages # <<>>
  /\ \A i, j \in DOMAIN Pages : Pages[i] = Pages[j] => i = j

VARIABLES
  command,
  compact,    \* the field list of --compact has to be fetched
  phase,
  asked,      \* what share-set was asked for
  results,    \* the outcomes share-set collected
  fields,     \* what list and get say of recordings and minutes
  pages,      \* pages transient has collected
  more,       \* the last page said there are more
  zip,        \* the archive lies on disk
  stored,     \* the object store has it
  shown,      \* what was printed
  exitCode

bodyVars == <<asked, results, fields, pages, more, zip, stored>>
cmdVars == <<command, compact, phase, bodyVars, shown, exitCode>>
commandVars == <<callVars, cmdVars>>

Running == 99

CommandTypeOK ==
  /\ command \in CommandKinds /\ compact \in BOOLEAN
  /\ phase \in {"start", "compact", "body", "put", "report", "exited"}
  /\ \A i \in DOMAIN results : results[i] \in [op : Requests, ok : BOOLEAN]
  /\ fields \in [records : {"absent", "zero", "data"}, minutes : {"absent", "data"}]
  /\ pages \in 0..Len(Pages) /\ more \in BOOLEAN
  /\ zip \in BOOLEAN /\ stored \in BOOLEAN
  /\ shown \in {"nothing", "complaint", "answer", "summary", "merged", "page", "logid"}
  /\ exitCode \in {0, 1, 2, Running}

\* The calls share-set may be asked for: some of ShareOps, in their order.
Asks ==
  UNION {{[i \in 1..n |-> ShareOps[at[i]]] :
             at \in {f \in [1..n -> DOMAIN ShareOps] : \A i, j \in 1..n : i < j => f[i] < f[j]}} :
         n \in 0..Len(ShareOps)}

CommandInit ==
  /\ CallInit
  /\ command \in CommandKinds
  /\ compact \in IF command = "single" THEN BOOLEAN ELSE {FALSE}
  /\ phase = "start"
  /\ asked \in IF command = "share-set" THEN Asks ELSE {<<>>}
  /\ results = <<>>
  /\ fields = [records |-> "absent", minutes |-> "absent"]
  /\ pages = 0 /\ more = TRUE
  /\ zip = FALSE /\ stored = FALSE
  /\ shown = "nothing" /\ exitCode = Running

ExitWith(code, what) == phase' = "exited" /\ exitCode' = code /\ shown' = what
GoesOn == UNCHANGED <<phase, exitCode, shown>>
Returned(r) == phase = "body" /\ callAt = "back" /\ request = r
Answered == callOutcome = "ok"

(***************************************************************************)
(* WithCompact: the field list is fetched before the command runs; without *)
(* an answer the command runs without it.                                  *)
(***************************************************************************)
WithCompact ==
  /\ phase = "start" /\ compact
  /\ phase' = "compact"
  /\ RequestProxy("schema")
  /\ UNCHANGED <<command, compact, bodyVars, shown, exitCode>>

MayRun == (phase = "start" /\ ~compact) \/ (phase = "compact" /\ callAt = "back")

\* A flag is wrong: an error, before anything was sent.
UsageError ==
  /\ MayRun /\ ExitWith(1, "nothing")
  /\ UNCHANGED <<command, compact, bodyVars, callVars>>

\* create prints the error of a wrong --until-date and succeeds.
ComplainsOnly ==
  /\ MayRun /\ command = "single" /\ ExitWith(0, "complaint")
  /\ UNCHANGED <<command, compact, bodyVars, callVars>>

FirstRequest == [single |-> "single", list |-> "base", get |-> "base",
                 transient |-> Pages[1], upload |-> "token"]

Runs ==
  /\ MayRun
  /\ phase' = "body"
  /\ zip' = (command = "upload")
  /\ IF command = "share-set" THEN UNCHANGED callVars
     ELSE RequestProxy(FirstRequest[command])
  /\ UNCHANGED <<command, compact, asked, results, fields, pages, more, stored, shown, exitCode>>

SingleReturns ==
  /\ Returned("single")
  /\ IF Answered THEN ExitWith(0, "answer") ELSE ExitWith(1, "nothing")
  /\ UNCHANGED <<command, compact, bodyVars, callVars>>

-----------------------------------------------------------------------------
(* share-set *)

AllOK == \A i \in DOMAIN results : results[i].ok
ShareLeft == SubSeq(asked, Len(results) + 1, Len(asked))
Collect(op, ok) == results' = Append(results, [op |-> op, ok |-> ok])

\* The values given for one of the calls do not fit: that one has failed.
ShareRejects ==
  /\ phase = "body" /\ ShareLeft # <<>> /\ request # Head(ShareLeft)
  /\ Collect(Head(ShareLeft), FALSE)
  /\ GoesOn
  /\ UNCHANGED <<command, compact, asked, fields, pages, more, zip, stored, callVars>>

ShareSends ==
  /\ phase = "body" /\ ShareLeft # <<>> /\ request # Head(ShareLeft)
  /\ RequestProxy(Head(ShareLeft))
  /\ UNCHANGED cmdVars

ShareCollects ==
  /\ ShareLeft # <<>> /\ Returned(Head(ShareLeft))
  /\ Collect(Head(ShareLeft), Answered)
  /\ GoesOn
  /\ UNCHANGED <<command, compact, asked, fields, pages, more, zip, stored, callVars>>

ShareReports ==
  /\ phase = "body" /\ command = "share-set" /\ ShareLeft = <<>>
  /\ IF results = <<>> THEN ExitWith(1, "nothing")
     ELSE ExitWith(IF AllOK THEN 0 ELSE 1, "summary")
  /\ UNCHANGED <<command, compact, bodyVars, callVars>>

-----------------------------------------------------------------------------
(* list and get: an answer is shown even when nothing can be added to it *)

BaseReturns ==
  /\ Returned("base")
  /\ \/ /\ ~Answered
        /\ ExitWith(1, "nothing")
        /\ UNCHANGED callVars
     \/ /\ Answered      \* no meetings: nothing to add
        /\ ExitWith(0, "answer")
        /\ UNCHANGED callVars
     \/ /\ Answered
        /\ GoesOn
        /\ RequestProxy(IF command = "get" THEN "records1" ELSE "records")
  /\ UNCHANGED <<command, compact, bodyVars>>

\* enrichMeetingsWithRecords: the data stay as they are on any failure.
RecordsReturn ==
  /\ Returned("records")
  /\ \E read \in (IF Answered THEN {"data", "absent"} ELSE {"absent"}) :
       fields' = [fields EXCEPT !.records = read]
  /\ GoesOn
  /\ RequestProxy("minutes")
  /\ UNCHANGED <<command, compact, asked, results, pages, more, zip, stored>>

\* fetchFullRecordBasicInfo: a page, the second one only if there is more;
\* a page that fails, whichever it is, leaves no recordings at all.
RecordPageReturns(page) ==
  /\ Returned(page)
  /\ \/ /\ Answered /\ page = "records1"
        /\ RequestProxy("records2")
        /\ UNCHANGED fields
     \/ /\ Answered
        /\ fields' = [fields EXCEPT !.records = "data"]
        /\ RequestProxy("minutes")
     \/ /\ fields' = [fields EXCEPT !.records = "zero"]
        /\ RequestProxy("minutes")
  /\ GoesOn
  /\ UNCHANGED <<command, compact, asked, results, pages, more, zip, stored>>

MinutesReturn ==
  /\ Returned("minutes")
  /\ \E read \in (IF Answered THEN {"data", "absent"} ELSE {"absent"}) :
       fields' = [fields EXCEPT !.minutes = read]
  /\ ExitWith(0, "answer")
  /\ UNCHANGED <<command, compact, asked, results, pages, more, zip, stored, callVars>>

-----------------------------------------------------------------------------
(* transient: fetchAllTransient *)

PageReturns ==
  /\ command = "transient" /\ Returned(Pages[pages + 1])
  /\ \/ /\ ~Answered
        /\ ExitWith(1, "nothing")
        /\ UNCHANGED <<callVars, pages, more>>
     \/ /\ Answered       \* a page that cannot be read is printed alone
        /\ ExitWith(0, "page")
        /\ UNCHANGED <<callVars, pages, more>>
     \/ /\ Answered
        /\ pages' = pages + 1
        /\ more' \in BOOLEAN
        /\ IF more' /\ pages' < Len(Pages)
           THEN GoesOn /\ RequestProxy(Pages[pages' + 1])
           ELSE ExitWith(0, "merged") /\ UNCHANGED callVars
  /\ UNCHANGED <<command, compact, asked, results, fields, zip, stored>>

-----------------------------------------------------------------------------
(* upload: the archive is removed however uploadToServer returns *)

TokenReturns ==
  /\ Returned("token")
  /\ \/ /\ zip' = FALSE
        /\ ExitWith(1, "nothing")
     \/ /\ Answered
        /\ phase' = "put"
        /\ UNCHANGED <<zip, exitCode, shown>>
  /\ UNCHANGED <<command, compact, asked, results, fields, pages, more, stored, callVars>>

PutFileToCOS ==
  /\ phase = "put"
  /\ stored' \in BOOLEAN
  /\ \/ /\ stored'
        /\ phase' = "body"
        /\ RequestProxy("complete")
        /\ UNCHANGED <<zip, exitCode, shown>>
     \/ /\ zip' = FALSE
        /\ ExitWith(1, "nothing")
        /\ UNCHANGED callVars
  /\ UNCHANGED <<command, compact, asked, results, fields, pages, more>>

CompleteReturns ==
  /\ Returned("complete")
  /\ zip' = FALSE
  /\ IF Answered THEN ExitWith(0, "logid") ELSE ExitWith(1, "nothing")
  /\ UNCHANGED <<command, compact, asked, results, fields, pages, more, stored, callVars>>

-----------------------------------------------------------------------------
(* A panic in the command: its deferred calls run, the crash is reported   *)
(* under a deadline and whatever comes of that, the exit code is 2.        *)

Panics ==
  /\ phase \in {"start", "body", "put"} /\ callAt \in {"idle", "back"}
  /\ phase' = "report"
  /\ zip' = FALSE
  /\ RequestProxy("crash")
  /\ UNCHANGED <<command, compact, asked, results, fields, pages, more, stored, shown, exitCode>>

CrashReported ==
  /\ phase = "report" /\ callAt = "back"
  /\ ExitWith(2, "nothing")
  /\ UNCHANGED <<command, compact, bodyVars, callVars>>

CommandNext ==
  \/ WithCompact \/ UsageError \/ ComplainsOnly \/ Runs
  \/ SingleReturns
  \/ ShareRejects \/ ShareSends \/ ShareCollects \/ ShareReports
  \/ BaseReturns \/ RecordsReturn \/ MinutesReturn
  \/ \E page \in {"records1", "records2"} : RecordPageReturns(page)
  \/ PageReturns
  \/ TokenReturns \/ PutFileToCOS \/ CompleteReturns
  \/ Panics \/ CrashReported
  \/ CallNext /\ UNCHANGED cmdVars

CommandSpec == CommandInit /\ [][CommandNext]_commandVars

-----------------------------------------------------------------------------
ShareTold ==
  (command = "share-set" /\ shown = "summary") =>
    /\ [i \in DOMAIN results |-> results[i].op] = asked
    /\ exitCode = 0 <=> AllOK
    /\ \A i \in DOMAIN results : results[i].ok => results[i].op \in executed

ListTold ==
  command \in {"list", "get"} /\ phase = "exited" =>
    /\ exitCode = 1 => fields = [records |-> "absent", minutes |-> "absent"]
    /\ exitCode = 0 => "base" \in executed
    /\ fields.minutes = "data" => "minutes" \in executed
    /\ fields.records = "data" => (IF command = "get" THEN "records1" ELSE "records") \in executed

PagesTold ==
  shown = "merged" =>
    /\ \A i \in 1..pages : Pages[i] \in executed
    /\ more => pages = Len(Pages)

UploadTold ==
  /\ phase = "exited" => ~zip
  /\ shown = "logid" => stored /\ "complete" \in executed

(***************************************************************************)
(* What a command prints and exits with is what its calls did.  share-set  *)
(* reports every call it was asked for once and in order, and exits with 0 *)
(* only if the server executed them all; a meeting list is printed exactly *)
(* when its own call succeeded, whatever became of the calls that add to   *)
(* it; merged pages are all the pages up to the limit; a log id means an   *)
(* archive stored and completed, and no archive is left behind.            *)
(***************************************************************************)
CommandTellsTheTruth ==
  /\ ShareTold /\ ListTold /\ PagesTold /\ UploadTold
  /\ shown = "answer" /\ command = "single" => "single" \in executed

(***************************************************************************)
(* Calls and commands together.                                            *)
(***************************************************************************)
RestCallsHonest == BackoffGrows /\ CallTellsTheTruth /\ CommandTellsTheTruth
=============================================================================
