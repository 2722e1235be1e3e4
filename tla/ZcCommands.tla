----------------------------- MODULE ZcCommands -----------------------------
(***************************************************************************)
(* The commands of zc (src/cmd/zc/main.go), and a Go program that runs the *)
(* bulk read loop of docs/agent-notes.md: a client built from a shell's    *)
(* environment (buildClient, with Configuration), a token from the cache   *)
(* file of those credentials or minted for them, the arguments and files   *)
(* that are looked at before a request, the answer copied to a file or to  *)
(* standard output, and the exit status.  The server's bulk jobs run       *)
(* meanwhile.                                                              *)
(*                                                                         *)
(* What ZcCache and Client show is taken as one step here: a token file is *)
(* read, written or removed whole, and a request with its retries gives an *)
(* answer or an error.                                                     *)
(***************************************************************************)
EXTENDS Configuration

CONSTANTS
    Processes,  \* zc processes and programs; each has an output file of its own
    Shells,     \* environments they are launched in
    Commands,   \* a subset of AllCommands
    MaxJobs     \* bound: bulk jobs the server ever creates

\* "show": one request, its answer printed; "submit": the same with a file read
\* first; "collect": records -all as JSON or CSV; "stream": as NDJSON; "download":
\* without -out, to standard output; "program": the loop Create, Status,
\* DownloadResult.
AllCommands ==
    {"oauth-refresh", "show", "submit", "collect", "stream", "download", "download-out",
     "bulk-create", "bulk-status", "bulk-result", "program"}

ASSUME CommandsAssumption == Commands \subseteq AllCommands
ASSUME JobsAssumption == MaxJobs \in Nat \ {0}

Jobs == 1 .. MaxJobs
NoJob == 0
JobStates == {"none", "Scheduled", "In-progress", "Completed", "Failed"}

\* Commands with an output file.
ToFile == {"download-out", "bulk-result", "program"}

\* How much of its answer a process has printed; "torn": a write failed, so that
\* something is missing, and the process does not know.
Outputs == {"empty", "part", "whole", "torn"}

VARIABLES
    jobs,    \* the server's bulk jobs
    cache,   \* the token file of each credential set
    file,    \* file[p]: of which job, or which record, and how much of it
    stdout,  \* stdout[p]: one of Outputs
    zc       \* where each process is and what it holds

vars == <<jobs, cache, file, stdout, zc>>

\* A token is what it was granted for; one from ZOHO_ACCESS_TOKEN is itself.
NoToken == <<>>
Given == <<"ZOHO_ACCESS_TOKEN">>

\* The data center, or none, a shell's user means.
dataCenter(shell) == ParseDataCenter(IF shell.dataCenter = "" THEN "us" ELSE shell.dataCenter)

cacheDisabled(v) == v # "" /\ v \notin {"0", "f", "F", "false", "False", "FALSE"}

NoPath == <<>>

\* Fault: the data center is not part of the name.
tokenCachePathAnywhere(dc, shell) ==
    IF shell.refreshToken = "" \/ cacheDisabled(shell.noCache) THEN NoPath
    ELSE <<shell.clientID, shell.refreshToken>>

\* The hash of the three is taken for the three.
tokenCachePath(dc, shell) ==
    IF shell.refreshToken = "" \/ cacheDisabled(shell.noCache) THEN NoPath
    ELSE <<dc, shell.clientID, shell.refreshToken>>

Path(shell) == tokenCachePath(Only(dataCenter(shell)), shell)
CacheFiles == {tokenCachePath(dc, s) : dc \in DataCenters, s \in Shells} \ {NoPath}

\* What accounts servers grant to the shell's credentials.
GrantTo(shell) == <<Only(dataCenter(shell)), shell.clientID, shell.refreshToken>>

NoShell == [refreshToken |-> ""]

Process ==
    [step |-> "ended", shell |-> NoShell, command |-> "", call |-> "", job |-> NoJob,
     held |-> NoToken, sent |-> NoToken, exit |-> "none"]

Init ==
    /\ jobs = [j \in Jobs |-> "none"]
    /\ cache = [path \in CacheFiles |-> NoToken]
    /\ file = [p \in Processes |-> [of |-> NoJob, amount |-> "none"]]
    /\ stdout = [p \in Processes |-> "empty"]
    /\ zc = [p \in Processes |-> Process]

At(p, step) == zc[p].step = step
Goto(p, step) == zc' = [zc EXCEPT ![p].step = step]
Exit(p, status) ==
    zc' = [zc EXCEPT ![p] = [Process EXCEPT !.command = zc[p].command, !.job = zc[p].job,
                                            !.exit = status]]

\* The answer is printed to its end.
AllPrinted(p) == stdout' = [stdout EXCEPT ![p] = IF @ = "torn" THEN @ ELSE "whole"]

----------------------------------------------------------------------------
(* buildClient *)

ConfigOf(shell) ==
    [NoConfig EXCEPT !.dataCenter = Only(dataCenter(shell)),
                     !.clientID = shell.clientID, !.clientSecret = shell.clientSecret,
                     !.refreshToken = shell.refreshToken, !.accessToken = shell.accessToken,
                     !.environment = IF shell.environment = "" THEN "production"
                                                               ELSE shell.environment,
                     !.apiVersion = IF shell.apiVersion = "" THEN "v2.1" ELSE shell.apiVersion]

\* The shells buildClient makes a client in.
Buildable == {shell \in Shells : dataCenter(shell) # {} /\ validate(ConfigOf(shell))}

\* Without a refresh token there is the given one; with it, a given one counts
\* for nothing, as it comes with no expiry.  Whether a token in the file has
\* expired is left open.  A program does not know of the file.
Seeds(shell, command) ==
    IF shell.refreshToken = "" THEN {Given}
    ELSE {NoToken} \cup
         (IF Path(shell) = NoPath \/ command = "program" THEN {} ELSE {cache[Path(shell)]})

\* What a command asks the server for first.
FirstCall(command) == IF command = "program" THEN "bulk-create" ELSE command

\* A program creates its job; the other commands on jobs are told which.
JobsFor(command) == IF command \in {"bulk-status", "bulk-result"} THEN Jobs ELSE {NoJob}

Launch(p, shell, command) ==
    /\ At(p, "ended")
    /\ \E job \in JobsFor(command), seed \in Seeds(shell, command) :
          zc' = [zc EXCEPT ![p] = [Process EXCEPT
                    !.step = "arguments", !.shell = shell, !.command = command,
                    !.call = FirstCall(command), !.job = job, !.held = seed]]
    /\ stdout' = [stdout EXCEPT ![p] = "empty"]
    /\ UNCHANGED <<jobs, cache, file>>

LaunchFails(p) ==
    /\ At(p, "ended")
    /\ zc' = [zc EXCEPT ![p] = [Process EXCEPT !.exit = "error"]]
    /\ stdout' = [stdout EXCEPT ![p] = "empty"]
    /\ UNCHANGED <<jobs, cache, file>>

----------------------------------------------------------------------------
(* Before the request *)

\* An argument or flag is missing, or the input file cannot be read or parsed.
BadArguments(p) ==
    /\ At(p, "arguments")
    /\ zc[p].command \notin {"oauth-refresh", "program"}
    /\ Exit(p, "error")
    /\ UNCHANGED <<jobs, cache, file, stdout>>

GoodArguments(p) ==
    /\ At(p, "arguments")
    /\ zc[p].command # "oauth-refresh"
    /\ Goto(p, IF zc[p].call \in {"download-out", "bulk-result"} THEN "create" ELSE "token")
    /\ UNCHANGED <<jobs, cache, file, stdout>>

\* oauth refresh: Invalidate first, unless the token is static.  The error of
\* os.Remove is discarded.
Invalidate(p) ==
    /\ At(p, "arguments")
    /\ zc[p].command = "oauth-refresh"
    /\ LET shell == zc[p].shell
       IN  IF shell.refreshToken = "" THEN Goto(p, "token") /\ UNCHANGED cache
           ELSE /\ zc' = [zc EXCEPT ![p].step = "token", ![p].held = NoToken]
                /\ \/ UNCHANGED cache
                   \/ cache' = [path \in CacheFiles |->
                                    IF path = Path(shell) THEN NoToken ELSE cache[path]]
    /\ UNCHANGED <<jobs, file, stdout>>

\* os.Create truncates what an earlier run left.
Create(p) ==
    /\ At(p, "create")
    /\ file' = [file EXCEPT ![p] = [of |-> zc[p].job, amount |-> "empty"]]
    /\ Goto(p, "token")
    /\ UNCHANGED <<jobs, cache, stdout>>

CreateFails(p) ==
    /\ At(p, "create")
    /\ Exit(p, "error")
    /\ UNCHANGED <<jobs, cache, file, stdout>>

----------------------------------------------------------------------------
(* The token *)

\* oauth refresh prints its token.
With(p, token) ==
    IF zc[p].command = "oauth-refresh" THEN Goto(p, "print")
    ELSE zc' = [zc EXCEPT ![p].step = "sent", ![p].held = token, ![p].sent = token]

UseHeld(p) ==
    /\ At(p, "token")
    /\ zc[p].held # NoToken
    /\ With(p, zc[p].held)
    /\ UNCHANGED <<jobs, cache, file, stdout>>

\* None is held, or it is about to expire, or the server rejected it.  storeToken
\* may fail, with a warning.
Mint(p) ==
    /\ At(p, "token")
    /\ zc[p].held # Given
    /\ With(p, GrantTo(zc[p].shell))
    /\ \/ UNCHANGED cache
       \/ /\ zc[p].command # "program"
          /\ Path(zc[p].shell) # NoPath
          /\ cache' = [cache EXCEPT ![Path(zc[p].shell)] = GrantTo(zc[p].shell)]
    /\ UNCHANGED <<jobs, file, stdout>>

\* The token, or the request after it, fails for good.
RequestFails(p) ==
    /\ At(p, "token") \/ At(p, "sent")
    /\ Exit(p, "error")
    /\ UNCHANGED <<jobs, cache, file, stdout>>

----------------------------------------------------------------------------
(* Answers *)

Answered(p) ==
    /\ At(p, "sent")
    /\ zc[p].call \in {"show", "submit"}
    /\ Goto(p, "print")
    /\ UNCHANGED <<jobs, cache, file, stdout>>

\* The server creates a job.
NewJob(j) == jobs[j] = "none" /\ jobs' = [jobs EXCEPT ![j] = "Scheduled"]

\* The next call of a program, with the job it is about.
Call(p, call, job, step) ==
    zc' = [zc EXCEPT ![p].call = call, ![p].job = job, ![p].step = step]

\* Fault: the program does not take the job Create returned.
JobCreatedForgotten(p) ==
    /\ At(p, "sent")
    /\ zc[p].call = "bulk-create"
    /\ \E j \in Jobs :
          /\ NewJob(j)
          /\ IF zc[p].command = "program"
             THEN Call(p, "bulk-status", zc[p].job, "token")
             ELSE Goto(p, "print")
    /\ UNCHANGED <<cache, file, stdout>>

JobCreated(p) ==
    /\ At(p, "sent")
    /\ zc[p].call = "bulk-create"
    /\ \E j \in Jobs :
          /\ NewJob(j)
          /\ IF zc[p].command = "program"
             THEN Call(p, "bulk-status", j, "token")
             ELSE Goto(p, "print")
    /\ UNCHANGED <<cache, file, stdout>>

\* The answer to the POST is lost and do sends it again: a job nobody asks for.
AnswerLost(p) ==
    /\ At(p, "sent")
    /\ zc[p].call = "bulk-create"
    /\ \E j \in Jobs : NewJob(j)
    /\ UNCHANGED <<cache, file, stdout, zc>>

PrintStatus(p) ==
    /\ At(p, "sent")
    /\ zc[p].command = "bulk-status" /\ jobs[zc[p].job] # "none"
    /\ Goto(p, "print")
    /\ UNCHANGED <<jobs, cache, file, stdout>>

\* Fault: only "Completed" ends the loop.
PollUntilCompleted(p) ==
    /\ At(p, "sent")
    /\ zc[p].command = "program" /\ zc[p].call = "bulk-status"
    /\ CASE jobs[zc[p].job] = "Completed" -> Call(p, "bulk-result", zc[p].job, "create")
         [] OTHER -> Call(p, "bulk-status", zc[p].job, "token")
    /\ UNCHANGED <<jobs, cache, file, stdout>>

\* The program's switch on job.Status.
Poll(p) ==
    /\ At(p, "sent")
    /\ zc[p].command = "program" /\ zc[p].call = "bulk-status"
    /\ CASE jobs[zc[p].job] = "Completed" -> Call(p, "bulk-result", zc[p].job, "create")
         [] jobs[zc[p].job] = "Failed" -> Exit(p, "error")
         [] OTHER -> Call(p, "bulk-status", zc[p].job, "token")
    /\ UNCHANGED <<jobs, cache, file, stdout>>

----------------------------------------------------------------------------
(* Printing *)

\* An answer is printed as it is held; the records of "stream" as they come.
Printing(p) == At(p, "print") \/ (At(p, "copy") /\ zc[p].command = "stream")

\* A row, a line, a record, or as much of one write as the system takes at once.
PrintPiece(p) ==
    /\ Printing(p)
    /\ stdout' = [stdout EXCEPT ![p] = IF @ = "torn" THEN @ ELSE "part"]
    /\ UNCHANGED <<jobs, cache, file, zc>>

\* Encode, Println, Flush and os.Stdout.Write may fail; their errors are
\* discarded, and what comes after is printed all the same.
PrintFails(p) ==
    /\ Printing(p)
    /\ stdout' = [stdout EXCEPT ![p] = "torn"]
    /\ UNCHANGED <<jobs, cache, file, zc>>

PrintEnds(p) ==
    /\ At(p, "print")
    /\ AllPrinted(p)
    /\ Exit(p, "ok")
    /\ UNCHANGED <<jobs, cache, file>>

----------------------------------------------------------------------------
(* Answers that come piece by piece *)

\* A job's result is there once it is completed.
StreamBegins(p) ==
    /\ At(p, "sent")
    /\ zc[p].call \in {"collect", "stream", "download", "download-out", "bulk-result"}
    /\ zc[p].call = "bulk-result" => jobs[zc[p].job] = "Completed"
    /\ Goto(p, "copy")
    /\ UNCHANGED <<jobs, cache, file, stdout>>

\* io.Copy writes what has come.
Copy(p) ==
    /\ At(p, "copy")
    /\ \/ /\ zc[p].command \in ToFile
          /\ file' = [file EXCEPT ![p].amount = "part"]
          /\ UNCHANGED stdout
       \/ /\ zc[p].command = "download"
          /\ stdout' = [stdout EXCEPT ![p] = "part"]
          /\ UNCHANGED file
    /\ UNCHANGED <<jobs, cache, zc>>

\* io.Copy has written everything, or the walk has no more records: "collect"
\* has only kept them.
CopyEnds(p) ==
    /\ At(p, "copy")
    /\ \/ /\ zc[p].command \in ToFile
          /\ file' = [file EXCEPT ![p].amount = "whole"]
          /\ Goto(p, "close")
          /\ UNCHANGED stdout
       \/ /\ zc[p].command = "collect"
          /\ Goto(p, "print")
          /\ UNCHANGED <<file, stdout>>
       \/ /\ zc[p].command \in {"stream", "download"}
          /\ AllPrinted(p)
          /\ Exit(p, "ok")
          /\ UNCHANGED file
    /\ UNCHANGED <<jobs, cache>>

\* Fault: the file is closed whatever io.Copy returns.
CopyBreaksUnnoticed(p) ==
    /\ At(p, "copy")
    /\ IF zc[p].command \in ToFile THEN Goto(p, "close") ELSE Exit(p, "error")
    /\ UNCHANGED <<jobs, cache, file, stdout>>

\* The connection breaks, io.Copy cannot write, or a page cannot be fetched.
CopyBreaks(p) ==
    /\ At(p, "copy")
    /\ Exit(p, "error")
    /\ UNCHANGED <<jobs, cache, file, stdout>>

Close(p) ==
    /\ At(p, "close")
    /\ Exit(p, "ok")
    /\ UNCHANGED <<jobs, cache, file, stdout>>

\* The file system says only now that what was written is not there.
\* download -out and the program look at that, bulk-result does not.
CloseFails(p) ==
    /\ At(p, "close")
    /\ file' = [file EXCEPT ![p].amount = "lost"]
    /\ Exit(p, IF zc[p].command = "bulk-result" THEN "ok" ELSE "error")
    /\ UNCHANGED <<jobs, cache, stdout>>

----------------------------------------------------------------------------
(* Meanwhile *)

Kill(p) ==
    /\ ~At(p, "ended")
    /\ Exit(p, "killed")
    /\ UNCHANGED <<jobs, cache, file, stdout>>

\* A zc whose token was rejected removes the file, or its user does.
Forget(path) ==
    /\ cache' = [cache EXCEPT ![path] = NoToken]
    /\ UNCHANGED <<jobs, file, stdout, zc>>

JobRuns(j) ==
    /\ \/ jobs[j] = "Scheduled" /\ jobs' = [jobs EXCEPT ![j] = "In-progress"]
       \/ /\ jobs[j] = "In-progress"
          /\ \E outcome \in {"Completed", "Failed"} : jobs' = [jobs EXCEPT ![j] = outcome]
    /\ UNCHANGED <<cache, file, stdout, zc>>

----------------------------------------------------------------------------
Step(p) ==
    \/ BadArguments(p) \/ GoodArguments(p) \/ Invalidate(p) \/ Create(p) \/ CreateFails(p)
    \/ UseHeld(p) \/ Mint(p) \/ RequestFails(p)
    \/ Answered(p) \/ JobCreated(p) \/ AnswerLost(p) \/ PrintStatus(p) \/ Poll(p)
    \/ PrintPiece(p) \/ PrintFails(p) \/ PrintEnds(p)
    \/ StreamBegins(p) \/ Copy(p) \/ CopyEnds(p) \/ CopyBreaks(p) \/ Close(p) \/ CloseFails(p)

Next ==
    \/ \E p \in Processes :
          \/ \E shell \in Buildable, command \in Commands : Launch(p, shell, command)
          \/ Shells # Buildable /\ LaunchFails(p)
          \/ Step(p) \/ Kill(p)
    \/ \E path \in CacheFiles : Forget(path)
    \/ \E j \in Jobs : JobRuns(j)

Spec == Init /\ [][Next]_vars

\* A process that has been launched goes on, and the server works on its jobs.
FairSpec ==
    /\ Spec
    /\ \A p \in Processes : WF_vars(Step(p))
    /\ \A j \in Jobs : WF_vars(JobRuns(j))

----------------------------------------------------------------------------
(* Properties *)

TypeOK ==
    /\ jobs \in [Jobs -> JobStates]
    /\ \A path \in CacheFiles :
          cache[path] \in {NoToken} \cup {GrantTo(s) : s \in Buildable}
    /\ file \in [Processes -> [of : Jobs \cup {NoJob},
                               amount : {"none", "empty", "part", "whole", "lost"}]]
    /\ stdout \in [Processes -> Outputs]
    /\ \A p \in Processes :
          /\ zc[p].step \in
                {"ended", "arguments", "create", "token", "sent", "print", "copy", "close"}
          /\ zc[p].command \in Commands \cup {""} /\ zc[p].call \in AllCommands \cup {""}
          /\ zc[p].job \in Jobs \cup {NoJob}
          /\ zc[p].call \in {"bulk-status", "bulk-result"} => zc[p].job \in Jobs
          /\ zc[p].exit \in {"none", "ok", "error", "killed"}

\* "switching credentials never reuses another set's token": whatever was run
\* before, in whichever shell, a request carries a token that was granted to the
\* client and the refresh token of its own shell, by the accounts server of the
\* data center it goes to.
TokenOfOwnCredentials ==
    \A p \in Processes :
        At(p, "sent") =>
            zc[p].sent = IF zc[p].shell.refreshToken = "" THEN Given ELSE GrantTo(zc[p].shell)

\* What an exit status tells.  Success: what is copied, to a file or to standard
\* output, is there whole, with nothing an earlier run left in the file (but for a
\* bulk-result whose Close fails, which nobody looks at); what is printed is whole,
\* unless a write failed that nobody looks at (see the README).  Failure: a command
\* that prints its answer once it has all of it has printed nothing, so that a
\* walk that breaks off leaves no JSON or CSV that looks complete.
ExitTellsTheOutcome ==
    \A p \in {q \in Processes : At(q, "ended")} :
        /\ zc[p].exit = "ok" =>
              CASE zc[p].command \in ToFile ->
                        /\ file[p].of = zc[p].job
                        /\ \/ file[p].amount = "whole"
                           \/ zc[p].command = "bulk-result" /\ file[p].amount = "lost"
                [] zc[p].command = "download" -> stdout[p] = "whole"
                [] OTHER -> stdout[p] \in {"whole", "torn"}
        /\ zc[p].exit = "error" /\ zc[p].command \notin {"stream", "download"} =>
              stdout[p] = "empty"

\* A program that waits for its job comes to know that it completed or failed.
PollingEnds ==
    \A p \in Processes :
        (zc[p].command = "program" /\ zc[p].call = "bulk-status" /\ ~At(p, "ended"))
            ~> (At(p, "ended") \/ zc[p].call = "bulk-result")
=============================================================================
