-------------------------- MODULE ZcCommandsProofs --------------------------
(***************************************************************************)
(* Theorems about ZcCommands: for any processes, shells and commands, and  *)
(* any number of bulk jobs.                                                *)
(***************************************************************************)
EXTENDS ZcCommands, TLAPS

----------------------------------------------------------------------------
(* The inductive invariant *)

Steps == {"ended", "arguments", "create", "token", "sent", "print", "copy", "close"}
Grants == {GrantTo(shell) : shell \in Buildable}
Tokens == {NoToken, Given} \cup Grants

ProcessRecord ==
    [step : Steps, shell : Buildable \cup {NoShell}, command : Commands \cup {""},
     call : AllCommands \cup {""}, job : Jobs \cup {NoJob}, held : Tokens, sent : Tokens,
     exit : {"none", "ok", "error", "killed"}]

FileRecord == [of : Jobs \cup {NoJob}, amount : {"none", "empty", "part", "whole", "lost"}]

\* A process that has not ended was launched in a shell, for a command.
Launched(z) ==
    /\ z.step = "ended" => z.call = ""
    /\ z.step # "ended" =>
          /\ z.shell \in Buildable
          /\ z.command \in Commands
          /\ \/ z.call = z.command
             \/ z.command = "program" /\ z.call \in {"bulk-create", "bulk-status", "bulk-result"}
          /\ z.call \in {"bulk-status", "bulk-result"} => z.job \in Jobs

\* The token of a shell.
Own(shell) == IF shell.refreshToken = "" THEN Given ELSE GrantTo(shell)

\* A file holds the token it is named for; a process holds its shell's, or,
\* where one can be minted, none.
OwnFiles == \A path \in CacheFiles : cache[path] \in {NoToken, path}
OwnToken(z) ==
    z.step # "ended" =>
        /\ z.held = Own(z.shell) \/ (z.held = NoToken /\ z.shell.refreshToken # "")
        /\ z.step = "sent" => z.sent = Own(z.shell)

\* The commands whose output is copied, or printed, as it comes.
Copiers == ToFile \cup {"stream", "download"}

\* A process that copies has opened its file for the job it asks about.
Opened(z, f) ==
    /\ z.step \in {"token", "sent", "copy", "close"} /\ z.command \in ToFile
            /\ z.call \in {"download-out", "bulk-result"} => f.of = z.job
    /\ z.step \in {"copy", "close"} =>
            z.call \in {"collect", "stream", "download", "download-out", "bulk-result"}
    /\ z.step = "close" => z.command \in ToFile /\ f.amount = "whole"
    /\ z.step = "print" => z.command \notin Copiers

\* Nothing is printed before everything is there, unless it is to come out at
\* once; what io.Copy prints lacks nothing.
Quiet(z, printed) ==
    /\ z.command \notin {"stream", "download"} /\ z.step # "print"
          /\ z.exit \notin {"ok", "killed"} => printed = "empty"
    /\ z.command = "download" => printed # "torn"
Told(z, f, printed) ==
    z.step = "ended" /\ z.exit = "ok" =>
        CASE z.command \in ToFile ->
                f.of = z.job /\ (f.amount = "whole" \/ (z.command = "bulk-result" /\ f.amount = "lost"))
          [] z.command = "download" -> printed = "whole"
          [] OTHER -> printed \in {"whole", "torn"}
Running(z) == z.step # "ended" => z.exit = "none"

ProcessInv(p) ==
    /\ Launched(zc[p]) /\ OwnToken(zc[p]) /\ Running(zc[p])
    /\ Opened(zc[p], file[p]) /\ Quiet(zc[p], stdout[p]) /\ Told(zc[p], file[p], stdout[p])

Types ==
    /\ jobs \in [Jobs -> JobStates]
    /\ cache \in [CacheFiles -> {NoToken} \cup Grants]
    /\ file \in [Processes -> FileRecord]
    /\ stdout \in [Processes -> Outputs]
    /\ zc \in [Processes -> ProcessRecord]

CommandsInv == Types /\ OwnFiles /\ \A p \in Processes : ProcessInv(p)
----------------------------------------------------------------------------
(* Steps of a process *)

LEMMA CallNames ==
    /\ ToFile \cup {"bulk-create", "bulk-status", "collect", "show", "submit", "stream"} \subseteq AllCommands
    /\ \A command \in Commands : command \in AllCommands /\ FirstCall(command) \in AllCommands
  <1> QED BY CommandsAssumption, Zenon DEF AllCommands, ToFile, FirstCall

\* A step of one process leaves the others as they are.
LEMMA OthersKept ==
  ASSUME CommandsInv, NEW p \in Processes,
         zc' \in [Processes -> ProcessRecord], file' \in [Processes -> FileRecord],
         stdout' \in [Processes -> Outputs],
         \A q \in Processes \ {p} :
            zc'[q] = zc[q] /\ file'[q] = file[q] /\ stdout'[q] = stdout[q],
         ProcessInv(p)'
  PROVE  \A q \in Processes : ProcessInv(q)'
  <1> SUFFICES ASSUME NEW q \in Processes, q # p
               PROVE  ProcessInv(q)'
    OBVIOUS
  <1>1. ProcessInv(q) /\ zc'[q] = zc[q] /\ file'[q] = file[q] /\ stdout'[q] = stdout[q]
    BY DEF CommandsInv
  <1>2. Launched(zc[q])' /\ Running(zc[q])'
    BY <1>1 DEF ProcessInv, Launched, Running
  <1>3. OwnToken(zc[q])'
    BY <1>1 DEF ProcessInv, OwnToken
  <1>4. Opened(zc[q], file[q])' /\ Quiet(zc[q], stdout[q])' /\ Told(zc[q], file[q], stdout[q])'
    BY <1>1 DEF ProcessInv, Opened, Quiet, Told
  <1> QED BY <1>2, <1>3, <1>4 DEF ProcessInv

\* What is known of a process before it takes a step.
LEMMA Before ==
  ASSUME CommandsInv, NEW p \in Processes
  PROVE  /\ zc[p] \in ProcessRecord /\ file[p] \in FileRecord
         /\ stdout[p] \in Outputs /\ ProcessInv(p)
  <1> QED BY DEF CommandsInv, Types

LEMMA Goes ==
  ASSUME CommandsInv, NEW p \in Processes, NEW step \in Steps, Goto(p, step)
  PROVE  /\ zc' \in [Processes -> ProcessRecord]
         /\ zc'[p] = [zc[p] EXCEPT !.step = step]
         /\ \A q \in Processes \ {p} : zc'[q] = zc[q]
  <1>1. zc \in [Processes -> ProcessRecord] /\ zc[p] \in ProcessRecord
    BY DEF CommandsInv, Types
  <1>2. zc' = [zc EXCEPT ![p] = [zc[p] EXCEPT !.step = step]]
    BY DEF Goto
  <1>3. [zc[p] EXCEPT !.step = step] \in ProcessRecord
    BY <1>1 DEF ProcessRecord
  <1> QED BY <1>1, <1>2, <1>3

LEMMA Ends ==
  ASSUME CommandsInv, NEW p \in Processes, NEW status \in {"ok", "error", "killed"},
         Exit(p, status)
  PROVE  /\ zc' \in [Processes -> ProcessRecord]
         /\ zc'[p].step = "ended" /\ zc'[p].exit = status /\ zc'[p].call = ""
         /\ zc'[p].command = zc[p].command /\ zc'[p].job = zc[p].job
         /\ \A q \in Processes \ {p} : zc'[q] = zc[q]
  <1> DEFINE z == [Process EXCEPT !.command = zc[p].command, !.job = zc[p].job, !.exit = status]
  <1>1. zc \in [Processes -> ProcessRecord] /\ zc[p] \in ProcessRecord
    BY DEF CommandsInv, Types
  <1>2. zc' = [zc EXCEPT ![p] = z]
    BY DEF Exit
  <1>3. z \in ProcessRecord
    BY <1>1 DEF Process, ProcessRecord, Steps, Tokens
  <1>4. z.step = "ended" /\ z.exit = status /\ z.call = "" /\ z.command = zc[p].command /\ z.job = zc[p].job
    BY DEF Process
  <1> QED BY <1>1, <1>2, <1>3, <1>4

\* A process that fails, or is killed, leaves its output as far as it got.
LEMMA FailureKeeps ==
  ASSUME CommandsInv, NEW p \in Processes, NEW status \in {"error", "killed"},
         ~At(p, "ended"), Exit(p, status), UNCHANGED <<file, stdout>>,
         status = "error" => ~At(p, "print")
  PROVE  /\ zc' \in [Processes -> ProcessRecord]
         /\ \A q \in Processes : ProcessInv(q)'
  <1>1. /\ zc' \in [Processes -> ProcessRecord]
        /\ zc'[p].step = "ended" /\ zc'[p].exit = status /\ zc'[p].call = ""
        /\ zc'[p].command = zc[p].command /\ zc'[p].job = zc[p].job
        /\ \A q \in Processes \ {p} : zc'[q] = zc[q]
    BY Ends
  <1>2. ProcessInv(p)
    BY Before
  <1>3. zc[p].exit = "none"
    BY <1>2 DEF ProcessInv, Running, At
  <1>4. ProcessInv(p)'
    BY <1>1, <1>2, <1>3
       DEF ProcessInv, Launched, OwnToken, Running, Opened, Quiet, Told, At
  <1>5. file' \in [Processes -> FileRecord] /\ stdout' \in [Processes -> Outputs]
    BY DEF CommandsInv, Types
  <1> QED BY <1>1, <1>4, <1>5, OthersKept
\* One that ends well has its output.
LEMMA SuccessKeeps ==
  ASSUME CommandsInv, NEW p \in Processes, Exit(p, "ok"),
         file' \in [Processes -> FileRecord], stdout' \in [Processes -> Outputs],
         \A q \in Processes \ {p} : file'[q] = file[q] /\ stdout'[q] = stdout[q],
         CASE zc[p].command \in ToFile ->
                 /\ file'[p].of = zc[p].job
                 /\ \/ file'[p].amount = "whole"
                    \/ zc[p].command = "bulk-result" /\ file'[p].amount = "lost"
           [] zc[p].command = "download" -> stdout'[p] = "whole"
           [] OTHER -> stdout'[p] \in {"whole", "torn"},
         zc[p].command = "download" => stdout'[p] # "torn"
  PROVE  /\ zc' \in [Processes -> ProcessRecord]
         /\ \A q \in Processes : ProcessInv(q)'
  <1>1. /\ zc' \in [Processes -> ProcessRecord]
        /\ zc'[p].step = "ended" /\ zc'[p].exit = "ok" /\ zc'[p].call = ""
        /\ zc'[p].command = zc[p].command /\ zc'[p].job = zc[p].job
        /\ \A q \in Processes \ {p} : zc'[q] = zc[q]
    BY Ends
  <1>2. ProcessInv(p)'
    BY <1>1 DEF ProcessInv, Launched, OwnToken, Running, Opened, Quiet, Told
  <1> QED BY <1>1, <1>2, OthersKept

LEMMA GotoKeeps ==
  ASSUME CommandsInv, NEW p \in Processes, NEW step \in Steps, Goto(p, step),
         ~At(p, "ended"), step \notin {"ended", "sent"},
         file' \in [Processes -> FileRecord], stdout' \in [Processes -> Outputs],
         \A q \in Processes \ {p} : file'[q] = file[q] /\ stdout'[q] = stdout[q],
         ~At(p, "print"), stdout'[p] = stdout[p],
         Opened([zc[p] EXCEPT !.step = step], file'[p])
  PROVE  /\ zc' \in [Processes -> ProcessRecord]
         /\ \A q \in Processes : ProcessInv(q)'
  <1>1. /\ zc' \in [Processes -> ProcessRecord]
        /\ zc'[p] = [zc[p] EXCEPT !.step = step]
        /\ \A q \in Processes \ {p} : zc'[q] = zc[q]
    BY Goes
  <1>2. zc[p] \in ProcessRecord /\ ProcessInv(p)
    BY Before
  <1>3. /\ zc'[p].step = step /\ zc'[p].shell = zc[p].shell /\ zc'[p].command = zc[p].command
        /\ zc'[p].call = zc[p].call /\ zc'[p].job = zc[p].job /\ zc'[p].held = zc[p].held
        /\ zc'[p].exit = zc[p].exit
    BY <1>1, <1>2 DEF ProcessRecord
  <1>4. Opened(zc[p], file[p])'
    BY <1>1 DEF Opened
  <1>5. Launched(zc[p])' /\ Running(zc[p])' /\ Quiet(zc[p], stdout[p])' /\ Told(zc[p], file[p], stdout[p])'
    BY <1>2, <1>3 DEF ProcessInv, Launched, Running, Quiet, Told, At
  <1>6. OwnToken(zc[p])'
    BY <1>2, <1>3 DEF ProcessInv, OwnToken, At
  <1>7. ProcessInv(p)'
    BY <1>4, <1>5, <1>6 DEF ProcessInv
  <1> QED BY <1>1, <1>7, OthersKept
----------------------------------------------------------------------------
(* The actions *)

\* What a step of a process that changes neither jobs nor cache has to keep.
Kept ==
    /\ zc' \in [Processes -> ProcessRecord] /\ file' \in [Processes -> FileRecord]
    /\ stdout' \in [Processes -> Outputs]
    /\ \A q \in Processes : ProcessInv(q)'

LEMMA KeptSuffices ==
  ASSUME CommandsInv, Kept, UNCHANGED <<jobs, cache>>
  PROVE  CommandsInv'
  <1> QED BY DEF CommandsInv, Types, OwnFiles, Kept

LEMMA SameOutput ==
  ASSUME CommandsInv, UNCHANGED <<file, stdout>>
  PROVE  /\ file' \in [Processes -> FileRecord] /\ stdout' \in [Processes -> Outputs]
         /\ \A q \in Processes : file'[q] = file[q] /\ stdout'[q] = stdout[q]
  <1> QED BY DEF CommandsInv, Types

LEMMA Failing ==
  ASSUME CommandsInv, NEW p \in Processes,
         BadArguments(p) \/ CreateFails(p) \/ RequestFails(p) \/ CopyBreaks(p) \/ Kill(p)
  PROVE  CommandsInv'
  <1>1. /\ \E status \in {"error", "killed"} :
               Exit(p, status) /\ (status = "error" => ~At(p, "print"))
        /\ ~At(p, "ended") /\ UNCHANGED <<jobs, cache, file, stdout>>
    BY DEF BadArguments, CreateFails, RequestFails, CopyBreaks, Kill, At
  <1>2. Kept
    BY <1>1, FailureKeeps, SameOutput DEF Kept
  <1> QED BY <1>1, <1>2, KeptSuffices

LEMMA GoodArgumentsKeeps ==
  ASSUME CommandsInv, NEW p \in Processes, GoodArguments(p)
  PROVE  CommandsInv'
  <1> DEFINE next == IF zc[p].call \in {"download-out", "bulk-result"} THEN "create" ELSE "token"
  <1>1. Goto(p, next) /\ At(p, "arguments") /\ UNCHANGED <<jobs, cache, file, stdout>>
    BY DEF GoodArguments
  <1>2. zc[p] \in ProcessRecord /\ next \in Steps \ {"ended", "sent"}
    BY Before DEF Steps
  <1>3. Opened([zc[p] EXCEPT !.step = next], file'[p])
    BY <1>2 DEF Opened, ProcessRecord
  <1>4. Kept
    BY <1>1, <1>2, <1>3, GotoKeeps, SameOutput DEF Kept, At
  <1> QED BY <1>1, <1>4, KeptSuffices

LEMMA CreateKeeps ==
  ASSUME CommandsInv, NEW p \in Processes, Create(p)
  PROVE  CommandsInv'
  <1> DEFINE f == [of |-> zc[p].job, amount |-> "empty"]
  <1>1. /\ Goto(p, "token") /\ At(p, "create") /\ UNCHANGED <<jobs, cache, stdout>>
        /\ file' = [file EXCEPT ![p] = f]
    BY DEF Create
  <1>2. zc[p] \in ProcessRecord /\ f \in FileRecord
    BY Before DEF ProcessRecord, FileRecord
  <1>3. /\ file' \in [Processes -> FileRecord] /\ file'[p] = f
        /\ \A q \in Processes \ {p} : file'[q] = file[q]
    BY <1>1, <1>2 DEF CommandsInv, Types
  <1>4. Opened([zc[p] EXCEPT !.step = "token"], f)
    BY <1>2 DEF Opened, ProcessRecord
  <1>5. stdout' \in [Processes -> Outputs]
    BY <1>1 DEF CommandsInv, Types
  <1>6. Kept
    BY <1>1, <1>3, <1>4, <1>5, GotoKeeps DEF Kept, At, Steps
  <1> QED BY <1>1, <1>6, KeptSuffices

LEMMA StreamBeginsKeeps ==
  ASSUME CommandsInv, NEW p \in Processes, StreamBegins(p)
  PROVE  CommandsInv'
  <1>1. /\ Goto(p, "copy") /\ At(p, "sent") /\ UNCHANGED <<jobs, cache, file, stdout>>
        /\ zc[p].call \in {"collect", "stream", "download", "download-out", "bulk-result"}
    BY DEF StreamBegins
  <1>2. zc[p] \in ProcessRecord /\ Opened(zc[p], file[p]) /\ file'[p] = file[p]
    BY <1>1, Before DEF ProcessInv
  <1>3. Opened([zc[p] EXCEPT !.step = "copy"], file'[p])
    BY <1>1, <1>2 DEF Opened, ProcessRecord, At
  <1>4. Kept
    BY <1>1, <1>3, GotoKeeps, SameOutput DEF Kept, At, Steps
  <1> QED BY <1>1, <1>4, KeptSuffices

LEMMA CopyKeeps ==
  ASSUME CommandsInv, NEW p \in Processes, Copy(p)
  PROVE  CommandsInv'
  <1>1. At(p, "copy") /\ UNCHANGED <<jobs, cache, zc>>
    BY DEF Copy
  <1>2. zc[p] \in ProcessRecord /\ file[p] \in FileRecord /\ ProcessInv(p)
    BY Before
  <1>3. /\ file' \in [Processes -> FileRecord] /\ file'[p].of = file[p].of
        /\ \A q \in Processes \ {p} : file'[q] = file[q]
    BY <1>2 DEF Copy, CommandsInv, Types, FileRecord
  <1>4. /\ stdout' \in [Processes -> Outputs]
        /\ zc[p].command # "download" => stdout'[p] = stdout[p]
        /\ zc[p].command = "download" => stdout'[p] = "part" \/ stdout'[p] = stdout[p]
        /\ \A q \in Processes \ {p} : stdout'[q] = stdout[q]
    BY <1>2 DEF Copy, CommandsInv, Types, Outputs, ToFile
  <1>5. ProcessInv(p)'
    <2>1. Launched(zc[p])' /\ Running(zc[p])'
      BY <1>1, <1>2 DEF ProcessInv, Launched, Running
    <2>2. OwnToken(zc[p])'
      BY <1>1, <1>2 DEF ProcessInv, OwnToken
    <2>3. Opened(zc[p], file[p])' /\ Quiet(zc[p], stdout[p])' /\ Told(zc[p], file[p], stdout[p])'
      BY <1>1, <1>2, <1>3, <1>4, CallNames DEF ProcessInv, Opened, Quiet, Told, At
    <2> QED BY <2>1, <2>2, <2>3 DEF ProcessInv
  <1>6. zc' \in [Processes -> ProcessRecord] /\ \A q \in Processes : zc'[q] = zc[q]
    BY <1>1 DEF CommandsInv, Types
  <1>7. Kept
    BY <1>3, <1>4, <1>5, <1>6, OthersKept DEF Kept
  <1> QED BY <1>1, <1>7, KeptSuffices

\* A gap in what was printed stays one.
LEMMA AllPrintedTyped ==
  ASSUME CommandsInv, NEW p \in Processes, AllPrinted(p)
  PROVE  /\ stdout' \in [Processes -> Outputs]
         /\ stdout'[p] = IF stdout[p] = "torn" THEN "torn" ELSE "whole"
         /\ \A q \in Processes \ {p} : stdout'[q] = stdout[q]
  <1>1. stdout \in [Processes -> Outputs]
    BY DEF CommandsInv, Types
  <1> QED BY <1>1 DEF AllPrinted, Outputs

LEMMA CopyEndsKeeps ==
  ASSUME CommandsInv, NEW p \in Processes, CopyEnds(p)
  PROVE  CommandsInv'
  <1>1. At(p, "copy") /\ UNCHANGED <<jobs, cache>>
    BY DEF CopyEnds
  <1>2. zc[p] \in ProcessRecord /\ file[p] \in FileRecord /\ ProcessInv(p)
    BY Before
  <1>3. CASE zc[p].command \in ToFile
    <2>1. Goto(p, "close") /\ UNCHANGED stdout /\ file' = [file EXCEPT ![p].amount = "whole"]
      BY <1>3 DEF CopyEnds, ToFile
    <2>2. /\ file' \in [Processes -> FileRecord]
          /\ file'[p].of = file[p].of /\ file'[p].amount = "whole"
          /\ \A q \in Processes \ {p} : file'[q] = file[q]
      BY <1>2, <2>1 DEF CommandsInv, Types, FileRecord
    <2>3. Opened([zc[p] EXCEPT !.step = "close"], file'[p])
      BY <1>1, <1>2, <1>3, <2>2 DEF ProcessInv, Opened, ProcessRecord, At
    <2>4. stdout' \in [Processes -> Outputs]
      BY <2>1 DEF CommandsInv, Types
    <2>5. Kept
      BY <1>1, <2>1, <2>2, <2>3, <2>4, GotoKeeps DEF Kept, At, Steps
    <2> QED BY <1>1, <2>5, KeptSuffices
  <1>4. CASE zc[p].command = "collect"
    <2>1. Goto(p, "print") /\ UNCHANGED <<file, stdout>>
      BY <1>4 DEF CopyEnds, ToFile
    <2>2. Opened([zc[p] EXCEPT !.step = "print"], file'[p])
      BY <1>2, <1>4 DEF Opened, ProcessRecord, Copiers, ToFile
    <2>3. Kept
      BY <1>1, <2>1, <2>2, GotoKeeps, SameOutput DEF Kept, At, Steps
    <2> QED BY <1>1, <2>3, KeptSuffices
  <1>5. CASE zc[p].command \in {"stream", "download"}
    <2>1. Exit(p, "ok") /\ UNCHANGED file /\ AllPrinted(p)
      BY <1>5 DEF CopyEnds, ToFile
    <2>2. /\ stdout' \in [Processes -> Outputs]
          /\ stdout'[p] = IF stdout[p] = "torn" THEN "torn" ELSE "whole"
          /\ \A q \in Processes \ {p} : stdout'[q] = stdout[q]
      BY <2>1, AllPrintedTyped
    <2>3. file' \in [Processes -> FileRecord]
      BY <2>1 DEF CommandsInv, Types
    <2>4. zc[p].command \notin ToFile /\ (zc[p].command = "download" => stdout[p] # "torn")
      BY <1>2, <1>5 DEF ToFile, ProcessInv, Quiet
    <2>5. Kept
      BY <2>1, <2>2, <2>3, <2>4, SuccessKeeps DEF Kept
    <2> QED BY <1>1, <2>5, KeptSuffices
  <1> QED BY <1>3, <1>4, <1>5 DEF CopyEnds

LEMMA CloseKeeps ==
  ASSUME CommandsInv, NEW p \in Processes, Close(p)
  PROVE  CommandsInv'
  <1>1. At(p, "close") /\ Exit(p, "ok") /\ UNCHANGED <<jobs, cache, file, stdout>>
    BY DEF Close
  <1>2. zc[p] \in ProcessRecord /\ ProcessInv(p)
    BY Before
  <1>3. zc[p].command \in ToFile /\ file[p].of = zc[p].job /\ file[p].amount = "whole"
    BY <1>1, <1>2 DEF ProcessInv, Launched, Opened, At, ToFile
  <1>4. zc[p].command # "download"
    BY <1>3 DEF ToFile
  <1>5. /\ file' \in [Processes -> FileRecord] /\ stdout' \in [Processes -> Outputs]
        /\ \A q \in Processes : file'[q] = file[q] /\ stdout'[q] = stdout[q]
    BY <1>1, SameOutput
  <1>6. Kept
    BY <1>1, <1>3, <1>4, <1>5, SuccessKeeps DEF Kept
  <1> QED BY <1>1, <1>6, KeptSuffices
LEMMA CloseFailsKeeps ==
  ASSUME CommandsInv, NEW p \in Processes, CloseFails(p)
  PROVE  CommandsInv'
  <1>1. /\ At(p, "close") /\ UNCHANGED <<jobs, cache, stdout>>
        /\ file' = [file EXCEPT ![p].amount = "lost"]
        /\ Exit(p, IF zc[p].command = "bulk-result" THEN "ok" ELSE "error")
    BY DEF CloseFails
  <1>2. zc[p] \in ProcessRecord /\ file[p] \in FileRecord /\ ProcessInv(p)
    BY Before
  <1>3. zc[p].command \in ToFile /\ file[p].of = zc[p].job
    BY <1>1, <1>2 DEF ProcessInv, Launched, Opened, At, ToFile
  <1>4. /\ file' \in [Processes -> FileRecord]
        /\ file'[p].of = file[p].of /\ file'[p].amount = "lost"
        /\ \A q \in Processes \ {p} : file'[q] = file[q]
    BY <1>1, <1>2 DEF CommandsInv, Types, FileRecord
  <1>5. /\ stdout' \in [Processes -> Outputs]
        /\ \A q \in Processes : stdout'[q] = stdout[q]
    BY <1>1 DEF CommandsInv, Types
  <1>6. CASE zc[p].command = "bulk-result"
    <2>1. Kept
      BY <1>1, <1>3, <1>4, <1>5, <1>6, SuccessKeeps DEF Kept
    <2> QED BY <1>1, <2>1, KeptSuffices
  <1>7. CASE zc[p].command # "bulk-result"
    <2>1. /\ zc' \in [Processes -> ProcessRecord]
          /\ zc'[p].step = "ended" /\ zc'[p].exit = "error" /\ zc'[p].call = ""
          /\ zc'[p].command = zc[p].command
          /\ \A q \in Processes \ {p} : zc'[q] = zc[q]
      BY <1>1, <1>7, Ends
    <2>2. ProcessInv(p)'
      BY <1>1, <1>2, <1>3, <1>5, <2>1
         DEF ProcessInv, Launched, OwnToken, Running, Opened, Quiet, Told, ToFile, At
    <2>3. Kept
      BY <1>4, <1>5, <2>1, <2>2, OthersKept DEF Kept
    <2> QED BY <1>1, <2>3, KeptSuffices
  <1> QED BY <1>6, <1>7

\* An answer is about to be printed.
LEMMA AboutToPrint ==
  ASSUME CommandsInv, NEW p \in Processes, Goto(p, "print"), UNCHANGED <<file, stdout>>,
         zc[p].command \notin Copiers, ~At(p, "ended"), ~At(p, "print")
  PROVE  Kept
  <1>1. zc[p] \in ProcessRecord
    BY Before
  <1>2. Opened([zc[p] EXCEPT !.step = "print"], file'[p])
    BY <1>1 DEF Opened, ProcessRecord
  <1> QED BY <1>2, GotoKeeps, SameOutput DEF Kept, Steps

LEMMA AnsweredKeeps ==
  ASSUME CommandsInv, NEW p \in Processes, Answered(p) \/ PrintStatus(p)
  PROVE  CommandsInv'
  <1>1. /\ zc[p].step = "sent" /\ Goto(p, "print") /\ UNCHANGED <<jobs, cache, file, stdout>>
        /\ zc[p].call \in {"show", "submit"} \/ zc[p].command = "bulk-status"
    BY DEF Answered, PrintStatus, At
  <1>2. zc[p].command \notin Copiers
    BY <1>1, Before DEF ProcessInv, Launched, Copiers, ToFile
  <1> QED BY <1>1, <1>2, AboutToPrint, KeptSuffices DEF At

LEMMA PrintKeeps ==
  ASSUME CommandsInv, NEW p \in Processes, PrintPiece(p) \/ PrintFails(p)
  PROVE  CommandsInv'
  <1>1. Printing(p) /\ UNCHANGED <<jobs, cache, file, zc>>
    BY DEF PrintPiece, PrintFails
  <1>2. zc[p] \in ProcessRecord /\ ProcessInv(p)
    BY Before
  <1>3. /\ stdout' \in [Processes -> Outputs]
        /\ \A q \in Processes \ {p} : stdout'[q] = stdout[q]
    BY DEF PrintPiece, PrintFails, CommandsInv, Types, Outputs
  <1>4. zc[p].step # "ended" /\ zc[p].command # "download"
    BY <1>1, <1>2 DEF ProcessInv, Opened, Printing, At, Copiers
  <1>5. zc[p].step = "print" \/ zc[p].command = "stream"
    BY <1>1 DEF Printing, At
  <1>6. ProcessInv(p)'
    <2>1. Launched(zc[p])' /\ Running(zc[p])'
      BY <1>1, <1>2 DEF ProcessInv, Launched, Running
    <2>2. OwnToken(zc[p])'
      BY <1>1, <1>2 DEF ProcessInv, OwnToken
    <2>3. Opened(zc[p], file[p])' /\ Quiet(zc[p], stdout[p])' /\ Told(zc[p], file[p], stdout[p])'
      BY <1>1, <1>2, <1>4, <1>5 DEF ProcessInv, Opened, Quiet, Told
    <2> QED BY <2>1, <2>2, <2>3 DEF ProcessInv
  <1>7. /\ zc' \in [Processes -> ProcessRecord] /\ \A q \in Processes : zc'[q] = zc[q]
        /\ file' \in [Processes -> FileRecord] /\ \A q \in Processes : file'[q] = file[q]
    BY <1>1 DEF CommandsInv, Types
  <1>8. Kept
    BY <1>3, <1>6, <1>7, OthersKept DEF Kept
  <1> QED BY <1>1, <1>8, KeptSuffices

LEMMA PrintEndsKeeps ==
  ASSUME CommandsInv, NEW p \in Processes, PrintEnds(p)
  PROVE  CommandsInv'
  <1>1. /\ zc[p].step = "print" /\ AllPrinted(p) /\ Exit(p, "ok")
        /\ UNCHANGED <<jobs, cache, file>>
    BY DEF PrintEnds, At
  <1>2. /\ stdout' \in [Processes -> Outputs]
        /\ stdout'[p] = IF stdout[p] = "torn" THEN "torn" ELSE "whole"
        /\ \A q \in Processes \ {p} : stdout'[q] = stdout[q]
    BY <1>1, AllPrintedTyped
  <1>3. zc[p].command \notin ToFile /\ zc[p].command # "download"
    BY <1>1, Before DEF ProcessInv, Opened, Copiers
  <1>4. file' \in [Processes -> FileRecord] /\ \A q \in Processes : file'[q] = file[q]
    BY <1>1 DEF CommandsInv, Types
  <1>5. Kept
    BY <1>1, <1>2, <1>3, <1>4, SuccessKeeps DEF Kept
  <1> QED BY <1>1, <1>5, KeptSuffices

\* Only the state of a job changes.
LEMMA JobsKeep ==
  ASSUME CommandsInv, jobs' \in [Jobs -> JobStates], UNCHANGED cache, Kept
  PROVE  CommandsInv'
  <1> QED BY DEF CommandsInv, Types, OwnFiles, Kept

LEMMA NewJobTyped ==
  ASSUME CommandsInv, NEW j \in Jobs, NewJob(j)
  PROVE  jobs' \in [Jobs -> JobStates]
  <1> QED BY DEF CommandsInv, Types, NewJob, JobStates

LEMMA Idle ==
  ASSUME CommandsInv, UNCHANGED <<file, stdout, zc>>
  PROVE  Kept
  <1>1. ASSUME NEW q \in Processes
        PROVE  ProcessInv(q)'
    <2>1. zc'[q] = zc[q] /\ file'[q] = file[q] /\ stdout'[q] = stdout[q] /\ ProcessInv(q)
      BY Before
    <2>2. Launched(zc[q])' /\ Running(zc[q])'
      BY <2>1 DEF ProcessInv, Launched, Running
    <2>3. OwnToken(zc[q])'
      BY <2>1 DEF ProcessInv, OwnToken
    <2>4. Opened(zc[q], file[q])' /\ Quiet(zc[q], stdout[q])' /\ Told(zc[q], file[q], stdout[q])'
      BY <2>1 DEF ProcessInv, Opened, Quiet, Told
    <2> QED BY <2>2, <2>3, <2>4 DEF ProcessInv
  <1> QED BY <1>1 DEF Kept, CommandsInv, Types

\* The next call of a program.
LEMMA CallKeeps ==
  ASSUME CommandsInv, NEW p \in Processes, NEW call \in {"bulk-status", "bulk-result"},
         NEW job \in Jobs, NEW step \in {"create", "token"}, Call(p, call, job, step),
         zc[p].command = "program", ~At(p, "ended"),
         call = "bulk-result" => step = "create",
         UNCHANGED <<file, stdout>>
  PROVE  Kept
  <1> DEFINE z == [zc[p] EXCEPT !.call = call, !.job = job, !.step = step]
  <1>1. zc \in [Processes -> ProcessRecord] /\ zc[p] \in ProcessRecord /\ ProcessInv(p)
    BY Before DEF CommandsInv, Types
  <1>2. call \in AllCommands
    BY CallNames DEF ToFile
  <1>3. z \in ProcessRecord
    BY <1>1, <1>2 DEF ProcessRecord, Steps
  <1>4. zc' = [zc EXCEPT ![p] = z]
    BY DEF Call
  <1>5. /\ zc' \in [Processes -> ProcessRecord] /\ zc'[p] = z
        /\ \A q \in Processes \ {p} : zc'[q] = zc[q]
    BY <1>1, <1>3, <1>4
  <1>6. /\ z.step = step /\ z.shell = zc[p].shell /\ z.command = "program"
        /\ z.call = call /\ z.job = job /\ z.held = zc[p].held /\ z.exit = zc[p].exit
    BY <1>1 DEF ProcessRecord
  <1> HIDE DEF z
  <1>7. /\ Launched(zc[p])' /\ Running(zc[p])'
        /\ Quiet(zc[p], stdout[p])' /\ Told(zc[p], file[p], stdout[p])'
    <2>1. zc[p].step # "print"
      BY <1>1 DEF ProcessInv, Opened, Copiers, ToFile
    <2>2. stdout'[p] = stdout[p]
      OBVIOUS
    <2>3. Launched(zc[p])' /\ Running(zc[p])'
      BY <1>1, <1>5, <1>6 DEF ProcessInv, Launched, Running, At
    <2>4. Quiet(zc[p], stdout[p])'
      BY <1>1, <1>5, <1>6, <2>1, <2>2 DEF ProcessInv, Running, Quiet, At
    <2>5. Told(zc[p], file[p], stdout[p])'
      BY <1>5, <1>6 DEF Told
    <2> QED BY <2>3, <2>4, <2>5
  <1>8. OwnToken(zc[p])'
    BY <1>1, <1>5, <1>6 DEF ProcessInv, OwnToken, At
  <1>9. Opened(zc[p], file[p])'
    BY <1>5, <1>6 DEF Opened
  <1>10. ProcessInv(p)'
    BY <1>7, <1>8, <1>9 DEF ProcessInv
  <1> QED BY <1>5, <1>10, SameOutput, OthersKept DEF Kept

LEMMA JobCreatedKeeps ==
  ASSUME CommandsInv, NEW p \in Processes, JobCreated(p)
  PROVE  CommandsInv'
  <1>1. PICK j \in Jobs :
          /\ NewJob(j)
          /\ IF zc[p].command = "program"
             THEN Call(p, "bulk-status", j, "token")
             ELSE Goto(p, "print")
    BY DEF JobCreated
  <1>2. /\ zc[p].step = "sent" /\ zc[p].call = "bulk-create" /\ UNCHANGED <<cache, file, stdout>>
        /\ jobs' \in [Jobs -> JobStates]
    BY <1>1, NewJobTyped DEF JobCreated, At
  <1>3. CASE zc[p].command = "program"
    <2>1. Kept
      BY <1>1, <1>2, <1>3, CallKeeps DEF At
    <2> QED BY <1>2, <2>1, JobsKeep
  <1>4. CASE zc[p].command # "program"
    <2>1. zc[p].command \notin Copiers
      BY <1>2, <1>4, Before DEF ProcessInv, Launched, Copiers, ToFile
    <2>2. Kept
      BY <1>1, <1>2, <1>4, <2>1, AboutToPrint DEF At
    <2> QED BY <1>2, <2>2, JobsKeep
  <1> QED BY <1>3, <1>4

LEMMA AnswerLostKeeps ==
  ASSUME CommandsInv, NEW p \in Processes, AnswerLost(p)
  PROVE  CommandsInv'
  <1> QED BY NewJobTyped, Idle, JobsKeep DEF AnswerLost

LEMMA PollKeeps ==
  ASSUME CommandsInv, NEW p \in Processes, Poll(p)
  PROVE  CommandsInv'
  <1>1. /\ At(p, "sent") /\ zc[p].command = "program" /\ zc[p].call = "bulk-status"
        /\ UNCHANGED <<jobs, cache, file, stdout>>
    BY DEF Poll
  <1>2. zc[p].job \in Jobs
    BY <1>1, Before DEF ProcessInv, Launched, At
  <1>3. CASE Call(p, "bulk-result", zc[p].job, "create")
    <2>1. Kept
      BY <1>1, <1>2, <1>3, CallKeeps DEF At
    <2> QED BY <1>1, <2>1, KeptSuffices
  <1>4. CASE Call(p, "bulk-status", zc[p].job, "token")
    <2>1. Kept
      BY <1>1, <1>2, <1>4, CallKeeps DEF At
    <2> QED BY <1>1, <2>1, KeptSuffices
  <1>5. CASE Exit(p, "error")
    <2>1. Kept
      BY <1>1, <1>5, FailureKeeps, SameOutput DEF Kept, At
    <2> QED BY <1>1, <2>1, KeptSuffices
  <1> QED BY <1>3, <1>4, <1>5 DEF Poll
----------------------------------------------------------------------------
(* Tokens *)

\* The name of a token file tells the credentials of what is in it.
LEMMA PathIsGrant ==
  ASSUME NEW shell, Path(shell) # NoPath
  PROVE  shell.refreshToken # "" /\ Path(shell) = GrantTo(shell) /\ Own(shell) = GrantTo(shell)
  <1> QED BY DEF Path, tokenCachePath, GrantTo, Own

LEMMA PathIsFile ==
  ASSUME NEW shell \in Buildable, Path(shell) # NoPath
  PROVE  Path(shell) \in CacheFiles
  <1>1. shell \in Shells /\ dataCenter(shell) # {} /\ dataCenter(shell) \subseteq DataCenters
    BY DEF Buildable, dataCenter, ParseDataCenter
  <1>2. Only(dataCenter(shell)) \in DataCenters
    BY <1>1 DEF Only
  <1> QED BY <1>1, <1>2 DEF Path, CacheFiles

\* Whatever of the cache is used, written or removed.
LEMMA CacheKeeps ==
  ASSUME CommandsInv, Kept, UNCHANGED jobs, cache' \in [CacheFiles -> {NoToken} \cup Grants],
         \A path \in CacheFiles : cache'[path] \in {NoToken, path, cache[path]}
  PROVE  CommandsInv'
  <1>1. OwnFiles'
    BY DEF CommandsInv, OwnFiles
  <1> QED BY <1>1 DEF CommandsInv, Types, Kept

LEMMA ForgetKeeps ==
  ASSUME CommandsInv, NEW path \in CacheFiles, Forget(path)
  PROVE  CommandsInv'
  <1>1. Kept
    BY Idle DEF Forget
  <1>2. cache \in [CacheFiles -> {NoToken} \cup Grants] /\ cache' = [cache EXCEPT ![path] = NoToken]
    BY DEF Forget, CommandsInv, Types
  <1> HIDE DEF NoToken
  <1>3. /\ cache' \in [CacheFiles -> {NoToken} \cup Grants]
        /\ \A other \in CacheFiles : cache'[other] \in {NoToken, other, cache[other]}
    BY <1>2
  <1> QED BY <1>1, <1>3, CacheKeeps DEF Forget

LEMMA InvalidateKeeps ==
  ASSUME CommandsInv, NEW p \in Processes, Invalidate(p)
  PROVE  CommandsInv'
  <1> DEFINE shell == zc[p].shell
             z == [zc[p] EXCEPT !.step = "token", !.held = NoToken]
  <1>1. /\ At(p, "arguments") /\ zc[p].command = "oauth-refresh" /\ UNCHANGED <<jobs, file, stdout>>
    BY DEF Invalidate
  <1>2. zc \in [Processes -> ProcessRecord] /\ zc[p] \in ProcessRecord /\ ProcessInv(p)
    BY Before DEF CommandsInv, Types
  <1>3. "oauth-refresh" \notin ToFile
    BY DEF ToFile
  <1>4. CASE shell.refreshToken = ""
    <2>1. Goto(p, "token") /\ UNCHANGED cache
      BY <1>4 DEF Invalidate
    <2>2. Opened([zc[p] EXCEPT !.step = "token"], file'[p])
      BY <1>1, <1>2, <1>3 DEF Opened, ProcessRecord
    <2>3. Kept
      BY <1>1, <2>1, <2>2, GotoKeeps, SameOutput DEF Kept, At, Steps
    <2> QED BY <1>1, <2>1, <2>3, KeptSuffices
  <1>5. CASE shell.refreshToken # ""
    <2>1. /\ zc' = [zc EXCEPT ![p] = z]
          /\ \/ UNCHANGED cache
             \/ cache' = [path \in CacheFiles |-> IF path = Path(shell) THEN NoToken ELSE cache[path]]
      BY <1>5 DEF Invalidate
    <2>2. z \in ProcessRecord
      BY <1>2 DEF ProcessRecord, Steps, Tokens
    <2>3. /\ z.step = "token" /\ z.shell = shell /\ z.command = zc[p].command /\ z.call = zc[p].call
          /\ z.job = zc[p].job /\ z.held = NoToken /\ z.exit = zc[p].exit
      BY <1>2 DEF ProcessRecord
    <2>4. /\ zc' \in [Processes -> ProcessRecord] /\ zc'[p] = z
          /\ \A q \in Processes \ {p} : zc'[q] = zc[q]
      BY <1>2, <2>1, <2>2
    <2> HIDE DEF z
    <2>5. Launched(zc[p])' /\ Running(zc[p])' /\ Quiet(zc[p], stdout[p])' /\ Told(zc[p], file[p], stdout[p])'
      BY <1>1, <1>2, <2>3, <2>4 DEF ProcessInv, Launched, Running, Quiet, Told, At
    <2>6. OwnToken(zc[p])'
      BY <1>5, <2>3, <2>4 DEF OwnToken
    <2>7. Opened(zc[p], file[p])'
      BY <1>1, <1>3, <2>3, <2>4 DEF Opened
    <2>8. Kept
      BY <1>1, <2>4, <2>5, <2>6, <2>7, SameOutput, OthersKept DEF Kept, ProcessInv
    <2>9. /\ cache' \in [CacheFiles -> {NoToken} \cup Grants]
          /\ \A path \in CacheFiles : cache'[path] \in {NoToken, path, cache[path]}
      <3>1. cache \in [CacheFiles -> {NoToken} \cup Grants]
        BY DEF CommandsInv, Types
      <3> HIDE DEF NoToken
      <3> QED BY <2>1, <3>1
    <2> QED BY <1>1, <2>8, <2>9, CacheKeeps
  <1> QED BY <1>4, <1>5

\* A process is handed the token of its shell.
LEMMA WithKeeps ==
  ASSUME CommandsInv, NEW p \in Processes, At(p, "token"),
         With(p, Own(zc[p].shell)), UNCHANGED <<file, stdout>>
  PROVE  Kept
  <1> DEFINE token == Own(zc[p].shell)
             z == [zc[p] EXCEPT !.step = "sent", !.held = token, !.sent = token]
  <1>1. zc \in [Processes -> ProcessRecord] /\ zc[p] \in ProcessRecord /\ ProcessInv(p)
    BY Before DEF CommandsInv, Types
  <1>2. token \in Tokens
    BY <1>1 DEF ProcessInv, Launched, Own, Tokens, Grants, At
  <1> HIDE DEF token
  <1>3. file' \in [Processes -> FileRecord] /\ \A q \in Processes : file'[q] = file[q]
    BY DEF CommandsInv, Types
  <1>4. CASE zc[p].command = "oauth-refresh"
    <2>1. Goto(p, "print")
      BY <1>4 DEF With
    <2>2. zc[p].command \notin Copiers
      BY <1>4 DEF Copiers, ToFile
    <2> QED BY <2>1, <2>2, AboutToPrint DEF At
  <1>5. CASE zc[p].command # "oauth-refresh"
    <2>1. zc' = [zc EXCEPT ![p] = z]
      BY <1>5 DEF With, token
    <2>2. z \in ProcessRecord
      BY <1>1, <1>2 DEF ProcessRecord, Steps
    <2>3. /\ z.step = "sent" /\ z.shell = zc[p].shell /\ z.command = zc[p].command
          /\ z.call = zc[p].call /\ z.job = zc[p].job /\ z.held = token /\ z.sent = token
          /\ z.exit = zc[p].exit
      BY <1>1 DEF ProcessRecord
    <2>4. /\ zc' \in [Processes -> ProcessRecord] /\ zc'[p] = z
          /\ \A q \in Processes \ {p} : zc'[q] = zc[q]
      BY <1>1, <2>1, <2>2
    <2> HIDE DEF z
    <2>5. Launched(zc[p])' /\ Running(zc[p])' /\ Quiet(zc[p], stdout[p])' /\ Told(zc[p], file[p], stdout[p])'
      BY <1>1, <2>1, <2>3, <2>4 DEF ProcessInv, Launched, Running, Quiet, Told, At
    <2>6. OwnToken(zc[p])'
      BY <2>3, <2>4 DEF OwnToken, token
    <2>7. Opened(zc[p], file[p])'
      BY <1>1, <1>3, <2>3, <2>4 DEF ProcessInv, Opened, At
    <2> QED BY <1>3, <2>1, <2>4, <2>5, <2>6, <2>7, SameOutput, OthersKept DEF Kept, ProcessInv
  <1> QED BY <1>4, <1>5

LEMMA UseHeldKeeps ==
  ASSUME CommandsInv, NEW p \in Processes, UseHeld(p)
  PROVE  CommandsInv'
  <1>1. /\ At(p, "token") /\ zc[p].held # NoToken /\ With(p, zc[p].held)
        /\ UNCHANGED <<jobs, cache, file, stdout>>
    BY DEF UseHeld
  <1>2. zc[p].held = Own(zc[p].shell)
    BY <1>1, Before DEF ProcessInv, OwnToken, At
  <1>3. Kept
    BY <1>1, <1>2, WithKeeps
  <1> QED BY <1>1, <1>3, KeptSuffices

LEMMA MintKeeps ==
  ASSUME CommandsInv, NEW p \in Processes, Mint(p)
  PROVE  CommandsInv'
  <1> DEFINE shell == zc[p].shell
  <1>1. /\ At(p, "token") /\ zc[p].held # Given /\ With(p, GrantTo(shell))
        /\ UNCHANGED <<jobs, file, stdout>>
        /\ \/ UNCHANGED cache
           \/ Path(shell) # NoPath /\ cache' = [cache EXCEPT ![Path(shell)] = GrantTo(shell)]
    BY DEF Mint
  <1>2. shell \in Buildable /\ Own(shell) = GrantTo(shell)
    BY <1>1, Before DEF ProcessInv, Launched, OwnToken, Own, At
  <1>3. Kept
    BY <1>1, <1>2, WithKeeps
  <1>4. cache \in [CacheFiles -> {NoToken} \cup Grants] /\ GrantTo(shell) \in Grants
    BY <1>2 DEF CommandsInv, Types, Grants
  <1>5. Path(shell) # NoPath => Path(shell) = GrantTo(shell)
    BY PathIsGrant
  <1> HIDE DEF NoToken, shell
  <1>6. /\ cache' \in [CacheFiles -> {NoToken} \cup Grants]
        /\ \A path \in CacheFiles : cache'[path] \in {NoToken, path, cache[path]}
    BY <1>1, <1>4, <1>5
  <1> QED BY <1>1, <1>3, <1>6, CacheKeeps

LEMMA SeedIsOwn ==
  ASSUME CommandsInv, NEW shell \in Buildable, NEW command \in Commands,
         NEW seed \in Seeds(shell, command)
  PROVE  /\ seed = Own(shell) \/ (seed = NoToken /\ shell.refreshToken # "")
         /\ seed \in Tokens
  <1>1. CASE shell.refreshToken = ""
    <2>1. seed = Given /\ Own(shell) = Given
      BY <1>1 DEF Seeds, Own
    <2>2. Given \in Tokens
      BY DEF Tokens
    <2> QED BY <2>1, <2>2
  <1>2. CASE shell.refreshToken # ""
    <2>1. Own(shell) \in Tokens
      BY DEF Own, Tokens, Grants
    <2>2. CASE Path(shell) = NoPath \/ command = "program"
      <3>1. seed = NoToken
        BY <1>2, <2>2 DEF Seeds
      <3> QED BY <1>2, <3>1 DEF Tokens
    <2>3. CASE ~(Path(shell) = NoPath \/ command = "program")
      <3>1. seed \in {NoToken, cache[Path(shell)]}
        BY <1>2, <2>3 DEF Seeds
      <3>2. cache[Path(shell)] \in {NoToken, Path(shell)}
        BY <2>3, PathIsFile DEF CommandsInv, OwnFiles
      <3>3. seed \in {NoToken, Own(shell)}
        BY <2>3, <3>1, <3>2, PathIsGrant
      <3> QED BY <1>2, <2>1, <3>3 DEF Tokens
    <2> QED BY <2>2, <2>3
  <1> QED BY <1>1, <1>2
LEMMA LaunchKeeps ==
  ASSUME CommandsInv, NEW p \in Processes, NEW shell \in Buildable, NEW command \in Commands,
         Launch(p, shell, command)
  PROVE  CommandsInv'
  <1>1. PICK job \in JobsFor(command), seed \in Seeds(shell, command) :
          zc' = [zc EXCEPT ![p] = [Process EXCEPT
                    !.step = "arguments", !.shell = shell, !.command = command,
                    !.call = FirstCall(command), !.job = job, !.held = seed]]
    BY DEF Launch
  <1> DEFINE z == [Process EXCEPT
                    !.step = "arguments", !.shell = shell, !.command = command,
                    !.call = FirstCall(command), !.job = job, !.held = seed]
  <1>2. /\ zc \in [Processes -> ProcessRecord] /\ UNCHANGED <<jobs, cache, file>>
        /\ stdout' = [stdout EXCEPT ![p] = "empty"]
    BY DEF CommandsInv, Types, Launch
  <1>3. /\ seed = Own(shell) \/ (seed = NoToken /\ shell.refreshToken # "")
        /\ seed \in Tokens
    BY SeedIsOwn
  <1>4. /\ job \in Jobs \cup {NoJob}
        /\ FirstCall(command) \in {"bulk-status", "bulk-result"} => job \in Jobs
        /\ FirstCall(command) = command \/ (command = "program" /\ FirstCall(command) = "bulk-create")
    BY DEF JobsFor, FirstCall
  <1>5. FirstCall(command) \in AllCommands
    BY CallNames
  <1>6. /\ z.step = "arguments" /\ z.shell = shell /\ z.command = command
        /\ z.call = FirstCall(command) /\ z.job = job /\ z.held = seed /\ z.exit = "none"
    BY DEF Process
  <1>7. z \in ProcessRecord
    BY <1>3, <1>4, <1>5 DEF Process, ProcessRecord, Steps, Tokens
  <1> HIDE DEF z
  <1>8. /\ zc' \in [Processes -> ProcessRecord] /\ zc'[p] = z
        /\ \A q \in Processes \ {p} : zc'[q] = zc[q]
    BY <1>1, <1>2, <1>7 DEF z
  <1>9. /\ stdout' \in [Processes -> Outputs] /\ stdout'[p] = "empty"
        /\ \A q \in Processes \ {p} : stdout'[q] = stdout[q]
        /\ file' \in [Processes -> FileRecord]
    BY <1>2 DEF CommandsInv, Types, Outputs
  <1>10. Launched(zc[p])' /\ Running(zc[p])' /\ Quiet(zc[p], stdout[p])' /\ Told(zc[p], file[p], stdout[p])'
    BY <1>4, <1>6, <1>8, <1>9 DEF Launched, Running, Quiet, Told
  <1>11. OwnToken(zc[p])'
    BY <1>3, <1>6, <1>8 DEF OwnToken
  <1>12. Opened(zc[p], file[p])'
    BY <1>6, <1>8 DEF Opened
  <1>13. Kept
    BY <1>2, <1>8, <1>9, <1>10, <1>11, <1>12, OthersKept DEF Kept, ProcessInv
  <1> QED BY <1>2, <1>13, KeptSuffices

LEMMA LaunchFailsKeeps ==
  ASSUME CommandsInv, NEW p \in Processes, LaunchFails(p)
  PROVE  CommandsInv'
  <1> DEFINE z == [Process EXCEPT !.exit = "error"]
  <1>1. /\ zc \in [Processes -> ProcessRecord] /\ UNCHANGED <<jobs, cache, file>>
        /\ zc' = [zc EXCEPT ![p] = z]
        /\ stdout' = [stdout EXCEPT ![p] = "empty"]
    BY DEF CommandsInv, Types, LaunchFails
  <1>2. z.step = "ended" /\ z.command = "" /\ z.call = "" /\ z.exit = "error"
    BY DEF Process
  <1>3. z \in ProcessRecord
    BY DEF Process, ProcessRecord, Steps, Tokens
  <1> HIDE DEF z
  <1>4. /\ zc' \in [Processes -> ProcessRecord] /\ zc'[p] = z
        /\ \A q \in Processes \ {p} : zc'[q] = zc[q]
    BY <1>1, <1>3
  <1>5. /\ stdout' \in [Processes -> Outputs] /\ stdout'[p] = "empty"
        /\ \A q \in Processes \ {p} : stdout'[q] = stdout[q]
        /\ file' \in [Processes -> FileRecord]
    BY <1>1 DEF CommandsInv, Types, Outputs
  <1>6. ProcessInv(p)'
    BY <1>2, <1>4, <1>5 DEF ProcessInv, Launched, OwnToken, Running, Opened, Quiet, Told
  <1>7. Kept
    BY <1>1, <1>4, <1>5, <1>6, OthersKept DEF Kept
  <1> QED BY <1>1, <1>7, KeptSuffices

LEMMA JobRunsKeeps ==
  ASSUME CommandsInv, NEW j \in Jobs, JobRuns(j)
  PROVE  CommandsInv'
  <1>1. jobs' \in [Jobs -> JobStates]
    BY DEF JobRuns, CommandsInv, Types, JobStates
  <1>2. UNCHANGED cache /\ Kept
    BY Idle DEF JobRuns
  <1> QED BY <1>1, <1>2, JobsKeep

----------------------------------------------------------------------------
(* The theorems *)

LEMMA InitInv == Init => CommandsInv
  <1> SUFFICES ASSUME Init PROVE CommandsInv
    OBVIOUS
  <1>1. Process \in ProcessRecord
    BY DEF Process, ProcessRecord, Steps, Tokens
  <1>2. Process.step = "ended" /\ Process.command = "" /\ Process.call = "" /\ Process.exit = "none"
    BY DEF Process
  <1>3. [of |-> NoJob, amount |-> "none"] \in FileRecord
    BY DEF FileRecord
  <1>4. jobs \in [Jobs -> JobStates] /\ stdout \in [Processes -> Outputs]
    BY DEF Init, JobStates, Outputs
  <1>5. zc \in [Processes -> ProcessRecord] /\ file \in [Processes -> FileRecord]
    BY <1>1, <1>3 DEF Init
  <1>6. cache \in [CacheFiles -> {NoToken} \cup Grants] /\ OwnFiles
    <2> HIDE DEF NoToken
    <2> QED BY DEF Init, OwnFiles
  <1>7. ASSUME NEW p \in Processes
        PROVE  ProcessInv(p)
    <2>1. zc[p] = Process /\ stdout[p] = "empty"
      BY DEF Init
    <2> QED BY <1>2, <2>1 DEF ProcessInv, Launched, OwnToken, Running, Opened, Quiet, Told
  <1> QED BY <1>4, <1>5, <1>6, <1>7 DEF CommandsInv, Types

LEMMA Inductive == CommandsInv /\ [Next]_vars => CommandsInv'
  <1> SUFFICES ASSUME CommandsInv, [Next]_vars PROVE CommandsInv'
    OBVIOUS
  <1>1. CASE UNCHANGED vars
    BY <1>1, Idle, KeptSuffices DEF vars
  <1>2. ASSUME NEW p \in Processes, Step(p)
        PROVE  CommandsInv'
    BY <1>2, Failing, GoodArgumentsKeeps, InvalidateKeeps, CreateKeeps, UseHeldKeeps, MintKeeps,
       AnsweredKeeps, PrintKeeps, PrintEndsKeeps, JobCreatedKeeps, AnswerLostKeeps, PollKeeps, StreamBeginsKeeps, CopyKeeps,
       CopyEndsKeeps, CloseKeeps, CloseFailsKeeps DEF Step
  <1> QED BY <1>1, <1>2, LaunchKeeps, LaunchFailsKeeps, Failing, ForgetKeeps, JobRunsKeeps DEF Next

\* What runs of commands leave to one another keeps to its shell: a token file
\* holds grants of the shell's own credentials, and a file or what was printed is
\* what the last command said of it, but for writes to standard output, which may
\* fail unnoticed.
THEOREM CommandsInvariant == Spec => []CommandsInv
  <1> QED BY InitInv, Inductive, PTL DEF Spec

\* The type invariant, for any processes, shells, commands and number of jobs.
THEOREM TypeCorrect == Spec => []TypeOK
  <1>1. CommandsInv => TypeOK
    <2> SUFFICES ASSUME CommandsInv PROVE TypeOK
      OBVIOUS
    <2>1. /\ jobs \in [Jobs -> JobStates] /\ cache \in [CacheFiles -> {NoToken} \cup Grants]
          /\ file \in [Processes -> FileRecord] /\ stdout \in [Processes -> Outputs]
      BY DEF CommandsInv, Types
    <2>2. \A path \in CacheFiles :
             cache[path] \in {NoToken} \cup {GrantTo(s) : s \in Buildable}
      BY <2>1 DEF Grants
    <2>3. ASSUME NEW p \in Processes
          PROVE  /\ zc[p] \in ProcessRecord /\ Launched(zc[p])
      BY Before DEF ProcessInv
    <2> QED BY <2>1, <2>2, <2>3 DEF TypeOK, FileRecord, ProcessRecord, Steps, Launched
  <1> QED BY <1>1, CommandsInvariant, PTL

\* However many shells and processes there are, and whatever the files hold, no
\* request carries a token of another credential set or data center.
THEOREM OwnTokenSent == Spec => []TokenOfOwnCredentials
  <1>1. CommandsInv => TokenOfOwnCredentials
    BY DEF CommandsInv, ProcessInv, OwnToken, Own, TokenOfOwnCredentials, At
  <1> QED BY <1>1, CommandsInvariant, PTL

\* Success means that the whole answer was copied to where it was wanted, or
\* printed but for writes that failed unnoticed, and failure that nothing which
\* could pass for an answer was printed, however runs, failures and kills follow
\* one another over the same output file.
THEOREM ExitIsTrue == Spec => []ExitTellsTheOutcome
  <1>1. CommandsInv => ExitTellsTheOutcome
    BY DEF CommandsInv, ProcessInv, Quiet, Told, ExitTellsTheOutcome, At
  <1> QED BY <1>1, CommandsInvariant, PTL
============================================================================
