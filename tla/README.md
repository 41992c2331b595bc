# FileGenerate: a verification project

FileGenerate is a daemon that turns rows of a job table into files. Another
program inserts a row into `generate_list` with status `'0'`, a settle date and
a url; once a minute the daemon loads the pending rows, looks up the steps that
the table `fun_config` lists for the url, runs them (SQL statements, exports to
text or Excel, FTP transfers), lets handler steps set the row's status, and
commits. This directory holds TLA+ models of that program, the TLC
configurations that check them, and the proofs that TLAPS checks.

## 1. Inventory

| Component | Source | State it keeps | Operations | What is hard |
|---|---|---|---|---|
| Job processing | `file_generate.c` | `generate_list` (a list of at most MAX_DOWN_FILE rows), one request and one response object per cycle, the open transaction | `process`, `load_generate_file`, `file_prepare_foreach` | one commit for main and handler steps; failures in any step; loss of the session or of the process between any two calls; objects shared by the jobs of a cycle |
| Function modules | `process_util.c` | request/response members, files, rows | `module_*`, `execute_config`, `check_data_acl` | partial effects before an error is returned; an uninitialised return value |
| Configuration search | `process_util.c`, `file_generate.c:147` | `g_fun_config`, its length | `load_fun_config`, `search_fun_config_min` | a binary search that must find the first of equal rows |
| Daemon lifecycle | `main.c`, `*.sh` | `sys_exit` | `main`, `signal_handler` | SIGUSR1 between any two steps, restart by `execv` |
| Database connection | `db_hander.c` | `g_db_con`, `reconnect_flag`, the SQL library | `connect_init`, `load_config`, `db_reload`, `test_databse_connection`, `reconnect`, `sql_execute` | a global handle that several functions free and replace; only six error codes lead to a reconnection |
| FTP transfer | `updown.c` | local and remote file, `uploaded_len` | `upload`, `download` | retries that resume, lost replies, older files under the same name |
| Job table of several daemons | `file_generate.c`, `start.sh` | the database's rows and locks | everything of job processing, twice | two lists with the same jobs; rows locked in opposite orders |
| Data access rules | `data_acl.c` | rules, access rows, one flag | `load_data_rule`, `gen_data_acl`, `gen_group_where` | one pass with a flag that relies on the order of the rows; nested rule texts |
| JSON helpers | `json_ext.c` | none of its own | member lookup, saving and loading a file | partial writes, a file cut before it is written |
| SQL text | `gen_sql.c` | position, output | `gen_sql` | ends of texts, quotes, missing values |
| Unused helpers | `process_util.c`, `file_generate.c` | - | `mkdirs`, `gen_uuid`, `write_oper_log`, ... | never called |
| Vendored code | `include/`, `lib/` | - | OCI wrapper, json-c, libxl, cutil, sql | external: modelled from how `src/` uses it |

Interactions: `main` calls `process` once a minute; `process` tests the
connection (`db_hander.c`), loads jobs, searches the configuration and calls the
modules, which call `sql_execute` and `updown.c`. All of them share the global
connection handle and, per cycle, the two JSON objects. The database and its
other users, the FTP server, and whoever sends signals are the environment.

What makes each component correct:

- *Job processing*: a row is decided at most once; its database work is visible
  exactly when its status says done; done implies that every upload of a file
  exported in this run sent it whole, except where the code takes a failure for a
  success; a main step reads its own job's member wherever an earlier step was
  bound to write it; pending jobs are decided when the world is calm and the
  session is not wedged.
- *Function modules*: success of a statement step implies its change, nothing is
  changed without a connection.
- *Configuration search*: exactly the rows of the job's url are run.
- *Daemon and connection*: in the loop `g_db_con` is neither null nor freed (the copy
  in `ctx.con` is, see disagreement 1); unusable tables are reloaded; a request to
  reload is served; a failed daemon restarts.
- *FTP transfer*: the copy only grows, is a beginning of the file at all times,
  and is whole when success is returned, a read error and a lost last buffer
  excepted; a download whose job is still pending gets there.
- *Several daemons*: a job's work is committed once, and no wait is for ever.
- *Shared objects*: each count is the number of owners, and a cycle releases all.
- *Statement*: -1 exactly when something failed, otherwise every row.
- *Data access rules*: exactly the restrictions that the rules of the operation,
  or else the rules for every operation, ask for.
- *Files, texts, exports, pages*: whole or not at all; every value in its place;
  neither a gap nor an overlap between pages.

`PROJECT.json` lists the hazards of the code at their lines with the properties
that cover them.

## 2. Modules

| Module | Models | Role |
|---|---|---|
| `FunModules` | `process_util.c:254-1623`, results of `updown.c` | pure operators: the outcome sets of the function modules |
| `JobProcessing` | `file_generate.c`, with `FunModules` | state machine of `process()` and its transaction |
| `JobLedger` | what the generator promises | abstract specification, implemented by `JobProcessing` |
| `Daemon` | `main.c`, `db_hander.c` | state machine of the process |
| `FtpUpload` | `updown.c:25-99` | state machine of one upload |
| `FtpDownload` | `updown.c:101-149`, `process_util.c:1319-1349` | state machine of downloads, call after call |
| `FileTransfer` | what the two promise | abstract specification, implemented by both |
| `TwoSessions` | `process()` as the database sees it, several times | state machine; implements `JobLedger` too |
| `ConfigSearch` | `process_util.c:1625-1695`, `file_generate.c:143-150` | the search as a state machine over every table |
| `Statement` | `db_hander.c:44-132`, the fetch handlers | state machine of one `sql_execute` |
| `JsonRefs` | the modules' use of json-c, `file_generate.c:121-183` | a heap with reference counts, cycle after cycle |
| `SelectPages` | `process_util.c:27-36`, `393-514`, `109-128` | page queries on a changing table |
| `ExportXls` | `process_util.c:209-227`, `1366-1559` | one Excel export |
| `JsonFile` | `json_ext.c:40-156` | saving and loading one file |
| `SqlText` | `gen_sql.c` | the scanner, character by character |
| `DataAcl` | `data_acl.c:8-31`, `96-206` | the pass over the access rows |
| `RuleWhere` | `data_acl.c:33-90` | the text of a rule |
| `Calls` | what `process()` calls, one call per behaviour | composes the eight small machines; the specification the proofs are about |
| `MC*` | - | the instances that TLC checks |
| `*Proofs` | - | theorems |

### FunModules

Every function module is the *set of outcomes* one call can have: the return
value, whether an uncommitted change was left behind, which request or response
members were written, what was left of the local file, and whether it was handed
to the FTP server. Row counts, column values and external failures make the set
larger than one; `Faults` says which failures exist. Order matters and is kept:
`Insert` changes the row before its check can refuse it, `Delete` with a minimum
row count deletes before it fails, `ExportTxt` truncates before anything else,
`Upload` returns 0 for a local file that it cannot open. The fault `quiet` are the
failures that no line of the code looks at: a row of which `write()` takes only a
part (`process_util.c:201`), a cell or a buffer that is not written
(`process_util.c:221`, `updown.c:140`), a local file that is there and cannot be
opened (`updown.c:41`) or read to its end (`updown.c:31`). They leave a `cut` file
or an `unread` one, and 0. `module_del` is in the dispatch table and not here: all
its effect is on reference counts (`JsonRefs`). `ExecuteConfig` returns *either*
result when the precondition `test_input` is false, because `ret` is never
assigned then (`process_util.c:1604`).

### JobProcessing

One action per step of `process()`:

| Action | Code |
|---|---|
| `TestConnection`, `ReconnectFails` | `file_generate.c:128-133`, `db_hander.c:155-184` |
| `LoadGenerateFile`, `LoadFails` | `file_generate.c:98-107`, `134` |
| `PrepareJob`, `EndCycle` | `110-147`, `181-183` |
| `MainStep`, `MainStepFails`, `MainDone` | `152-164` |
| `HandlerSkip`, `HandlerStep`, `HandlerStepFails`, `HandlerDone` | `166-176` |
| `Commit` | `177` |
| `Boot` | `connect_init`, `load_config` when they succeed |
| `Submit`, `LoseConnection`, `Crash` | the environment |

State: `genlist` is the status column, `applied` the committed changes, `tx` the
uncommitted ones of the daemon's session; a lost session or a killed process
empties `tx`, as the server does. `conn` is `g_db_con`, `stale` tells that
`ctx.con` is a handle which `reconnect()` has freed. `reqId`, `reqSuccess` and
`reqData` are the request members; `reqData` remembers only *which job* wrote a
member. `twice`, `delivered`, `unseen` and the `by` of a file are history: `unseen`
are the uploads that returned 0 although the whole file was not sent.

The configuration is a constant. `WellFormed` names what the rows must be like
for the properties: sorted by `exec_type`; the status set by handler steps that
cannot succeed without the change. The code checks none of this. Nothing is
assumed of which step writes a member or a file before another one reads it:
`OwnInputs` and `DoneMeansDelivered` say themselves which reads and which uploads
they are about.

### Daemon

`main()` step by step, from the start of the program (before `init_signals`
SIGUSR1 kills it) through `connect_init`, `load_config` and the loop, to
`sleep(1800)` and `execv`. `Sigusr1` may come between any two steps where
`SignalAt` allows it. `db_reload` is split where its two readings and the
assignment `sys_exit = 0` leave room for a signal. Its missing `return`
(`db_hander.c:292`) is the choice `ReloadValue`. `asked` is history: whether a
signal is waiting for a reading of the tables that began after it. A job run on
a `g_fun_config_len` of -1 may kill the process: `bsearch` takes the -1 as an
unsigned count.

### FtpUpload

One call of `upload()`. An attempt can fail before the server touches the file,
after any part of the data, or after all of it. Files are sequences of bytes.
`readfunc` asks for an error before it reads, so an error shows at its next call
only, and one that brings no bytes ends the transfer as a success (`ReadFails`).
`bad` is `ferror`: it stays set, and a later attempt is aborted at its start.
`own` is history: nothing of an older remote file is left. Assumed of the
server: it answers SIZE for every file it has.

### ConfigSearch

The bisection of the C library's `bsearch` with the comparison
`search_compare_fun_config_min`, then the count of `process()`. The table is
sorted by url, as the statement's `order by` delivers it; that the database
sorts as `strcmp` compares is assumed.

### FtpDownload and FileTransfer

`download()` does not retry. It appends to the local file what the server has
behind that file's size. A job whose step failed is committed as failed and is not
run again (`Decide`). Run again is a job whose status was not committed: the
process was killed, the session lost, or a handler step rolled back (`Kill`,
`Undecided`). These calls, and those of later jobs for the same file, together are
the retry. `pending` is the row's status `'0'`. `saved` is what the disk holds of `local`; a
kill, and a disk that is full at `fclose`, lose the rest. `FileTransfer` is what
the job processing relies on: the copy grows, is a beginning of the file, and is
whole when success is reported. `own` excludes an older file of the same name,
`lost` the last buffer that `fclose` could not write and nobody asked about.

### TwoSessions

Any number of daemons with overlapping lists. A main step updates a row and
locks it until commit or rollback; who meets a lock waits; Oracle (external)
makes a statement in a circle of waiting sessions fail. The status statement is
configuration. It is taken to ask for the row that is still pending, so that
`module_update` finds no row, and fails, when another daemon was first. Without
that condition both would commit. The mutant `AnyRow` is that statement.

### JsonRefs

A heap of numbered objects with counts. `Executed` is what each module does to
the members: it makes lists, adds rows, shares members between request and
response (`copy`), wraps rows that are no objects (`batch_callproc`). An addition
to something of the wrong kind spoils the null object. `module_del` is modelled
but left out of the checked steps: it puts a member that the request still
holds, so that any use of it breaks the counts.

A put frees objects, which puts what they hold, and so on. `Freed` says which:
it begins with no object and adds, round by round, those whose owners have all
been put (`Dying`); as many rounds as there are objects are enough. The headers of
json-c promise the count and the freeing, not an order, and the heap that is left
does not depend on one.

Which member a step reads and writes is configuration, and json-c does not check
it. The constant `Schema` is what the steps of a configuration agree on: the kinds
of objects, each with its type, the kinds of its members or rows, and a depth;
`Agrees` says, module by module, what a step needs of them. The depths exclude an
object that comes to hold itself, which no count can free: a `copy` of a member
into itself, or of a list into its own rows. A column of a result
stands for all columns of it.

### Statement

One `sql_execute`: made, prepared, bound, executed, fetched, freed; each handler
decides what is kept and whether to go on. The error code after the last fetch
is what tells an end from an error. An export's row is one `write`.

### ExportXls, SelectPages, JsonFile, SqlText, RuleWhere

Small machines, one call each (`SelectPages`: several calls of a cycle). The
book library refuses a cell outside the sheet and the code does not look:
`BookComplete` says which rows are then missing. `JsonFile` writes in pieces and
may be killed after each; units are tagged with the version they are part of, so
that a mixture is visible. Neither of its functions has a caller in this program,
nor has `load_data_rule`. `SqlText` knows four kinds of characters.

`RuleWhere` uses tokens. A rule is a list of entries that may hold lists again;
`Nested[d]` are the rules with at most `d` lists within each other, for any
`Depth`, and `Inner[d]` is what the loop of `gen_group_where` prints of each, with
the texts of the nested lists from level `d - 1`. That is the recursion of the
code, bottom up. What can be read is said by the grammar and not by the code: an
operand begins where one may begin and ends where one may end (`Adjacent`), and
parentheses are balanced. `Clean` says which rules that is true of, `Conditions`
what a rule's conditions are.

### DataAcl

The access rows come sorted by role and, in a role, by operation downwards; "*"
is smaller than every letter and digit. `Restricts` says without any flag what
should be applied. What the query yields is any sorted list, and which rules are
loaded is any set.

### Calls and MCCalls

The daemon has one thread, so two calls of these functions never overlap. `call`
chooses which one a behaviour makes, and the variables of the others rest; the
properties of each machine are required while its call is made. `Calls` has the
search, `Statement`, `SqlText`, `JsonFile`, `ExportXls`, `SelectPages` and
`RuleWhere`, with every bound a constant, and the cycles of `process()` itself
with what their steps do to the json objects, `JsonRefs`. `MCCalls` gives the
values.

The assumptions on the constants say what the code's types and constants say.
`StatementAssumption`: limits are numbers, and a row that is exported takes a
byte at least, its line end. `TextAssumption`: a text is a sequence of the four
kinds of characters. `FileAssumption`: an object's text is not empty; the buffer
may have any size, 0 too. `ExportAssumption`: sheet numbers, first cells and
widths are whatever `atoi` makes of a text, negative ones too.
`PagesAssumption`: the same of page and size, or no member at all.
`RuleAssumption`: the depth of the rules has a bound, which may be any number; an
entry's tag and list may be anything. `ObjectsAssumption`: the steps are any that
agree on kinds which lie in order (`KindsInOrder`, `StepsAgree`), as the rows of a
working configuration do; the steps of `MCCalls` are of all modules that work on
the objects but `module_del`.

## 3. Runs

| Run | Kind | What it shows |
|---|---|---|
| `JobSafety` | pass | `AllOrNothing`, `AtMostOnce`, `DoneMeansDelivered`, `OwnInputs` and the refinement of `JobLedger`, under all faults, noticed or not, kills, lost and wedged sessions |
| `JobProgress` | pass | `DecidedWhenCalm`: liveness |
| `TwoDaemons` | pass | `WorkedOnce`, the refinement of `JobLedger`, and `DecidedInTheEnd`: liveness, deadlocks included |
| `DaemonSafety` | pass | `UnusableTablesRetried`, `HandleUsable` |
| `DaemonProgress` | pass | `RestartsWhenUp`, `ReloadServed`: liveness |
| `UploadWhole` | pass | `SentWhole`, the refinement of `FileTransfer` |
| `DownloadWhole` | pass | `CopyIsBeginning`, the refinement of `FileTransfer`, `WholeInTheEnd`: liveness |
| `AclRules` | pass | `ExactlyRestricted`, `NothingSkipped` |
| `Calls` | pass | the eight machines of `MCCalls`: each property of section 4's last argument, and `CallsReturn`: termination |
| `LiveHandle` | violation | steps run on the freed handle after a reconnection |
| `RestartPromised` | violation | a signal at the wrong moment cancels the restart |
| `DownloadResume` | violation | a download continues an older file |

Bounds, and why they are enough:

- `JobSafety`: three jobs of three kinds and a list of two rows (`MaxDownFile`),
  so that the list overflows, a cycle has a second job that finds the first
  one's members, and a job waits for the next cycle. The kinds use a select, a
  procedure, an insert, update and batch delete with row checks and conditions,
  an export and an upload, guarded handler steps, a step of an unused type and a
  step that names no module. One file name is shared by all. No counter is
  bounded: the history variables are finite, and cycles repeat.
- `JobProgress`: one job of an unconfigured kind stays in the list all the time
  and leaves one place of two for the others. Sessions are lost and wedged.
  `Calm` asks that the session is not wedged for ever: an error outside the six
  codes of `sql_error_handler` never leads to a reconnection, no job is decided
  until the process is restarted, and without this condition the property is
  false, in the model as in the code. `Faults` leaves out statements that fail
  and rows that are missing, since a statement that fails again and again keeps a
  job pending. Its kinds have no guarded step: with one, the uninitialised `ret`
  can fail every run of the job's handler, and the property is false.
- `TwoDaemons`: two daemons, and two jobs that update the same two rows in
  opposite orders: the smallest instance in which sessions wait in a circle.
- `Daemon*`: the state space is finite without bounds. The runs differ in where
  a signal may come: anywhere (`AllPlaces`), or neither in the start-up, nor in
  the restart's check, nor while `db_reload` works (`QuietReload`).
- `UploadWhole`: four attempts (the code passes three), a local file of three
  different bytes, so that a lost, repeated or displaced part differs from the
  whole, and older files that are shorter and longer. A call ends, so deadlock
  is not checked here and in `Calls`.
- `DownloadWhole`: four different bytes, any number of calls, and older files
  that are shorter than, as long as and longer than the remote one.
- `AclRules`: two roles, three rules, two operations and "*", every sorted list
  of up to four rows for an array of three.
- `Calls`: all sorted tables of at most five rows over three urls, which contains
  every position and size of a group of equal rows relative to the middle;
  results of up to three rows with limits of one and two and room for none to
  all of the rows; all texts of up to six characters; objects shorter than the
  read buffer, as long, and longer; two queries that overlap, are on other
  sheets, or end below the last row; two page queries on tables that change;
  rules three levels deep; cycles of up to five jobs and steps (`MaxWork`), such as
  two jobs with three steps between them, with selects that find a row or none
  (`MaxFetched`): enough for a list that is replaced while a copy of it is held,
  and for a step that finds what an earlier job or a failed step has left.

Fairness. `JobProcessing!FairSpec` has weak fairness of the daemon's own steps:
`main()` loops for ever, each call returns (statements and transfers have no
other bound, a hanging call is outside the model). `Boot` is fair too: an
operator or `execv` starts the program again. `DecidedWhenCalm` asks only for
runs in which connections stop failing and nobody kills the process.
`Daemon!FairSpec` has weak fairness of `main()`'s steps, but not of a load on
the freed handle, which may fail for ever. `ReloadServed` and
`RestartsWhenUp` say which server and connection behaviour they need; the run
sets `Faults` to the empty set, since weak fairness would otherwise force a
faulty statement to succeed at last. `Stops` is false there: nobody runs
`stop.sh`. `TwoSessions` and `FtpDownload` have weak fairness of each daemon's
steps and, for a pending job, of the call: a cycle runs what `FILE_SQL` lists, the
rows with status `'0'`, and so never a job that was committed as failed. Their
liveness begins at `calm`, from where nothing fails. In `Calls` the steps of a
search, a scan, a saving and a loading are fair, a write that takes at least one unit included: `write()` does
not take nothing for ever.

### Disagreements found

By a run:

1. `LiveHandle`: `ctx.con` is set at line 129, and line 131 may free that very
   handle; the whole cycle then uses it, while rollback and commit use the new
   connection.
2. `RestartPromised`: "restarts by itself after 30 minutes" (`main.c:132`); a
   SIGUSR1 between lines 125 and 130 makes `main()` return instead.
3. `DownloadResume`: "opened for appending, to resume" (`updown.c:115`); what is
   continued is whatever file has the local name.

Seen while modelling, as exceptions in properties that hold, or in a hazard's
note:

4. The comments `file_generate.c:151` and `165` call the two loops transaction 1
   and transaction 2. There is one transaction: the rollback at line 172, after
   a handler step failed, undoes the main steps' work. `AllOrNothing` is about
   the one.
5. `while(load_config() < 0)` (`main.c:115`) retries on the connection that the
   failed attempt freed. `HandleUsable` is about the loop behind it, and about
   `g_db_con` only: `ctx.con` is disagreement 1.
6. The length that an upload's retry asks for (`updown.c:66`) may be that of an
   older file; the result is a mixture, and `upload()` returns 1. `own` excepts
   it from `SentWhole`.
7. `module_del` puts what the request still holds (`process_util.c:1281`).
8. When the job list cannot be read (`file_generate.c:134`), `process()` returns
   without putting request and response. `CycleReleases` excepts that cycle.

9. A row may say done although its file was not sent, or not whole.
   `module_upload` takes only a negative result for an error
   (`process_util.c:1313`), and `upload()` returns 0 whenever `fopen` fails
   (`updown.c:40-43`); a read error that brings no bytes is the end of the file
   (`updown.c:29-31`), and the result 1; the row that `write()` takes only in part
   is no error either (`process_util.c:201`). `DoneMeansDelivered` excepts these
   (`unseen`), `SentWhole` the read error (`bad`), and both hold for everything
   else. `DeliveredWhenNoticed` is the same without the exceptions, for an
   environment that has none of these failures. No document of the repository
   says otherwise, so no run refutes one.

`DoneMeansDelivered` is about uploads without a condition of files that an earlier
main step of the job exported last (`UploadsExport`); another job's or an older
file is not this job's to send whole. It says that the file was handed over by an
upload that returned success; number 6 is when that is not the same file on the
server.

## 4. Proofs

| Theorem | States |
|---|---|
| `JobProcessingProofs!ExecuteConfigOutcome`, `CertainWrites` | outcomes are well typed; success of a certain step implies its change |
| `JobProcessingProofs!TypeAndSession`, `JobTypeOK` | types and `SessionInv`, the inductive invariant |
| `JobProcessingProofs!AtMostOnceHolds`, `AllOrNothingHolds` | the two properties of the transaction |
| `JobProcessingProofs!DoneMeansDeliveredHolds`, `OwnInputsHolds` | what done and a member stand for, with the exceptions named in the properties |
| `JobProcessingProofs!DeliveredWhenNoticed` | what done stands for where no failure goes unnoticed |
| `JobProcessingProofs!LedgerImplemented` | `Spec => ImplementsLedger` |
| `TwoSessionsProofs!SessionsTypeAndInv`, `SessionsTypeOK`, `WorkedOnceHolds`, `LedgerImplemented` | the same promise, for any number of daemons |
| `DaemonProofs!DaemonTypeAndInv`, `DaemonTypeOK`, `UnusableTablesRetriedHolds`, `HandleUsableHolds` | safety of the daemon |
| `FtpUploadProofs!UploadTypeAndInv`, `UploadTypeOK`, `SentWholeHolds`, `PrefixHolds`, `SendingImplemented` | safety of the upload, and that it implements `FileTransfer` |
| `FtpDownloadProofs!DownloadTypeAndInv`, `DownloadTypeOK`, `CopyIsBeginningHolds`, `ReceivedWholeHolds`, `TransferImplemented` | safety of the download, and that it implements `FileTransfer` |
| `CallsProofs!SearchTypeAndInv`, `StepsOfUrlHolds` | correctness of the search |
| `CallsProofs!ResultTellsHolds`, `AllBoundHolds` | what a result of `sql_execute` stands for, and what it was executed with |
| `CallsProofs!ValuesInPlaceHolds` | correctness of `gen_sql`, for texts of any length |
| `CallsProofs!SavedIsWholeHolds`, `LoadedIsWholeHolds` | a saved file is whole; no step loads a mixture |
| `CallsProofs!WholeBookOrNoneHolds` | an export leaves the whole book or none |
| `CallsProofs!PagesJoinHolds` | pages put the table together |
| `CallsProofs!ReadableIffCleanHolds` | correctness of `gen_group_where`, for rules of any length and depth |
| `JsonRefsProofs!CountsExactHolds` | every json object's count is the number of its holders, and no freed one is held |
| `JsonRefsProofs!CycleReleasesHolds` | a cycle leaves no object behind |
| `JsonRefsProofs!KindsRespectedHolds` | nothing is added to an object of the wrong kind |
| `JsonRefsProofs!CallTypesHolds` | the types of every call |
| `DataAclProofs!AclTypeAndInv`, `AclTypeOK`, `ExactlyRestrictedHolds`, `NothingSkippedHolds` | correctness of the pass over the access rows |

They hold for every number of jobs and daemons, every well-formed configuration,
every subset of the faults, every local and remote file, every number of
attempts, every sorted table, every list of access rows, every number of rows
and placeholders, every text, every rule, every list of export queries, every
table that is read by pages of any sizes, and every set of steps that agree on
the kinds of their members, with any number of rows, jobs and steps in a cycle.
The inductive invariants (`SessionInv`, `SessionsInv`, `DaemonInv`, `UploadInv`,
`DownloadInv`, `SearchInv`, `AclInv`, `StatementInv`, `ScanInv`, `FileInv`,
`BookInv`, `PagesInv`, `RuleInv`, `RefsInv`) are proved, and not repeated in the
runs.

The argument for the jobs. `AtMostOnce` and `AllOrNothing` are not inductive:
nothing in them says what an open transaction contains. `SessionInv` does, phase
by phase. `TxOwn`: it holds only changes of the job in hand, by steps already
passed, and none without a connection. `MainPhase`: while the main loop runs on
a live connection, every certain step that was passed has its change in it.
`SuccessIsTx`: in the handler loop "success" = 0 means no main change is in it,
and "success" = 1 that all certain ones are. `CommitSetsStatus`: what reaches
the commit and is not empty sets the status. `AppliedDecided`: committed changes
belong to decided jobs. A commit therefore publishes changes of a pending job,
none of which was committed before, together with its status, and all main
changes or none as the status says. The refinement needs the same facts: a
commit that sets a status is the ledger's `Complete` or `Fail`, every other step
but `Submit` a stutter. Every action is one lemma or one step of a lemma.

`DoneMeansDelivered` and `OwnInputs` follow from a second invariant,
`DeliveryInv`: while the main loop runs, every certain step that was passed has
left its member or its file with the mark of the job in hand, the file whole or
cut unnoticed, and every upload of such a file that was passed is in `delivered`
or in `unseen`. A file that a step left keeps its mark up to the next step that
names it, which is why `UploadsExport` asks for the last export. The commit then
carries the fact over to the status. Without the fault `quiet` no file is ever cut
and `unseen` stays empty (`NoneUnseen`), which gives `DeliveredWhenNoticed`.

The argument for several daemons. A transaction with the status in it holds the
lock on a row that is still pending. Two daemons cannot both have it, and nobody
else can change that row; so the commit is of a pending job. Main work never
reaches the commit without the status, since the handler step that finds no row
rolls both back.

The argument for the daemon: on the way into the loop (`pc = "check"` with
`sys_exit = 0`) handle and tables are good; only a failed reconnection makes the
handle null, and it leads out of the loop; a failed reload leaves `sys_exit` at
1. For the upload: the remote file is a prefix of the local one, the size
just received is its length, and an attempt without a read error is a success only
with everything sent. For the download: the transfer stands in the remote
file where the local one ends, and each part that arrives extends a beginning to
a longer one; a kill cuts it to a shorter one. For the search: the row before
the interval is of a smaller url, and the row behind it is of a greater one or
not the first of its url; with sorted rows an empty interval then has no row of
the url, without any induction. For the access rows: the flag is 1 exactly when
a row of the current role with the operation at hand has been seen, and because
"*" sorts last, that is the case at a "*" row exactly when there is any.

The argument for the calls. Each has an inductive invariant, written under "Why"
in its module; `OneCall` says that a step of `CallsNext` is a step of the machine
that was called, so that the invariant of each is one of `CallsSpec`.

- `StatementInv`: what was bound so far is the value for each place, or empty
  where there is none (`BoundSoFar`); what the handler kept are the rows fetched,
  up to its limit, as long as it did not fail (`KeptSoFar`); and when the
  statement is freed, the error flag says whether anything but the handler failed
  (`Progress`).
- `ScanInv`: a token begins outside all literals and outside names, the
  placeholders before it are as many as were counted and have names, and the
  output is `Output(idx - 1)`. `Output` and `Outside` speak of the whole text and
  of no token, so most of the proof is about what a token is: a literal ends at a
  position with an even number of quotes before it, and every position in it that
  is no quote has an odd number (`LiteralToken`); a run of characters ends at the
  first other one (`BehindEnds`).
- `FileInv`: the file is at all times a beginning of one version's text, kills
  included (`OneText`), while it is written exactly up to the position (`Saving`),
  and what was read of a file that fits the buffer is its beginning (`Loading`).
- `BookInv`: the cells of the open book are exactly those of the rows fetched so
  far, each written by the last query that has a row there (`InPlace`), and what
  the file is follows from where the call stands (`BookSteps`).
- `PagesInv`: as long as pages are asked for in turn, the array is the table up to
  where they have got, and the next page begins there.
- `RuleInv`: the text is that of the rule, or not made yet. All the work is in
  what that text is, level by level (`LevelTexts`), and in a level entry by entry.
  A beginning of a list's text is empty or begins like an operand and ends in lo,
  behind which the next operand fits; so only the last entry decides how the list
  ends, and a list is made of operands exactly when that entry prints something
  and all nested lists are made of operands (`JoinedOperands`). A text with nothing
  in its parentheses does not fit together (`OperandsOfGroup`), which is why an
  empty nested list spoils the whole. Balance and the number of conditions are
  kept by every joining (`BalancedConcat`, `TotalConcat`), clean or not.

The argument for the json objects. `CountsExact` is not inductive on its own. The
steps of a module give a heap with objects whose maker still owns them, so the
counts must be right with owners outside the heap: `Good(h, c, ty)` says that each
count is what the heap holds plus `c`, and that each object is of the kind that
`ty` gives it and so are its members. And a put must not free what the module goes
on using. `Fit(h, c, F, ty)` adds a set `F` of entries that stay where they are: its
holders are owned from outside or held by another entry of `F`. What is owned
outside or held by an entry of `F` is firm (`Firm`).

- `PutFit`: `Freed` is the least set that is closed under `Dying` (`FreedFixed`), and
  the complement of the firm objects is closed, so that a put frees nothing firm;
  what is left has exact counts, because the put was counted once for the owner
  and once for every entry of a freed object (`PutsCounted`).
- `AddGood`: a member that takes the place of another one. The old value is put
  first, with the entry still there: the proof takes the entry out of the count
  before (the `X` of `Counted`) and puts it in again afterwards (`SettledGood`). The
  same lemma serves `batch_copy` and the wrapper of `batch_callproc`, which add first
  and take the owner afterwards (`ShareFit`): `c` may be -1 in between.
- Every module is then one lemma (`SelectOneFit`, `SelectListFit`, `SelectPageFit`,
  `CallProcRowFit`, `CopyFit`, `BatchCopyFit`), which says which entries it pins: the
  list it has just made, the input, and for a batch all rows of the array
  (`RowPins`), so that no call on one row frees another (`BatchFit`). Kinds of
  different depths show that no step replaces an entry that is pinned.
- `RefsInv`: in a cycle the heap is `Fit` with one owner each for request and
  response; between cycles it is empty, or, after an abandoned one, `Good` for some
  owners. At the end both are put and nobody owns anything. If an object were left,
  one of the least depth would be, with a count of one at least; what holds it is
  less deep, which is a contradiction (`NobodyEmpty`). That is `CycleReleases`.

A scan of a text and a flattening of sequences are recursive functions. The
library's induction needs an operator for a parameter; `CallsProofs` uses a set of
numbers instead: `SetInduction` follows from a least element of its complement.
That the recursive functions exist (`FlattenExists`, `LiteralScan`, `NestedLevels`
and the three that follow; `FreedRounds`, `FetchedRounds`, `BatchedRounds` for the
heap) is proved the same way, since a recursive definition is a `CHOOSE` that could be of nothing.

Assumptions: the named `ASSUME`s of the modules, which TLC evaluates in every
run of a module that extends them.

Only model-checked: all liveness (`DecidedWhenCalm`, `DecidedInTheEnd`,
`RestartsWhenUp`, `ReloadServed`, `WholeInTheEnd`, `CallsReturn`), which is out
of the prover's reach. Every safety property of a passing run is a theorem.

## 5. Not modelled

- `mkdirs`, `get_current_date`, `gen_uuid`, `search_fun_info`,
  `generate_log_id`, `write_oper_log`, `str_replace` and `strsplit`: defined and
  never called.
- The texts of statements, parameters and log lines, and the widths of the
  arrays they are copied to; the decryption of the password.
- The vendored headers: only declarations are here, the code behind them is
  prebuilt. They are a large part of the lines under `src/`, and the models have
  their functions only as external definitions.
- A call that hangs: neither statements nor transfers have a time limit.

## 6. What is left

1. The widths of the arrays that names are copied to (`file_generate.c:84`,
   `139`), as bounded lengths.
