-------------------------------- MODULE Conf --------------------------------
(***************************************************************************)
(* The configuration of resbd: the line parser of ini.c and the handler    *)
(* that conf.c gives it.  One step reads one line; a line is what the      *)
(* parser's scan of it yields, comments and white space taken off.         *)
(***************************************************************************)
EXTENDS Integers, Sequences, FiniteSets

CONSTANTS Lines,    \* the lines a file may hold
          MaxLines, \* bound: the lines of a file
          Texts,    \* what may stand to the right of a '='
          Names,    \* queue names as they are written
          Fold,     \* a name as strcasecmp sees it
          Upper,    \* a text after toupper
          NoName,   \* a queue section with one word
          NoValue   \* a pointer that is still NULL

ResbdKeys == {"host", "port"}
ParamKeys == {"scheduler", "work_dir", "container_runtime", "vm_runtime",
              "workload_timer", "log_mask"}
QueueKeys == {"type", "name_space", "borrow_factor"}
Keys == ResbdKeys \cup ParamKeys \cup QueueKeys \cup {"unknown"}

\* A value: its text, the numbers in it and what stands between them.
Val == [text : Texts, nums : Seq(Int), sep : {" ", ","}]

NoVal == [text |-> "", nums |-> <<>>, sep |-> " "]

Section(sec, name) == [kind |-> "section", sec |-> sec, name |-> name, key |-> "unknown", val |-> NoVal]
Pair(key, val) == [kind |-> "pair", sec |-> "other", name |-> NoName, key |-> key, val |-> val]
Skipped == [kind |-> "skip", sec |-> "other", name |-> NoName, key |-> "unknown", val |-> NoVal]
Broken == [kind |-> "bad", sec |-> "other", name |-> NoName, key |-> "unknown", val |-> NoVal]

Line == [kind : {"section", "pair", "skip", "bad"},
         sec : {"resbd", "params", "queue", "other"},
         name : Names \cup {NoName}, key : Keys, val : Val]

ASSUME TextsAssumption == "" \in Texts

ASSUME ConfAssumption ==
  /\ Lines \subseteq Line
  /\ MaxLines \in Nat
  /\ NoName \notin Names
  /\ Fold \in [Names -> Names]
  /\ DOMAIN Upper = Texts

VARIABLES file,     \* history: the lines read
          status,   \* "reading", "done", "error": ini_parse_file; "none": no file
          section,  \* the section of the line being read
          address,  \* res->host and res->port
          params,
          queues

confVars == <<file, status, section, address, params, queues>>

-----------------------------------------------------------------------------
\* Conversions.

\* atoi.
Atoi(val) == IF val.nums = <<>> THEN 0 ELSE val.nums[1]

\* Mutant: both numbers are taken to be there.
ReadFactor_Unchecked(old, val) == val.nums

\* sscanf(val, "%d %d"): it stops at the first thing that is no number, and a
\* comma is none.  What it does not reach keeps its value.
ReadFactor(old, val) ==
  IF Len(val.nums) = 0 THEN old
  ELSE <<val.nums[1],
         IF Len(val.nums) = 1 \/ val.sep = "," THEN old[2] ELSE val.nums[2]>>

\* The second of the two tests on "type".
QueueType(val) ==
  CASE val.text = "container" -> "containers"
    [] val.text = "cloud" -> "cloud"
    [] OTHER -> "vms"

-----------------------------------------------------------------------------
\* conf.c.

\* Mutant: strcmp for strcasecmp.
Same_CaseMatters(n, m) == n = m
Same(n, m) == Fold[n] = Fold[m]

Known(n) == \E i \in DOMAIN queues : Same(n, queues[i].name)

Queue == [name : Names, type : {"vms", "containers", "cloud"},
          ns : Texts \cup {NoValue}, factor : Int \X Int]

NewQueue(n) == [name |-> n, type |-> "vms", ns |-> NoValue, factor |-> <<0, 0>>]

\* get_queue_by_name: the list with that queue in it.
WithQueue(n) == IF Known(n) THEN queues ELSE Append(queues, NewQueue(n))

\* Mutant: the type is assigned by the first test only.
Configured_TwoTypes(q, key, val) ==
  CASE key = "type" -> [q EXCEPT !.type = IF val.text = "vm" THEN "vms" ELSE "containers"]
    [] key = "name_space" -> [q EXCEPT !.ns = val.text]
    [] key = "borrow_factor" -> [q EXCEPT !.factor = ReadFactor(@, val)]
    [] OTHER -> q

\* init_queue on queue q.
Configured(q, key, val) ==
  CASE key = "type" -> [q EXCEPT !.type = QueueType(val)]
    [] key = "name_space" -> [q EXCEPT !.ns = val.text]
    [] key = "borrow_factor" -> [q EXCEPT !.factor = ReadFactor(@, val)]
    [] OTHER -> q

\* set_default_params: everything but the working directory.
Defaults(p) ==
  [p EXCEPT !.scheduler = "slurm", !.container_runtime = "docker", !.vm_runtime = "virsh",
            !.workload_timer = 30, !.log_mask = "LOG_INFO"]

ParamValue(key, val) ==
  CASE key = "workload_timer" -> Atoi(val)
    [] key = "log_mask" -> Upper[val.text]
    [] OTHER -> val.text

\* Mutant: the defaults are set after the key, not before it.
WithParam_DefaultsLast(key, val) ==
  IF key \in ParamKeys THEN Defaults([params EXCEPT ![key] = ParamValue(key, val)])
  ELSE Defaults(params)

\* init_params.  The defaults are set again for every key of the section.
WithParam(key, val) ==
  IF key \in ParamKeys THEN [Defaults(params) EXCEPT ![key] = ParamValue(key, val)]
  ELSE Defaults(params)

-----------------------------------------------------------------------------
\* The parser.

Read(line) ==
  /\ status = "reading"
  /\ Len(file) < MaxLines
  /\ file' = Append(file, line)

SkipLine ==
  /\ Skipped \in Lines /\ Read(Skipped)
  /\ UNCHANGED <<status, section, address, params, queues>>

SectionLine ==
  \E line \in Lines :
    /\ line.kind = "section"
    /\ Read(line)
    /\ section' = line
    /\ UNCHANGED <<status, address, params, queues>>

\* No ']' in a section line, or neither '=' nor ':' in another: the parser stops.
BrokenLine ==
  /\ Broken \in Lines /\ Read(Broken)
  /\ status' = "error"
  /\ UNCHANGED <<section, address, params, queues>>

\* init_resbd: the only handler that fails, on a key it does not know.
ResbdLine ==
  \E line \in Lines :
    /\ line.kind = "pair" /\ section.sec = "resbd"
    /\ Read(line)
    /\ address' = CASE line.key = "host" -> [address EXCEPT !.host = line.val.text]
                    [] line.key = "port" -> [address EXCEPT !.port = Atoi(line.val)]
                    [] OTHER -> address
    /\ status' = IF line.key \in ResbdKeys THEN "reading" ELSE "error"
    /\ UNCHANGED <<section, params, queues>>

ParamsLine ==
  \E line \in Lines :
    /\ line.kind = "pair" /\ section.sec = "params"
    /\ Read(line)
    /\ params' = WithParam(line.key, line.val)
    /\ UNCHANGED <<status, section, address, queues>>

\* In a section with one word sscanf leaves qname as it was on the stack: the
\* name of the last call, or anything.
QueueLine ==
  \E line \in Lines, n \in Names :
    /\ line.kind = "pair" /\ section.sec = "queue"
    /\ section.name \in {n, NoName}
    /\ Read(line)
    /\ queues' = [i \in 1 .. Len(WithQueue(n)) |->
                    LET q == WithQueue(n)[i]
                    IN  IF Same(n, q.name) THEN Configured(q, line.key, line.val) ELSE q]
    /\ UNCHANGED <<status, section, address, params>>

\* A section that nobody knows, or no section yet: what is in the buffer then is
\* taken to name none.
OtherLine ==
  \E line \in Lines :
    /\ line.kind = "pair" /\ section.sec = "other"
    /\ Read(line)
    /\ UNCHANGED <<status, section, address, params, queues>>

EndOfFile ==
  /\ status = "reading"
  /\ status' = "done"
  /\ UNCHANGED <<file, section, address, params, queues>>

\* fopen fails.  main goes on, as it does after an error.
NoFile ==
  /\ status = "reading" /\ file = <<>>
  /\ status' = "none"
  /\ UNCHANGED <<file, section, address, params, queues>>

\* calloc.
Unset == [[k \in ParamKeys |-> NoValue] EXCEPT !.workload_timer = 0]

ConfInit ==
  /\ file = <<>>
  /\ status = "reading"
  /\ section = Skipped
  /\ address = [host |-> NoValue, port |-> 0]
  /\ params = Unset
  /\ queues = <<>>

ConfNext ==
  \/ SkipLine
  \/ SectionLine
  \/ BrokenLine
  \/ ResbdLine
  \/ ParamsLine
  \/ QueueLine
  \/ OtherLine
  \/ EndOfFile
  \/ NoFile

ConfSpec == ConfInit /\ [][ConfNext]_confVars

-----------------------------------------------------------------------------
\* Every variable has its type.
ConfTypeOK ==
  /\ file \in Seq(Line)
  /\ status \in {"reading", "done", "error", "none"}
  /\ section \in Line
  /\ address \in [host : Texts \cup {NoValue}, port : Int]
  /\ DOMAIN params = ParamKeys /\ params.workload_timer \in Int
  /\ queues \in Seq(Queue)

\* What the file says, from its lines alone.
Last(S) == CHOOSE i \in S : \A j \in S : j <= i

PairLines == {i \in 1 .. Len(file) : file[i].kind = "pair"}

SectionOf(i) ==
  LET above == {j \in 1 .. i - 1 : file[j].kind = "section"}
  IN  IF above = {} THEN Skipped ELSE file[Last(above)]

LinesIn(sec, keys) ==
  {i \in PairLines : SectionOf(i).sec = sec /\ file[i].key \in keys}

LinesOf(n, keys) ==
  {i \in LinesIn("queue", keys) : Fold[SectionOf(i).name] = Fold[n]}

EverySectionNamed ==
  \A i \in 1 .. Len(file) : file[i].kind = "section" /\ file[i].sec = "queue"
                              => file[i].name # NoName

\* However the names are written, whatever order the sections have and whatever
\* is left in qname, a queue exists once: its settings are never split over two
\* entries of the list.
OneQueuePerName ==
  \A i, j \in DOMAIN queues : Fold[queues[i].name] = Fold[queues[j].name] => i = j

\* The list holds the queues that the sections with a key name, in the order of
\* their first keys, each with the last type and name space the file gives it.
QueuesAsWritten ==
  EverySectionNamed =>
    /\ \A i \in LinesIn("queue", Keys) :
         \E j \in DOMAIN queues : i \in LinesOf(queues[j].name, Keys)
    /\ \A j \in DOMAIN queues :
         LET q == queues[j]
             types == LinesOf(q.name, {"type"})
             spaces == LinesOf(q.name, {"name_space"})
         IN  /\ LinesOf(q.name, Keys) # {}
             /\ q.type = IF types = {} THEN "vms" ELSE QueueType(file[Last(types)].val)
             /\ q.ns = IF spaces = {} THEN NoValue ELSE file[Last(spaces)].val.text
    /\ \A j, k \in DOMAIN queues : j < k =>
         \E i \in LinesOf(queues[j].name, Keys) :
           \A l \in LinesOf(queues[k].name, Keys) : i < l

\* Each parameter is what the last of its own lines says or the program's default
\* (unset before [params] has a line); it never comes from an earlier line, from
\* another key or from another section.  A line with no other line of [params] after
\* it is in force, and so is the last that names the working directory, for which
\* there is no default, whatever comes after it.
ParamsFromTheFile ==
  LET lines == LinesIn("params", Keys)
      default == IF lines = {} THEN Unset ELSE Defaults(Unset)
  IN  \A k \in ParamKeys :
        LET own == LinesIn("params", {k})
            said == own # {} /\ params[k] = ParamValue(k, file[Last(own)].val)
        IN  /\ said \/ params[k] = default[k]
            /\ own # {} /\ (k = "work_dir" \/ Last(own) = Last(lines)) => said

\* "every 5 jobs in the queue go and find 2 machines": a queue has the two
\* numbers of its borrow factor, as the shipped file and the document write them.
FactorAsWritten ==
  EverySectionNamed =>
    \A j \in DOMAIN queues :
      LET lines == LinesOf(queues[j].name, {"borrow_factor"})
      IN  lines # {} => queues[j].factor = file[Last(lines)].val.nums
=============================================================================
