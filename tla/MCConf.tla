------------------------------- MODULE MCConf -------------------------------
(***************************************************************************)
(* Every configuration file of a few lines.                                *)
(***************************************************************************)
EXTENDS Conf

Text(t) == [text |-> t, nums |-> <<>>, sep |-> " "]
Numbers(s, sep) == [text |-> "numbers", nums |-> s, sep |-> sep]

ValueTexts == {"", "numbers", "vm", "container", "cloud", "dynamic", "lsf", "/tmp", "x",
               "log_debug"}

\* "numbers" stands for digits, which have no case.
UpperTexts ==
  [t \in ValueTexts |->
     CASE t = "vm" -> "VM"           [] t = "container" -> "CONTAINER"
       [] t = "cloud" -> "CLOUD"     [] t = "dynamic" -> "DYNAMIC"
       [] t = "lsf" -> "LSF"         [] t = "/tmp" -> "/TMP"
       [] t = "x" -> "X"             [] t = "log_debug" -> "LOG_DEBUG"
       [] OTHER -> t]

QueueNames == {"vm_queue", "VM_QUEUE", "night"}
FoldNames == [n \in QueueNames |-> IF n = "VM_QUEUE" THEN "vm_queue" ELSE n]

QueueSections == {Section("queue", "vm_queue"), Section("queue", "VM_QUEUE"),
                  Section("queue", "night")}

QueuePairs == {Pair("type", Text("container")), Pair("type", Text("cloud")),
               Pair("name_space", Text("dynamic")),
               Pair("borrow_factor", Numbers(<<5, 2>>, " ")),
               Pair("borrow_factor", Numbers(<<-5>>, " "))}

ParamPairs == {Pair("scheduler", Text("lsf")), Pair("work_dir", Text("/tmp")),
               Pair("workload_timer", Numbers(<<60>>, " ")),
               Pair("log_mask", Text("log_debug")), Pair("unknown", Text("x"))}

\* The file of the document: commas in the borrow factor.
DocumentLines == {Section("queue", "vm_queue"), Section("params", NoName),
                  Pair("type", Text("vm")), Pair("name_space", Text("dynamic")),
                  Pair("borrow_factor", Numbers(<<5, 2>>, ","))}

AllLines ==
  QueueSections \cup QueuePairs \cup ParamPairs \cup
  {Section("queue", NoName), Section("params", NoName), Section("resbd", NoName),
   Pair("port", Numbers(<<-1>>, " ")), Skipped, Broken}
=============================================================================
