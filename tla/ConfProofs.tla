----------------------------- MODULE ConfProofs -----------------------------
(***************************************************************************)
(* Proofs about Conf, for any lines, names and file length: one entry per  *)
(* queue, and the configuration in force is the one that the file says.    *)
(***************************************************************************)
EXTENDS Conf, SequenceTheorems, WellFoundedInduction, TLAPS

\* A sequence with two elements has a second one.
LEMMA SecondOfSeq ==
  ASSUME NEW s \in Seq(Int), Len(s) # 0, Len(s) # 1
  PROVE  s[2] \in Int
  <1>1. Len(s) \in Nat
    OBVIOUS
  <1>2. ASSUME NEW n \in Nat, n # 0, n # 1
        PROVE  2 \in 1 .. n
    BY <1>2
  <1>3. 2 \in 1 .. Len(s)
    BY <1>1, <1>2
  <1> QED
    BY <1>3

USE ConfAssumption

-----------------------------------------------------------------------------
\* What the conversions return.
LEMMA ConversionTypes ==
  ASSUME NEW val \in Val
  PROVE  /\ Atoi(val) \in Int
         /\ \A old \in Int \X Int : ReadFactor(old, val) \in Int \X Int
         /\ QueueType(val) \in {"vms", "containers", "cloud"}
         /\ val.text \in Texts
  <1>1. val.nums \in Seq(Int) /\ val.text \in Texts
    BY DEF Val
  <1>2. Len(val.nums) \in Nat /\ \A i \in 1 .. Len(val.nums) : val.nums[i] \in Int
    BY <1>1
  <1>3. Atoi(val) \in Int
    <2>1. CASE val.nums = <<>>
      BY <2>1 DEF Atoi
    <2>2. CASE val.nums # <<>>
      <3>1. 1 \in 1 .. Len(val.nums)
        BY <1>1, <2>2
      <3> QED
        BY <1>2, <2>2, <3>1 DEF Atoi
    <2> QED
      BY <2>1, <2>2
  <1>4. ASSUME NEW old \in Int \X Int
        PROVE  ReadFactor(old, val) \in Int \X Int
    <2>1. CASE Len(val.nums) = 0
      BY <2>1 DEF ReadFactor
    <2>2. CASE Len(val.nums) # 0
      <3>1. val.nums[1] \in Int
        BY <1>2, <2>2
      <3>2. old[2] \in Int
        OBVIOUS
      <3>3. CASE Len(val.nums) = 1 \/ val.sep = ","
        <4>1. ReadFactor(old, val) = <<val.nums[1], old[2]>>
          BY <2>2, <3>3 DEF ReadFactor
        <4> QED
          BY <3>1, <3>2, <4>1
      <3>4. CASE Len(val.nums) # 1 /\ val.sep # ","
        <4>1. val.nums[2] \in Int
          BY <1>1, <2>2, <3>4, SecondOfSeq
        <4>2. ReadFactor(old, val) = <<val.nums[1], val.nums[2]>>
          BY <2>2, <3>4 DEF ReadFactor
        <4> QED
          BY <3>1, <4>1, <4>2
      <3> QED
        BY <3>3, <3>4
    <2> QED
      BY <2>1, <2>2
  <1>5. QueueType(val) \in {"vms", "containers", "cloud"}
    BY DEF QueueType
  <1> QED
    BY <1>1, <1>3, <1>4, <1>5

\* A key changes the settings of its queue and never the name.
LEMMA ConfiguredQueue ==
  ASSUME NEW q \in Queue, NEW key, NEW val \in Val
  PROVE  Configured(q, key, val) \in Queue /\ Configured(q, key, val).name = q.name
  <1>1. q.factor \in Int \X Int
    BY DEF Queue
  <1>2. ReadFactor(q.factor, val) \in Int \X Int
    BY <1>1, ConversionTypes
  <1>3. QueueType(val) \in {"vms", "containers", "cloud"} /\ val.text \in Texts
    BY ConversionTypes
  <1>4. CASE key = "type"
    BY <1>3, <1>4 DEF Configured, Queue
  <1>5. CASE key = "name_space"
    BY <1>3, <1>5 DEF Configured, Queue
  <1>6. CASE key = "borrow_factor"
    BY <1>2, <1>6 DEF Configured, Queue
  <1>7. CASE key \notin {"type", "name_space", "borrow_factor"}
    BY <1>7 DEF Configured
  <1> QED
    BY <1>4, <1>5, <1>6, <1>7

\* The parameters keep their names, and the timer is a number.
ParamsOK == DOMAIN params = ParamKeys /\ params.workload_timer \in Int

LEMMA WithParamOK ==
  ASSUME ParamsOK, NEW key \in Keys, NEW val \in Val
  PROVE  /\ DOMAIN WithParam(key, val) = ParamKeys
         /\ WithParam(key, val).workload_timer \in Int
  <1>1. /\ DOMAIN Defaults(params) = ParamKeys
        /\ Defaults(params).workload_timer = 30
    BY DEF Defaults, ParamsOK, ParamKeys
  <1>2. CASE key \in ParamKeys
    <2>1. Atoi(val) \in Int
      BY ConversionTypes
    <2>2. WithParam(key, val) = [Defaults(params) EXCEPT ![key] = ParamValue(key, val)]
      BY <1>2 DEF WithParam
    <2>3. CASE key = "workload_timer"
      BY <1>1, <2>1, <2>2, <2>3 DEF ParamValue, ParamKeys
    <2>4. CASE key # "workload_timer"
      BY <1>1, <2>2, <2>4 DEF ParamKeys
    <2> QED
      BY <2>3, <2>4
  <1>3. CASE key \notin ParamKeys
    BY <1>1, <1>3 DEF WithParam
  <1> QED
    BY <1>2, <1>3

-----------------------------------------------------------------------------
\* The queue's entry is found, or added at the end; either way there is one.
LEMMA WithQueueOK ==
  ASSUME queues \in Seq(Queue), OneQueuePerName, NEW n \in Names
  PROVE  /\ WithQueue(n) \in Seq(Queue)
         /\ \A i, j \in 1 .. Len(WithQueue(n)) :
              Fold[WithQueue(n)[i].name] = Fold[WithQueue(n)[j].name] => i = j
  <1>1. CASE Known(n)
    BY <1>1 DEF WithQueue, OneQueuePerName
  <1>2. CASE ~Known(n)
    <2> DEFINE new == NewQueue(n)
    <2>1. new \in Queue /\ new.name = n
      <3>1. <<0, 0>> \in Int \X Int
        OBVIOUS
      <3> QED
        BY <3>1 DEF NewQueue, Queue
    <2>2. WithQueue(n) = Append(queues, new)
      BY <1>2 DEF WithQueue
    <2> HIDE DEF new
    <2>3. /\ Append(queues, new) \in Seq(Queue)
          /\ Len(Append(queues, new)) = Len(queues) + 1
          /\ Append(queues, new)[Len(queues) + 1] = new
          /\ \A i \in 1 .. Len(queues) : Append(queues, new)[i] = queues[i]
      BY <2>1, AppendProperties
    <2>4. \A i \in 1 .. Len(queues) : Fold[queues[i].name] # Fold[n]
      BY <1>2 DEF Known, Same
    <2>5. Len(queues) \in Nat /\ DOMAIN queues = 1 .. Len(queues)
      OBVIOUS
    <2>6. ASSUME NEW i \in 1 .. Len(queues) + 1, NEW j \in 1 .. Len(queues) + 1,
                 Fold[Append(queues, new)[i].name] = Fold[Append(queues, new)[j].name]
          PROVE  i = j
      <3>1. CASE i \in 1 .. Len(queues) /\ j \in 1 .. Len(queues)
        BY <2>3, <2>5, <2>6, <3>1 DEF OneQueuePerName
      <3>2. CASE i = Len(queues) + 1 /\ j \in 1 .. Len(queues)
        BY <2>1, <2>3, <2>4, <2>6, <3>2
      <3>3. CASE i \in 1 .. Len(queues) /\ j = Len(queues) + 1
        BY <2>1, <2>3, <2>4, <2>6, <3>3
      <3> QED
        BY <2>5, <3>1, <3>2, <3>3
    <2> QED
      BY <2>2, <2>3, <2>6
  <1> QED
    BY <1>1, <1>2

\* A line of a queue's section, the one step that changes the list.
LEMMA QueueLineKeeps ==
  ASSUME ConfTypeOK, OneQueuePerName, QueueLine
  PROVE  queues' \in Seq(Queue) /\ OneQueuePerName'
  <1>1. PICK line \in Lines, n \in Names :
          queues' = [i \in 1 .. Len(WithQueue(n)) |->
                       LET q == WithQueue(n)[i]
                       IN  IF Same(n, q.name) THEN Configured(q, line.key, line.val) ELSE q]
    BY DEF QueueLine
  <1>2. line.val \in Val
    BY DEF Line
  <1>3. /\ WithQueue(n) \in Seq(Queue)
        /\ \A i, j \in 1 .. Len(WithQueue(n)) :
             Fold[WithQueue(n)[i].name] = Fold[WithQueue(n)[j].name] => i = j
    BY WithQueueOK DEF ConfTypeOK
  <1> DEFINE w == WithQueue(n)
  <1> HIDE DEF w
  <1>4. queues' = [i \in 1 .. Len(w) |->
                     IF Same(n, w[i].name) THEN Configured(w[i], line.key, line.val) ELSE w[i]]
    BY <1>1 DEF w
  <1>5. w \in Seq(Queue) /\ Len(w) \in Nat /\ \A i \in 1 .. Len(w) : w[i] \in Queue
    BY <1>3 DEF w
  <1>6. \A i \in 1 .. Len(w) : queues'[i] \in Queue /\ queues'[i].name = w[i].name
    BY <1>2, <1>4, <1>5, ConfiguredQueue
  <1>7. queues' \in Seq(Queue) /\ DOMAIN queues' = 1 .. Len(w)
    <2>1. DOMAIN queues' = 1 .. Len(w)
      BY <1>4
    <2>2. queues' \in [1 .. Len(w) -> Queue]
      BY <1>4, <1>6
    <2> QED
      BY <1>5, <2>1, <2>2, SeqDef
  <1>8. OneQueuePerName'
    BY <1>3, <1>6, <1>7 DEF OneQueuePerName, w
  <1> QED
    BY <1>7, <1>8

-----------------------------------------------------------------------------
CInv == ConfTypeOK /\ OneQueuePerName

\* A line is one of the lines.
LEMMA ReadKeeps ==
  ASSUME ConfTypeOK, NEW line \in Line, Read(line)
  PROVE  file' \in Seq(Line)
  BY DEF ConfTypeOK, Read

\* The other steps leave the list alone.
LEMMA OtherStepsKeep ==
  ASSUME CInv, UNCHANGED queues
  PROVE  queues' \in Seq(Queue) /\ OneQueuePerName'
  BY DEF CInv, ConfTypeOK, OneQueuePerName

LEMMA ConfStep == CInv /\ [ConfNext]_confVars => CInv'
  <1> SUFFICES ASSUME CInv, [ConfNext]_confVars
               PROVE  CInv'
    OBVIOUS
  <1> USE DEF CInv
  <1>1. CASE SkipLine
    BY <1>1, ReadKeeps, OtherStepsKeep DEF SkipLine, ConfTypeOK, Read
  <1>2. CASE SectionLine
    BY <1>2, ReadKeeps, OtherStepsKeep DEF SectionLine, ConfTypeOK, Read
  <1>3. CASE BrokenLine
    BY <1>3, ReadKeeps, OtherStepsKeep DEF BrokenLine, ConfTypeOK, Read
  <1>4. CASE ResbdLine
    <2>1. PICK line \in Lines :
            /\ Read(line)
            /\ address' = CASE line.key = "host" -> [address EXCEPT !.host = line.val.text]
                            [] line.key = "port" -> [address EXCEPT !.port = Atoi(line.val)]
                            [] OTHER -> address
            /\ status' = IF line.key \in ResbdKeys THEN "reading" ELSE "error"
            /\ UNCHANGED <<section, params, queues>>
      BY <1>4 DEF ResbdLine
    <2>2. line \in Line /\ line.val \in Val
      BY DEF Line
    <2>3. Atoi(line.val) \in Int /\ line.val.text \in Texts
      BY <2>2, ConversionTypes
    <2>4. address' \in [host : Texts \cup {NoValue}, port : Int]
      BY <2>1, <2>3 DEF ConfTypeOK
    <2> QED
      BY <2>1, <2>2, <2>4, ReadKeeps, OtherStepsKeep DEF ConfTypeOK
  <1>5. CASE ParamsLine
    <2>1. PICK line \in Lines : /\ Read(line)
                               /\ params' = WithParam(line.key, line.val)
                               /\ UNCHANGED <<status, section, address, queues>>
      BY <1>5 DEF ParamsLine
    <2>2. line \in Line /\ line.val \in Val /\ line.key \in Keys
      BY DEF Line
    <2>3. DOMAIN params' = ParamKeys /\ params'.workload_timer \in Int
      BY <2>1, <2>2, WithParamOK DEF ConfTypeOK, ParamsOK
    <2> QED
      BY <2>1, <2>2, <2>3, ReadKeeps, OtherStepsKeep DEF ConfTypeOK
  <1>6. CASE QueueLine
    BY <1>6, ReadKeeps, QueueLineKeeps DEF QueueLine, ConfTypeOK
  <1>7. CASE OtherLine
    BY <1>7, ReadKeeps, OtherStepsKeep DEF OtherLine, ConfTypeOK, Read
  <1>8. CASE EndOfFile \/ NoFile \/ UNCHANGED confVars
    BY <1>8, OtherStepsKeep DEF EndOfFile, NoFile, confVars, ConfTypeOK
  <1> QED
    BY <1>1, <1>2, <1>3, <1>4, <1>5, <1>6, <1>7, <1>8 DEF ConfNext

\* The line that stands for no section at all.
LEMMA SkippedIsALine == Skipped \in Line
  <1>1. <<>> \in Seq(Int)
    OBVIOUS
  <1>2. NoVal \in Val
    <2>1. "" \in Texts /\ " " \in {" ", ","}
      BY TextsAssumption
    <2> QED
      BY <1>1, <2>1, Zenon DEF NoVal, Val
  <1>3. "unknown" \in Keys
    BY DEF Keys
  <1> QED
    BY <1>2, <1>3, Zenon DEF Skipped, Line

LEMMA ConfStart == ConfInit => CInv
  <1> SUFFICES ASSUME ConfInit
               PROVE  CInv
    OBVIOUS
  <1> USE DEF ConfInit
  <1>1. Skipped \in Line
    BY SkippedIsALine
  <1>2. file \in Seq(Line) /\ queues \in Seq(Queue)
    OBVIOUS
  <1>3. DOMAIN params = ParamKeys /\ params.workload_timer \in Int
    BY DEF ParamKeys, Unset
  <1>4. OneQueuePerName
    BY DEF OneQueuePerName
  <1> QED
    BY <1>1, <1>2, <1>3, <1>4 DEF CInv, ConfTypeOK

\* Whatever the file holds, the list never has two entries for one name: every
\* key of a queue, wherever it stands, reaches the same entry.
THEOREM QueuesAreUnique == ConfSpec => []OneQueuePerName
  <1>1. CInv => OneQueuePerName
    BY DEF CInv
  <1> QED
    BY <1>1, ConfStart, ConfStep, PTL DEF ConfSpec

\* The configuration always has its types: a factor is a pair of numbers.
THEOREM ConfTypeCorrect == ConfSpec => []ConfTypeOK
  <1>1. CInv => ConfTypeOK
    BY DEF CInv
  <1> QED
    BY <1>1, ConfStart, ConfStep, PTL DEF ConfSpec

-----------------------------------------------------------------------------
\* The last of some lines.

\* Among the first n numbers, there is one.
LEMMA LastOfSome ==
  ASSUME NEW n \in Nat, NEW S \in SUBSET (1 .. n), S # {}
  PROVE  Last(S) \in S /\ \A j \in S : j <= Last(S)
  <1> DEFINE Left == {n - j : j \in S}
  <1>1. \A j \in S : j \in Int /\ n - j \in Nat
    OBVIOUS
  <1>2. Left \subseteq Nat /\ \A j \in S : n - j \in Left
    BY <1>1
  <1>3. PICK k \in Left : \A m \in Left : ~(<<m, k>> \in OpToRel(<, Nat))
    <2>1. Left # {}
      BY <1>2
    <2> HIDE DEF Left
    <2> QED
      BY <1>2, <2>1, NatLessThanWellFounded, WFMin
  <1>4. PICK i \in S : k = n - i
    BY <1>3
  <1>5. ASSUME NEW j \in S
        PROVE  j <= i
    <2>1. ASSUME n - j < k
          PROVE  FALSE
      <3>1. <<n - j, k>> \in OpToRel(<, Nat)
        BY <1>1, <1>4, <2>1 DEF OpToRel
      <3> QED
        BY <1>2, <1>3, <3>1
    <2> QED
      BY <1>1, <1>4, <2>1
  <1> QED
    BY <1>5 DEF Last

\* One more line is the last one.
LEMMA LastIsNew ==
  ASSUME NEW n \in Nat, NEW S \in SUBSET (1 .. n)
  PROVE  Last(S \cup {n + 1}) = n + 1
  <1> DEFINE T == S \cup {n + 1}
  <1>1. T \in SUBSET (1 .. n + 1) /\ n + 1 \in T /\ n + 1 \in Nat
    OBVIOUS
  <1>2. \A j \in T : j \in Int /\ j <= n + 1
    BY <1>1
  <1> HIDE DEF T
  <1>3. Last(T) \in T /\ n + 1 <= Last(T)
    BY <1>1, LastOfSome
  <1>4. \A l \in T : n + 1 <= l => l = n + 1
    BY <1>2
  <1>5. Last(T) = n + 1
    BY <1>3, <1>4
  <1> QED
    BY <1>5 DEF T

-----------------------------------------------------------------------------
\* The section of a line, and what another line adds to the file.

\* The lines above line i that open a section.
Above(i) == {j \in 1 .. i - 1 : file[j].kind = "section"}

LEMMA SectionIs ==
  ASSUME NEW i
  PROVE  SectionOf(i) = IF Above(i) = {} THEN Skipped ELSE file[Last(Above(i))]
  BY DEF SectionOf, Above

\* A line's section is a section line of the file, or there is none.
LEMMA SectionLines ==
  ASSUME file \in Seq(Line), NEW i \in 1 .. Len(file) + 1
  PROVE  \/ Above(i) = {} /\ SectionOf(i) = Skipped
         \/ /\ Last(Above(i)) \in 1 .. Len(file) /\ file[Last(Above(i))].kind = "section"
            /\ SectionOf(i) = file[Last(Above(i))] /\ Above(i) # {}
  <1>1. Len(file) \in Nat /\ Above(i) \in SUBSET (1 .. i - 1) /\ i - 1 \in Nat
    BY DEF Above
  <1>2. Above(i) # {} => Last(Above(i)) \in Above(i)
    BY <1>1, LastOfSome
  <1>3. \A j \in Above(i) : j \in 1 .. Len(file) /\ file[j].kind = "section"
    BY <1>1 DEF Above
  <1> QED
    BY <1>2, <1>3, SectionIs

LEMMA FileGrows ==
  ASSUME file \in Seq(Line), NEW line \in Line, Read(line)
  PROVE  /\ Len(file) \in Nat /\ Len(file') = Len(file) + 1 /\ file' \in Seq(Line)
         /\ \A i \in 1 .. Len(file) : file'[i] = file[i]
         /\ file'[Len(file) + 1] = line
  BY AppendProperties DEF Read

\* The lines already read keep their sections, and the next line's is known.
LEMMA SectionsStay ==
  ASSUME file \in Seq(Line), NEW line \in Line, Read(line)
  PROVE  \A i \in 1 .. Len(file) + 1 : SectionOf(i)' = SectionOf(i)
  <1>1. /\ Len(file) \in Nat /\ Len(file') = Len(file) + 1
        /\ \A i \in 1 .. Len(file) : file'[i] = file[i]
    BY FileGrows
  <1>2. ASSUME NEW i \in 1 .. Len(file) + 1
        PROVE  SectionOf(i)' = SectionOf(i)
    <2>1. Above(i)' = Above(i)
      <3>1. ASSUME NEW j \in 1 .. i - 1
            PROVE  file'[j] = file[j]
        BY <1>1
      <3> QED
        BY <3>1 DEF Above
    <2>2. Above(i) # {} => file'[Last(Above(i))] = file[Last(Above(i))]
      BY <1>1, SectionLines
    <2>3. SectionOf(i)' = IF Above(i)' = {} THEN Skipped ELSE file'[Last(Above(i)')]
      BY DEF SectionOf, Above
    <2> QED
      BY <2>1, <2>2, <2>3, SectionIs
  <1> QED
    BY <1>2

LEMMA NextSection ==
  ASSUME file \in Seq(Line), NEW line \in Line, Read(line)
  PROVE  SectionOf(Len(file) + 1)' =
           IF line.kind = "section" THEN line ELSE SectionOf(Len(file) + 1)
  <1>1. PICK n \in Nat : n = Len(file)
    OBVIOUS
  <1>2. /\ Len(file') = n + 1
        /\ \A i \in 1 .. n : file'[i] = file[i]
        /\ file'[n + 1] = line
    BY <1>1, FileGrows
  <1>3. (n + 1) + 1 - 1 = n + 1 /\ n + 1 - 1 = n
    BY <1>1
  <1>4. Above((n + 1) + 1)' = {j \in 1 .. n + 1 : file'[j].kind = "section"}
    BY <1>3 DEF Above
  <1>5. Above(n + 1) = {j \in 1 .. n : file[j].kind = "section"}
    BY <1>3 DEF Above
  <1> DEFINE new == {j \in 1 .. n + 1 : file'[j].kind = "section"}
             old == {j \in 1 .. n : file[j].kind = "section"}
  <1>6. SectionOf(Len(file) + 1)' = IF new = {} THEN Skipped ELSE file'[Last(new)]
    BY <1>2, <1>3 DEF SectionOf
  <1>7. /\ SectionOf(Len(file) + 1) = IF old = {} THEN Skipped ELSE file[Last(old)]
        /\ old # {} => Last(old) \in 1 .. n
    <2>1. old \in SUBSET (1 .. n)
      OBVIOUS
    <2>2. old # {} => Last(old) \in old
      BY <2>1, LastOfSome
    <2> QED
      BY <1>1, <1>3, <2>2 DEF SectionOf
  <1>8. CASE line.kind = "section"
    <2>1. new = old \cup {n + 1}
      BY <1>2, <1>8
    <2>2. old \in SUBSET (1 .. n)
      OBVIOUS
    <2> HIDE DEF new, old
    <2>3. Last(new) = n + 1
      BY <2>1, <2>2, LastIsNew
    <2> QED
      BY <1>2, <1>6, <1>8, <2>1, <2>3
  <1>9. CASE line.kind # "section"
    <2>1. new = old
      BY <1>2, <1>9
    <2> HIDE DEF new, old
    <2> QED
      BY <1>2, <1>6, <1>7, <1>9, <2>1
  <1> QED
    BY <1>8, <1>9

-----------------------------------------------------------------------------
\* What a line adds to the lines of a section, and of a queue.

\* The section of the line about to be read.
AtSection == section = SectionOf(Len(file) + 1)

\* They are lines of the file.
LEMMA LinesAreLines ==
  /\ \A sec, keys : LinesIn(sec, keys) \in SUBSET (1 .. Len(file))
  /\ \A n, keys : LinesOf(n, keys) \in SUBSET LinesIn("queue", keys)
  BY DEF LinesIn, LinesOf, PairLines

LEMMA LinesInGrow ==
  ASSUME file \in Seq(Line), AtSection, NEW line \in Line, Read(line), NEW sec, NEW keys
  PROVE  LinesIn(sec, keys)' =
           LinesIn(sec, keys) \cup
             {i \in {Len(file) + 1} : /\ line.kind = "pair" /\ line.key \in keys
                                      /\ section.sec = sec}
  <1>1. PICK n \in Nat : n = Len(file)
    OBVIOUS
  <1>2. /\ Len(file') = n + 1
        /\ \A i \in 1 .. n : file'[i] = file[i]
        /\ file'[n + 1] = line
    BY <1>1, FileGrows
  <1>3. /\ \A i \in 1 .. n + 1 : SectionOf(i)' = SectionOf(i)
        /\ SectionOf(n + 1) = section
    BY <1>1, SectionsStay DEF AtSection
  <1>4. LinesIn(sec, keys)' =
          {i \in 1 .. n + 1 : /\ file'[i].kind = "pair" /\ file'[i].key \in keys
                              /\ SectionOf(i)'.sec = sec}
    BY <1>2 DEF LinesIn, PairLines
  <1>5. LinesIn(sec, keys) =
          {i \in 1 .. n : /\ file[i].kind = "pair" /\ file[i].key \in keys
                          /\ SectionOf(i).sec = sec}
    BY <1>1 DEF LinesIn, PairLines
  <1>6. 1 .. n + 1 = (1 .. n) \cup {n + 1}
    OBVIOUS
  <1> QED
    BY <1>1, <1>2, <1>3, <1>4, <1>5, <1>6

LEMMA LinesOfGrow ==
  ASSUME file \in Seq(Line), AtSection, NEW line \in Line, Read(line), NEW n, NEW keys
  PROVE  LinesOf(n, keys)' =
           LinesOf(n, keys) \cup
             {i \in {Len(file) + 1} : /\ line.kind = "pair" /\ line.key \in keys
                                      /\ section.sec = "queue"
                                      /\ Fold[section.name] = Fold[n]}
  <1>1. LinesIn("queue", keys)' =
          LinesIn("queue", keys) \cup
            {i \in {Len(file) + 1} : /\ line.kind = "pair" /\ line.key \in keys
                                     /\ section.sec = "queue"}
    BY LinesInGrow
  <1>2. PICK old : old = LinesIn("queue", keys)
    OBVIOUS
  <1>3. \A i \in old \cup {Len(file) + 1} : SectionOf(i)' = SectionOf(i)
    <2>1. old \subseteq 1 .. Len(file) /\ Len(file) \in Nat
      BY <1>2, LinesAreLines
    <2>2. \A i \in old \cup {Len(file) + 1} : i \in 1 .. Len(file) + 1
      BY <2>1
    <2> QED
      BY <2>2, SectionsStay
  <1>4. LinesOf(n, keys)' =
          {i \in LinesIn("queue", keys)' : Fold[SectionOf(i)'.name] = Fold[n]}
    BY DEF LinesOf
  <1>5. LinesOf(n, keys) = {i \in old : Fold[SectionOf(i).name] = Fold[n]}
    BY <1>2 DEF LinesOf
  <1> QED
    BY <1>1, <1>2, <1>3, <1>4, <1>5 DEF AtSection

\* What the last line of some says stays as it was while they stay.
LEMMA LastSaysTheSame ==
  ASSUME file \in Seq(Line), NEW line \in Line, Read(line),
         NEW S \in SUBSET (1 .. Len(file)), S # {}
  PROVE  file'[Last(S)] = file[Last(S)]
  <1>1. PICK n \in Nat : n = Len(file)
    OBVIOUS
  <1>2. Last(S) \in S
    BY <1>1, LastOfSome
  <1> QED
    BY <1>2, FileGrows

\* And is the new line once it is one of them.
LEMMA LastSaysTheNew ==
  ASSUME file \in Seq(Line), NEW line \in Line, Read(line),
         NEW S \in SUBSET (1 .. Len(file))
  PROVE  S \cup {Len(file) + 1} # {} /\ file'[Last(S \cup {Len(file) + 1})] = line
  <1>1. PICK n \in Nat : n = Len(file)
    OBVIOUS
  <1>2. Last(S \cup {n + 1}) = n + 1
    BY <1>1, LastIsNew
  <1> QED
    BY <1>1, <1>2, FileGrows

LEMMA NoLineRead ==
  ASSUME file' = file
  PROVE  /\ \A sec, keys : LinesIn(sec, keys)' = LinesIn(sec, keys)
         /\ \A n, keys : LinesOf(n, keys)' = LinesOf(n, keys)
  BY DEF LinesIn, LinesOf, PairLines, SectionOf

-----------------------------------------------------------------------------
\* The section is followed.

LEMMA SectionStep ==
  ASSUME CInv, AtSection, [ConfNext]_confVars
  PROVE  AtSection'
  <1> USE DEF CInv, ConfTypeOK
  <1>1. ASSUME NEW line \in Line, Read(line)
        PROVE  SectionOf(Len(file) + 1)' = IF line.kind = "section" THEN line ELSE section
    BY <1>1, NextSection DEF AtSection
  <1>2. CASE SkipLine
    BY <1>1, <1>2, SkippedIsALine DEF SkipLine, AtSection, Skipped
  <1>3. CASE SectionLine
    BY <1>1, <1>3, ConfAssumption DEF SectionLine, AtSection
  <1>4. CASE BrokenLine
    BY <1>1, <1>4, ConfAssumption DEF BrokenLine, AtSection, Broken
  <1>5. CASE ResbdLine
    BY <1>1, <1>5, ConfAssumption DEF ResbdLine, AtSection
  <1>6. CASE ParamsLine
    BY <1>1, <1>6, ConfAssumption DEF ParamsLine, AtSection
  <1>7. CASE QueueLine
    BY <1>1, <1>7, ConfAssumption DEF QueueLine, AtSection
  <1>8. CASE OtherLine
    BY <1>1, <1>8, ConfAssumption DEF OtherLine, AtSection
  <1>9. CASE EndOfFile \/ NoFile \/ UNCHANGED confVars
    BY <1>9 DEF EndOfFile, NoFile, confVars, AtSection, SectionOf
  <1> QED
    BY <1>2, <1>3, <1>4, <1>5, <1>6, <1>7, <1>8, <1>9 DEF ConfNext

-----------------------------------------------------------------------------
\* The parameters.

AllDefaults == Defaults([k \in ParamKeys |-> NoValue])

\* What init_params leaves of the lines of [params]: it sets the defaults before
\* each key, so the line read last is in force, the working directory stays as it
\* was set last, and every other parameter has its default.
ParamsInv ==
  \A k \in ParamKeys :
    params[k] =
      IF k = "work_dir"
      THEN IF LinesIn("params", {"work_dir"}) = {} THEN NoValue
           ELSE file[Last(LinesIn("params", {"work_dir"}))].val.text
      ELSE IF LinesIn("params", Keys) = {} THEN IF k = "workload_timer" THEN 0 ELSE NoValue
      ELSE IF file[Last(LinesIn("params", Keys))].key = k
      THEN ParamValue(k, file[Last(LinesIn("params", Keys))].val)
      ELSE AllDefaults[k]

\* The defaults depend on nothing but the working directory.
LEMMA DefaultsAre ==
  ASSUME NEW p, DOMAIN p = ParamKeys
  PROVE  /\ DOMAIN Defaults(p) = ParamKeys
         /\ Defaults(p)["work_dir"] = p["work_dir"]
         /\ \A k \in ParamKeys : k # "work_dir" => Defaults(p)[k] = AllDefaults[k]
  BY DEF Defaults, AllDefaults, ParamKeys

\* The lines of one key among all lines of [params].
LEMMA OwnLines ==
  ASSUME ConfTypeOK, NEW k \in ParamKeys, NEW lines, NEW own,
         lines = LinesIn("params", Keys), own = LinesIn("params", {k})
  PROVE  /\ lines # {} => Last(lines) \in lines
         /\ own # {} => Last(own) \in own
         /\ own = {i \in lines : file[i].key = k}
         /\ lines # {} /\ file[Last(lines)].key = k => own # {} /\ Last(own) = Last(lines)
  <1>1. PICK n \in Nat : n = Len(file)
    BY DEF ConfTypeOK
  <1>2. lines \in SUBSET (1 .. n) /\ own \in SUBSET (1 .. n)
    BY <1>1, LinesAreLines
  <1>3. own = {i \in lines : file[i].key = k}
    <2>1. k \in Keys
      BY DEF Keys
    <2> QED
      BY <2>1 DEF LinesIn
  <1>4. lines # {} => Last(lines) \in lines /\ \A j \in lines : j <= Last(lines)
    BY <1>2, LastOfSome
  <1>5. own # {} => Last(own) \in own /\ \A j \in own : j <= Last(own)
    BY <1>2, LastOfSome
  <1>6. ASSUME lines # {}, file[Last(lines)].key = k
        PROVE  own # {} /\ Last(own) = Last(lines)
    <2>1. Last(lines) \in own
      BY <1>3, <1>4, <1>6
    <2>2. Last(lines) <= Last(own) /\ Last(own) <= Last(lines)
      BY <1>3, <1>4, <1>5, <1>6, <2>1
    <2>3. Last(lines) \in Int /\ Last(own) \in Int
      BY <1>2, <1>5, <2>1
    <2> QED
      BY <2>1, <2>2, <2>3
  <1> QED
    BY <1>3, <1>4, <1>5, <1>6

LEMMA ParamsInvIsEnough ==
  ASSUME ConfTypeOK, ParamsInv
  PROVE  ParamsFromTheFile
  <1>1. /\ DOMAIN Unset = ParamKeys /\ Unset["work_dir"] = NoValue
        /\ \A k \in ParamKeys : Unset[k] = IF k = "workload_timer" THEN 0 ELSE NoValue
    BY DEF Unset, ParamKeys
  <1>2. /\ Defaults(Unset)["work_dir"] = NoValue
        /\ \A k \in ParamKeys : k # "work_dir" => Defaults(Unset)[k] = AllDefaults[k]
    BY <1>1, DefaultsAre
  <1> DEFINE lines == LinesIn("params", Keys)
             default == IF lines = {} THEN Unset ELSE Defaults(Unset)
             own(k) == LinesIn("params", {k})
             said(k) == own(k) # {} /\ params[k] = ParamValue(k, file[Last(own(k))].val)
  <1> SUFFICES ASSUME NEW k \in ParamKeys
               PROVE  /\ said(k) \/ params[k] = default[k]
                      /\ own(k) # {} /\ (k = "work_dir" \/ Last(own(k)) = Last(lines)) => said(k)
    BY DEF ParamsFromTheFile
  <1>3. CASE k = "work_dir"
    <2>1. params[k] = IF own(k) = {} THEN NoValue ELSE file[Last(own(k))].val.text
      BY <1>3 DEF ParamsInv
    <2>2. default[k] = NoValue
      BY <1>1, <1>2, <1>3
    <2>3. ParamValue(k, file[Last(own(k))].val) = file[Last(own(k))].val.text
      BY <1>3 DEF ParamValue
    <2> QED
      BY <2>1, <2>2, <2>3
  <1>4. CASE k # "work_dir"
    <2>1. params[k] = IF lines = {} THEN Unset[k]
                      ELSE IF file[Last(lines)].key = k
                      THEN ParamValue(k, file[Last(lines)].val) ELSE AllDefaults[k]
      BY <1>1, <1>4 DEF ParamsInv
    <2>2. /\ lines # {} => Last(lines) \in lines
          /\ own(k) # {} => Last(own(k)) \in own(k)
          /\ own(k) = {i \in lines : file[i].key = k}
          /\ lines # {} /\ file[Last(lines)].key = k => own(k) # {} /\ Last(own(k)) = Last(lines)
      BY OwnLines
    <2>3. CASE lines = {}
      BY <2>1, <2>2, <2>3
    <2>4. CASE lines # {} /\ file[Last(lines)].key = k
      BY <2>1, <2>2, <2>4
    <2>5. CASE lines # {} /\ file[Last(lines)].key # k
      <3>1. params[k] = default[k]
        BY <1>2, <1>4, <2>1, <2>5
      <3>2. own(k) # {} => Last(own(k)) # Last(lines)
        BY <2>2, <2>5
      <3> QED
        BY <1>4, <3>1, <3>2
    <2> QED
      BY <2>3, <2>4, <2>5
  <1> QED
    BY <1>3, <1>4

\* A line elsewhere.
LEMMA ParamsStay ==
  ASSUME ConfTypeOK, AtSection, ParamsInv, NEW line \in Line, Read(line),
         line.kind = "pair" => section.sec # "params", params' = params
  PROVE  ParamsInv'
  <1>1. file \in Seq(Line)
    BY DEF ConfTypeOK
  <1>2. ASSUME NEW keys
        PROVE  LinesIn("params", keys)' = LinesIn("params", keys)
    <2>1. {i \in {Len(file) + 1} : /\ line.kind = "pair" /\ line.key \in keys
                                   /\ section.sec = "params"} = {}
      OBVIOUS
    <2>2. LinesIn("params", keys)' =
            LinesIn("params", keys) \cup
              {i \in {Len(file) + 1} : /\ line.kind = "pair" /\ line.key \in keys
                                       /\ section.sec = "params"}
      BY <1>1, LinesInGrow
    <2> QED
      BY <2>1, <2>2
  <1>3. \A keys : LinesIn("params", keys) # {} =>
          file'[Last(LinesIn("params", keys))] = file[Last(LinesIn("params", keys))]
    BY <1>1, LinesAreLines, LastSaysTheSame
  <1> QED
    BY <1>2, <1>3 DEF ParamsInv

\* A line of [params].
LEMMA ParamsLineKeeps ==
  ASSUME ConfTypeOK, AtSection, ParamsInv, ParamsLine
  PROVE  ParamsInv'
  <1>1. PICK line \in Line : /\ line.kind = "pair" /\ section.sec = "params"
                             /\ Read(line) /\ params' = WithParam(line.key, line.val)
    BY ConfAssumption DEF ParamsLine
  <1>2. PICK all, dirs, m : /\ all = LinesIn("params", Keys)
                            /\ dirs = LinesIn("params", {"work_dir"})
                            /\ m = Len(file) + 1
    OBVIOUS
  <1>3. file \in Seq(Line) /\ line.key \in Keys
    BY DEF ConfTypeOK, Line
  <1>4. /\ LinesIn("params", Keys)' = all \cup {m}
        /\ LinesIn("params", {"work_dir"})' = IF line.key = "work_dir" THEN dirs \cup {m} ELSE dirs
    <2>1. \A keys : LinesIn("params", keys)' =
                      LinesIn("params", keys) \cup {i \in {m} : line.key \in keys}
      BY <1>1, <1>2, <1>3, LinesInGrow
    <2>2. {i \in {m} : line.key \in Keys} = {m}
      BY <1>3
    <2>3. {i \in {m} : line.key \in {"work_dir"}} = IF line.key = "work_dir" THEN {m} ELSE {}
      OBVIOUS
    <2> QED
      BY <1>2, <2>1, <2>2, <2>3
  <1>5. /\ all \in SUBSET (1 .. Len(file)) /\ dirs \in SUBSET (1 .. Len(file))
    BY <1>2, LinesAreLines
  <1>6. all \cup {m} # {} /\ file'[Last(all \cup {m})] = line
    BY <1>1, <1>2, <1>3, <1>5, LastSaysTheNew
  <1>7. dirs \cup {m} # {} /\ file'[Last(dirs \cup {m})] = line
    BY <1>1, <1>2, <1>3, <1>5, LastSaysTheNew
  <1>8. dirs # {} => file'[Last(dirs)] = file[Last(dirs)]
    BY <1>1, <1>3, <1>5, LastSaysTheSame
  <1>9. /\ DOMAIN Defaults(params) = ParamKeys
        /\ Defaults(params)["work_dir"] = params["work_dir"]
        /\ \A k \in ParamKeys : k # "work_dir" => Defaults(params)[k] = AllDefaults[k]
    BY DefaultsAre DEF ConfTypeOK
  <1>10. \A k \in ParamKeys :
           params'[k] = IF k = line.key THEN ParamValue(k, line.val) ELSE Defaults(params)[k]
    BY <1>1, <1>9 DEF WithParam
  <1>11. ASSUME NEW k \in ParamKeys, k # "work_dir"
         PROVE  params'[k] = IF line.key = k THEN ParamValue(k, line.val) ELSE AllDefaults[k]
    BY <1>9, <1>10, <1>11
  <1>12. params'["work_dir"] = IF line.key = "work_dir" THEN line.val.text ELSE params["work_dir"]
    BY <1>9, <1>10 DEF ParamKeys, ParamValue
  <1>13. params["work_dir"] = IF dirs = {} THEN NoValue ELSE file[Last(dirs)].val.text
    BY <1>2 DEF ParamsInv, ParamKeys
  <1>14. ASSUME NEW k \in ParamKeys
         PROVE  (params[k] =
      IF k = "work_dir"
      THEN IF LinesIn("params", {"work_dir"}) = {} THEN NoValue
           ELSE file[Last(LinesIn("params", {"work_dir"}))].val.text
      ELSE IF LinesIn("params", Keys) = {} THEN IF k = "workload_timer" THEN 0 ELSE NoValue
      ELSE IF file[Last(LinesIn("params", Keys))].key = k
      THEN ParamValue(k, file[Last(LinesIn("params", Keys))].val)
      ELSE AllDefaults[k])'
    <2>1. CASE k = "work_dir"
      BY <1>4, <1>7, <1>8, <1>12, <1>13, <2>1
    <2>2. CASE k # "work_dir"
      BY <1>4, <1>6, <1>11, <2>2
    <2> QED
      BY <2>1, <2>2
  <1> QED
    BY <1>14 DEF ParamsInv

LEMMA ParamsStep ==
  ASSUME CInv, AtSection, ParamsInv, [ConfNext]_confVars
  PROVE  ParamsInv'
  <1> USE DEF CInv
  <1>1. CASE SkipLine
    BY <1>1, ParamsStay, SkippedIsALine DEF SkipLine, Skipped
  <1>2. CASE SectionLine
    BY <1>2, ParamsStay, ConfAssumption DEF SectionLine
  <1>3. CASE BrokenLine
    BY <1>3, ParamsStay, ConfAssumption DEF BrokenLine, Broken
  <1>4. CASE ResbdLine
    BY <1>4, ParamsStay, ConfAssumption DEF ResbdLine
  <1>5. CASE ParamsLine
    BY <1>5, ParamsLineKeeps
  <1>6. CASE QueueLine
    BY <1>6, ParamsStay, ConfAssumption DEF QueueLine
  <1>7. CASE OtherLine
    BY <1>7, ParamsStay, ConfAssumption DEF OtherLine
  <1>8. CASE EndOfFile \/ NoFile \/ UNCHANGED confVars
    <2>1. file' = file /\ params' = params
      BY <1>8 DEF EndOfFile, NoFile, confVars
    <2> QED
      BY <2>1, NoLineRead DEF ParamsInv
  <1> QED
    BY <1>1, <1>2, <1>3, <1>4, <1>5, <1>6, <1>7, <1>8 DEF ConfNext

\* Nothing is read yet.
LEMMA NothingRead ==
  ASSUME ConfInit
  PROVE  /\ AtSection
         /\ \A sec, keys : LinesIn(sec, keys) = {}
  <1>1. Len(file) = 0
    BY DEF ConfInit
  <1> QED
    BY <1>1 DEF ConfInit, AtSection, SectionOf, LinesIn, PairLines

LEMMA ParamsStart == ConfInit => ParamsInv
  BY NothingRead DEF ConfInit, ParamsInv, ParamKeys, Unset

\* After any line every parameter in force is what the last of its own lines says
\* or the program's default: nothing of an earlier line, of another key or of another
\* section stays behind, and the last line of [params] and the last working directory
\* are in force.
THEOREM ParamsComeFromTheFile == ConfSpec => []ParamsFromTheFile
  <1> DEFINE I == CInv /\ AtSection /\ ParamsInv
  <1>1. ConfInit => I
    BY ConfStart, NothingRead, ParamsStart
  <1>2. I /\ [ConfNext]_confVars => I'
    BY ConfStep, SectionStep, ParamsStep
  <1>3. I => ParamsFromTheFile
    BY ParamsInvIsEnough DEF CInv
  <1> QED
    BY <1>1, <1>2, <1>3, PTL DEF ConfSpec

-----------------------------------------------------------------------------
\* The queues.

\* An entry has the last type and the last name space of its lines.
Settings(q) ==
  /\ q.type = IF LinesOf(q.name, {"type"}) = {} THEN "vms"
              ELSE QueueType(file[Last(LinesOf(q.name, {"type"}))].val)
  /\ q.ns = IF LinesOf(q.name, {"name_space"}) = {} THEN NoValue
            ELSE file[Last(LinesOf(q.name, {"name_space"}))].val.text

\* The first line of one is above every line of the other.
Before(n, m) == \E i \in LinesOf(n, Keys) : \A l \in LinesOf(m, Keys) : i < l

Listed(q) == \E j \in 1 .. Len(queues) : queues[j] = q

\* QueuesAsWritten, said of the entries one by one.
QueuesInv ==
  EverySectionNamed =>
    /\ \A i \in LinesIn("queue", Keys) :
         \E q \in Queue : Listed(q) /\ i \in LinesOf(q.name, Keys)
    /\ \A q \in Queue : Listed(q) => Settings(q) /\ LinesOf(q.name, Keys) # {}
    /\ \A p, q \in Queue : \A j, k \in 1 .. Len(queues) :
         queues[j] = p /\ queues[k] = q /\ j < k => Before(p.name, q.name)

LEMMA QueuesInvIsEnough ==
  ASSUME ConfTypeOK, QueuesInv
  PROVE  QueuesAsWritten
  <1> SUFFICES ASSUME EverySectionNamed
               PROVE  QueuesAsWritten
    BY DEF QueuesAsWritten
  <1>1. DOMAIN queues = 1 .. Len(queues) /\ \A j \in 1 .. Len(queues) : queues[j] \in Queue
    BY DEF ConfTypeOK
  <1>2. \A i \in LinesIn("queue", Keys) :
          \E j \in DOMAIN queues : i \in LinesOf(queues[j].name, Keys)
    BY <1>1 DEF QueuesInv, Listed
  <1>3. \A j \in DOMAIN queues : Settings(queues[j]) /\ LinesOf(queues[j].name, Keys) # {}
    BY <1>1 DEF QueuesInv, Listed
  <1>4. \A j, k \in DOMAIN queues : j < k => Before(queues[j].name, queues[k].name)
    BY <1>1 DEF QueuesInv
  <1> QED
    BY <1>2, <1>3, <1>4 DEF QueuesAsWritten, Settings, Before

\* A section of the file that has a queue's lines has its name.
LEMMA SectionNamed ==
  ASSUME CInv, AtSection, EverySectionNamed, section.sec = "queue"
  PROVE  section.name # NoName
  <1>1. file \in Seq(Line) /\ Len(file) \in Nat
    BY DEF CInv, ConfTypeOK
  <1>2. Len(file) + 1 \in 1 .. Len(file) + 1
    BY <1>1
  <1>3. section # Skipped
    BY DEF Skipped
  <1>4. /\ Last(Above(Len(file) + 1)) \in 1 .. Len(file)
        /\ file[Last(Above(Len(file) + 1))].kind = "section"
        /\ section = file[Last(Above(Len(file) + 1))]
    BY <1>1, <1>2, <1>3, SectionLines DEF AtSection
  <1> QED
    BY <1>4 DEF EverySectionNamed

\* A file with an unnamed section keeps it.
LEMMA StaysUnnamed ==
  ASSUME file \in Seq(Line), NEW line \in Line, Read(line), EverySectionNamed'
  PROVE  EverySectionNamed
  <1>1. \A i \in 1 .. Len(file) : file'[i] = file[i] /\ i \in 1 .. Len(file')
    BY FileGrows
  <1> QED
    BY <1>1 DEF EverySectionNamed

\* Some keys' lines are among the lines of all.
LEMMA SomeKeys ==
  ASSUME NEW n, NEW keys \in SUBSET Keys
  PROVE  LinesOf(n, keys) \in SUBSET LinesOf(n, Keys)
  BY DEF LinesOf, LinesIn

\* The list in which a key finds its queue: a queue that is new has no lines yet.
LEMMA WithQueueWritten ==
  ASSUME CInv, QueuesInv, EverySectionNamed, NEW n \in Names,
         NEW w, w = WithQueue(n)
  PROVE  /\ w \in Seq(Queue)
         /\ \A i \in LinesIn("queue", Keys) :
              \E j \in 1 .. Len(w) : i \in LinesOf(w[j].name, Keys)
         /\ \E j \in 1 .. Len(w) : Fold[w[j].name] = Fold[n]
         /\ \A j \in 1 .. Len(w) :
              /\ Settings(w[j])
              /\ Fold[w[j].name] = Fold[n] \/ LinesOf(w[j].name, Keys) # {}
         /\ \A j, k \in 1 .. Len(w) : j < k => Before(w[j].name, w[k].name)
  <1>1. /\ queues \in Seq(Queue) /\ Len(queues) \in Nat
        /\ DOMAIN queues = 1 .. Len(queues)
        /\ \A j \in 1 .. Len(queues) : queues[j] \in Queue /\ Listed(queues[j])
    BY DEF CInv, ConfTypeOK, Listed
  <1>2. /\ \A i \in LinesIn("queue", Keys) :
             \E j \in 1 .. Len(queues) : i \in LinesOf(queues[j].name, Keys)
        /\ \A j \in 1 .. Len(queues) :
             Settings(queues[j]) /\ LinesOf(queues[j].name, Keys) # {}
        /\ \A j, k \in 1 .. Len(queues) : j < k => Before(queues[j].name, queues[k].name)
    BY <1>1 DEF QueuesInv, Listed
  <1>3. w \in Seq(Queue)
    BY WithQueueOK DEF CInv, ConfTypeOK
  <1>4. CASE Known(n)
    <2>1. w = queues
      BY <1>4 DEF WithQueue
    <2>2. \E j \in 1 .. Len(queues) : Fold[queues[j].name] = Fold[n]
      BY <1>1, <1>4 DEF Known, Same
    <2> QED
      BY <1>2, <1>3, <2>1, <2>2
  <1>5. CASE ~Known(n)
    <2>1. PICK new : new = NewQueue(n)
      OBVIOUS
    <2>2. new \in Queue /\ new.name = n /\ new.type = "vms" /\ new.ns = NoValue
      <3>1. <<0, 0>> \in Int \X Int
        OBVIOUS
      <3> QED
        BY <2>1, <3>1 DEF NewQueue, Queue
    <2>3. PICK m \in Nat : m = Len(queues)
      BY <1>1
    <2>4. /\ Len(w) = m + 1 /\ w[m + 1] = new
          /\ \A j \in 1 .. m : w[j] = queues[j]
      BY <1>1, <1>5, <2>1, <2>2, <2>3, AppendProperties DEF WithQueue
    <2>5. LinesOf(n, Keys) = {}
      <3>1. ASSUME NEW i \in LinesOf(n, Keys)
            PROVE  FALSE
        <4>1. i \in LinesIn("queue", Keys) /\ Fold[SectionOf(i).name] = Fold[n]
          BY <3>1 DEF LinesOf
        <4>2. PICK j \in 1 .. Len(queues) : i \in LinesOf(queues[j].name, Keys)
          BY <1>2, <4>1
        <4>3. Fold[SectionOf(i).name] = Fold[queues[j].name]
          BY <4>2 DEF LinesOf
        <4> QED
          BY <1>1, <1>5, <4>1, <4>3 DEF Known, Same
      <3> QED
        BY <3>1
    <2>6. LinesOf(n, {"type"}) = {} /\ LinesOf(n, {"name_space"}) = {}
      <3>1. {"type"} \in SUBSET Keys /\ {"name_space"} \in SUBSET Keys
        BY DEF Keys, QueueKeys
      <3> QED
        BY <2>5, <3>1, SomeKeys
    <2>7. Settings(new)
      BY <2>2, <2>6 DEF Settings
    <2>8. 1 .. m + 1 = (1 .. m) \cup {m + 1}
      OBVIOUS
    <2>9. \A i \in LinesIn("queue", Keys) :
            \E j \in 1 .. Len(w) : i \in LinesOf(w[j].name, Keys)
      BY <1>2, <2>3, <2>4, <2>8
    <2>10. \E j \in 1 .. Len(w) : Fold[w[j].name] = Fold[n]
      BY <2>2, <2>4, <2>8
    <2>11. \A j \in 1 .. Len(w) :
              /\ Settings(w[j])
              /\ Fold[w[j].name] = Fold[n] \/ LinesOf(w[j].name, Keys) # {}
      BY <1>2, <2>2, <2>3, <2>4, <2>7, <2>8
    <2>12. ASSUME NEW j \in 1 .. Len(w), NEW k \in 1 .. Len(w), j < k
           PROVE  Before(w[j].name, w[k].name)
      <3>1. j \in 1 .. m
        BY <2>4, <2>12
      <3>2. CASE k \in 1 .. m
        BY <1>2, <2>3, <2>4, <2>12, <3>1, <3>2
      <3>3. CASE k = m + 1
        BY <1>2, <2>2, <2>3, <2>4, <2>5, <3>1, <3>3 DEF Before
      <3> QED
        BY <2>4, <2>8, <3>2, <3>3
    <2> QED
      BY <1>3, <2>9, <2>10, <2>11, <2>12
  <1> QED
    BY <1>4, <1>5

\* An entry keeps its settings while it gets no line,
LEMMA SettingsStay ==
  ASSUME file \in Seq(Line), NEW line \in Line, Read(line), NEW q \in Queue,
         \A keys : LinesOf(q.name, keys)' = LinesOf(q.name, keys), Settings(q)
  PROVE  Settings(q)'
  <1>1. \A keys : LinesOf(q.name, keys) # {} =>
          file'[Last(LinesOf(q.name, keys))] = file[Last(LinesOf(q.name, keys))]
    <2>1. \A keys : LinesOf(q.name, keys) \in SUBSET (1 .. Len(file))
      BY LinesAreLines
    <2> QED
      BY <2>1, LastSaysTheSame
  <1> QED
    BY <1>1 DEF Settings

\* and follows the line it gets.
LEMMA SettingsFollow ==
  ASSUME file \in Seq(Line), NEW line \in Line, Read(line), NEW q \in Queue,
         \A keys : LinesOf(q.name, keys)' =
           LinesOf(q.name, keys) \cup {i \in {Len(file) + 1} : line.key \in keys},
         Settings(q), NEW r, r = Configured(q, line.key, line.val), r.name = q.name
  PROVE  Settings(r)'
  <1>1. PICK n, m, types, spaces :
          /\ n = q.name /\ m = Len(file) + 1
          /\ types = LinesOf(n, {"type"}) /\ spaces = LinesOf(n, {"name_space"})
    OBVIOUS
  <1>2. /\ LinesOf(n, {"type"})' = IF line.key = "type" THEN types \cup {m} ELSE types
        /\ LinesOf(n, {"name_space"})' =
             IF line.key = "name_space" THEN spaces \cup {m} ELSE spaces
    <2>1. ASSUME NEW key
          PROVE  {i \in {m} : line.key \in {key}} = IF line.key = key THEN {m} ELSE {}
      OBVIOUS
    <2>2. \A keys : LinesOf(n, keys)' = LinesOf(n, keys) \cup {i \in {m} : line.key \in keys}
      BY <1>1
    <2>3. LinesOf(n, {"type"})' = types \cup IF line.key = "type" THEN {m} ELSE {}
      BY <1>1, <2>1, <2>2
    <2>4. LinesOf(n, {"name_space"})' = spaces \cup IF line.key = "name_space" THEN {m} ELSE {}
      BY <1>1, <2>1, <2>2
    <2> QED
      BY <2>3, <2>4
  <1>3. types \in SUBSET (1 .. Len(file)) /\ spaces \in SUBSET (1 .. Len(file))
    BY <1>1, LinesAreLines
  <1>4. /\ types \cup {m} # {} /\ file'[Last(types \cup {m})] = line
        /\ spaces \cup {m} # {} /\ file'[Last(spaces \cup {m})] = line
    BY <1>1, <1>3, LastSaysTheNew
  <1>5. /\ types # {} => file'[Last(types)] = file[Last(types)]
        /\ spaces # {} => file'[Last(spaces)] = file[Last(spaces)]
    BY <1>3, LastSaysTheSame
  <1>6. /\ r.type = IF line.key = "type" THEN QueueType(line.val) ELSE q.type
        /\ r.ns = IF line.key = "name_space" THEN line.val.text ELSE q.ns
    BY DEF Configured, Queue
  <1>7. /\ q.type = IF types = {} THEN "vms" ELSE QueueType(file[Last(types)].val)
        /\ q.ns = IF spaces = {} THEN NoValue ELSE file[Last(spaces)].val.text
    BY <1>1 DEF Settings
  <1>8. r.type = IF LinesOf(n, {"type"})' = {} THEN "vms"
                 ELSE QueueType(file'[Last(LinesOf(n, {"type"})')].val)
    BY <1>2, <1>4, <1>5, <1>6, <1>7
  <1>9. r.ns = IF LinesOf(n, {"name_space"})' = {} THEN NoValue
               ELSE file'[Last(LinesOf(n, {"name_space"})')].val.text
    BY <1>2, <1>4, <1>5, <1>6, <1>7
  <1> QED
    BY <1>1, <1>8, <1>9 DEF Settings

\* The order of two entries is kept, whichever gets the line.
LEMMA BeforeStays ==
  ASSUME file \in Seq(Line), AtSection, NEW line \in Line, Read(line), NEW n, NEW m,
         Before(n, m)
  PROVE  Before(n, m)'
  <1>1. PICK i \in LinesOf(n, Keys) : \A l \in LinesOf(m, Keys) : i < l
    BY DEF Before
  <1>2. PICK len \in Nat : len = Len(file)
    OBVIOUS
  <1>3. i \in 1 .. len
    BY <1>2, LinesAreLines
  <1>4. i \in LinesOf(n, Keys)'
    BY LinesOfGrow
  <1>5. \A l \in LinesOf(m, Keys)' : l \in LinesOf(m, Keys) \/ l = len + 1
    BY <1>2, LinesOfGrow
  <1>6. i < len + 1
    BY <1>3
  <1> QED
    BY <1>1, <1>4, <1>5, <1>6 DEF Before

\* A line elsewhere.
LEMMA QueuesStay ==
  ASSUME CInv, AtSection, QueuesInv, NEW line \in Line, Read(line),
         line.kind = "pair" => section.sec # "queue", queues' = queues
  PROVE  QueuesInv'
  <1>1. file \in Seq(Line)
    BY DEF CInv, ConfTypeOK
  <1>2. ASSUME NEW keys
        PROVE  /\ LinesIn("queue", keys)' = LinesIn("queue", keys)
               /\ \A n : LinesOf(n, keys)' = LinesOf(n, keys)
    <2>1. LinesIn("queue", keys)' =
            LinesIn("queue", keys) \cup
              {i \in {Len(file) + 1} : /\ line.kind = "pair" /\ line.key \in keys
                                       /\ section.sec = "queue"}
      BY <1>1, LinesInGrow
    <2>2. ASSUME NEW n
          PROVE  LinesOf(n, keys)' = LinesOf(n, keys)
      <3>1. LinesOf(n, keys)' =
              LinesOf(n, keys) \cup
                {i \in {Len(file) + 1} : /\ line.kind = "pair" /\ line.key \in keys
                                         /\ section.sec = "queue"
                                         /\ Fold[section.name] = Fold[n]}
        BY <1>1, LinesOfGrow
      <3> QED
        BY <3>1
    <2> QED
      BY <2>1, <2>2
  <1>3. ASSUME NEW q \in Queue, Settings(q)
        PROVE  Settings(q)'
    BY <1>1, <1>2, <1>3, SettingsStay
  <1>4. \A n, m : Before(n, m) => Before(n, m)'
    BY <1>1, BeforeStays
  <1> SUFFICES ASSUME EverySectionNamed'
               PROVE  QueuesInv'
    BY DEF QueuesInv
  <1>5. EverySectionNamed
    BY <1>1, StaysUnnamed
  <1>6. \A i \in LinesIn("queue", Keys)' :
          \E q \in Queue : Listed(q)' /\ i \in LinesOf(q.name, Keys)'
    BY <1>2, <1>5 DEF QueuesInv, Listed
  <1>7. \A q \in Queue : Listed(q)' => Settings(q)' /\ LinesOf(q.name, Keys)' # {}
    BY <1>2, <1>3, <1>5 DEF QueuesInv, Listed
  <1>8. \A p, q \in Queue : \A j, k \in 1 .. Len(queues') :
          queues'[j] = p /\ queues'[k] = q /\ j < k => Before(p.name, q.name)'
    BY <1>4, <1>5 DEF QueuesInv
  <1> QED
    BY <1>6, <1>7, <1>8 DEF QueuesInv

\* A line of a queue.
LEMMA QueueLineFollows ==
  ASSUME CInv, AtSection, QueuesInv, QueueLine
  PROVE  QueuesInv'
  <1>1. PICK line \in Line, n \in Names :
          /\ line.kind = "pair" /\ section.sec = "queue"
          /\ section.name \in {n, NoName}
          /\ Read(line)
          /\ queues' = [i \in 1 .. Len(WithQueue(n)) |->
                          LET q == WithQueue(n)[i]
                          IN  IF Same(n, q.name) THEN Configured(q, line.key, line.val) ELSE q]
    BY ConfAssumption DEF QueueLine
  <1>2. file \in Seq(Line) /\ line.val \in Val /\ line.key \in Keys
    BY DEF CInv, ConfTypeOK, Line
  <1> SUFFICES ASSUME EverySectionNamed'
               PROVE  QueuesInv'
    BY DEF QueuesInv
  <1>3. EverySectionNamed
    BY <1>1, <1>2, StaysUnnamed
  <1>4. section.name = n
    BY <1>1, <1>3, SectionNamed
  <1>5. PICK w, len, m : w = WithQueue(n) /\ len = Len(w) /\ m = Len(file) + 1
    OBVIOUS
  <1>6. /\ w \in Seq(Queue)
        /\ \A i \in LinesIn("queue", Keys) : \E j \in 1 .. len : i \in LinesOf(w[j].name, Keys)
        /\ \E j \in 1 .. len : Fold[w[j].name] = Fold[n]
        /\ \A j \in 1 .. len :
             /\ Settings(w[j])
             /\ Fold[w[j].name] = Fold[n] \/ LinesOf(w[j].name, Keys) # {}
        /\ \A j, k \in 1 .. len : j < k => Before(w[j].name, w[k].name)
    <2>1. /\ w \in Seq(Queue)
          /\ \A i \in LinesIn("queue", Keys) :
               \E j \in 1 .. Len(w) : i \in LinesOf(w[j].name, Keys)
          /\ \E j \in 1 .. Len(w) : Fold[w[j].name] = Fold[n]
          /\ \A j \in 1 .. Len(w) :
               /\ Settings(w[j])
               /\ Fold[w[j].name] = Fold[n] \/ LinesOf(w[j].name, Keys) # {}
          /\ \A j, k \in 1 .. Len(w) : j < k => Before(w[j].name, w[k].name)
      <3>1. CInv /\ QueuesInv /\ EverySectionNamed /\ n \in Names /\ w = WithQueue(n)
        BY <1>3, <1>5
      <3> QED
        BY ONLY <3>1, WithQueueWritten
    <2> QED
      BY <1>5, <2>1, Zenon
  <1>7. len \in Nat /\ \A j \in 1 .. len : w[j] \in Queue
    BY <1>5, <1>6
  <1>8. /\ DOMAIN queues' = 1 .. len
        /\ \A j \in 1 .. len :
             queues'[j] = IF Fold[n] = Fold[w[j].name] THEN Configured(w[j], line.key, line.val)
                          ELSE w[j]
    BY <1>1, <1>5 DEF Same
  <1>9. \A j \in 1 .. len : queues'[j] \in Queue /\ queues'[j].name = w[j].name
    BY <1>2, <1>7, <1>8, ConfiguredQueue
  <1>10. Len(queues') = len
    BY <1>7, <1>8
  <1>11. ASSUME NEW x, NEW keys
         PROVE  LinesOf(x, keys)' =
                  LinesOf(x, keys) \cup {i \in {m} : line.key \in keys /\ Fold[n] = Fold[x]}
    BY <1>1, <1>2, <1>4, <1>5, LinesOfGrow
  <1>12. LinesIn("queue", Keys)' = LinesIn("queue", Keys) \cup {m}
    BY <1>1, <1>2, <1>5, LinesInGrow
  <1>13. ASSUME NEW j \in 1 .. len, NEW q, q = queues'[j]
         PROVE  Settings(q)' /\ LinesOf(q.name, Keys)' # {}
    <2>1. w[j] \in Queue /\ q \in Queue /\ q.name = w[j].name
      BY <1>7, <1>9, <1>13
    <2>2. CASE Fold[n] = Fold[q.name]
      <3>1. q = Configured(w[j], line.key, line.val)
        BY <1>8, <1>13, <2>1, <2>2
      <3>2. \A keys : LinesOf(w[j].name, keys)' =
              LinesOf(w[j].name, keys) \cup {i \in {m} : line.key \in keys}
        BY <1>11, <2>1, <2>2
      <3>3. Settings(q)'
        BY <1>1, <1>2, <1>5, <1>6, <2>1, <3>1, <3>2, SettingsFollow
      <3>4. m \in LinesOf(q.name, Keys)'
        BY <1>2, <1>11, <2>2
      <3> QED
        BY <3>3, <3>4
    <2>3. CASE Fold[n] # Fold[q.name]
      <3>1. q = w[j]
        BY <1>8, <1>13, <2>1, <2>3
      <3>2. \A keys : LinesOf(q.name, keys)' = LinesOf(q.name, keys)
        BY <1>11, <2>3
      <3>3. Settings(q)'
        BY <1>1, <1>2, <1>6, <2>1, <3>1, <3>2, SettingsStay
      <3>4. LinesOf(q.name, Keys) # {}
        BY <1>6, <2>1, <2>3, <3>1
      <3> QED
        BY <3>2, <3>3, <3>4
    <2> QED
      BY <2>2, <2>3
  <1>14. ASSUME NEW i \in LinesIn("queue", Keys)'
         PROVE  \E j \in 1 .. len : i \in LinesOf(w[j].name, Keys)'
    <2>1. CASE i \in LinesIn("queue", Keys)
      BY <1>6, <1>11, <2>1
    <2>2. CASE i = m
      <3>1. PICK j \in 1 .. len : Fold[w[j].name] = Fold[n]
        BY <1>6
      <3>2. m \in LinesOf(w[j].name, Keys)'
        BY <1>2, <1>11, <3>1
      <3> QED
        BY <2>2, <3>2
    <2> QED
      BY <1>12, <2>1, <2>2
  <1>15. \A i \in LinesIn("queue", Keys)' :
           \E q \in Queue : Listed(q)' /\ i \in LinesOf(q.name, Keys)'
    <2>1. ASSUME NEW i \in LinesIn("queue", Keys)'
          PROVE  \E q \in Queue : Listed(q)' /\ i \in LinesOf(q.name, Keys)'
      <3>1. PICK j \in 1 .. len : i \in LinesOf(w[j].name, Keys)'
        BY <1>14
      <3>2. PICK q \in Queue : q = queues'[j] /\ q.name = w[j].name
        BY <1>9
      <3>3. Listed(q)'
        BY <1>10, <3>2 DEF Listed
      <3> QED
        BY <3>1, <3>2, <3>3
    <2> QED
      BY <2>1
  <1>16. \A q \in Queue : Listed(q)' => Settings(q)' /\ LinesOf(q.name, Keys)' # {}
    BY <1>10, <1>13 DEF Listed
  <1>17. ASSUME NEW p \in Queue, NEW q \in Queue, NEW j \in 1 .. len, NEW k \in 1 .. len,
                queues'[j] = p, queues'[k] = q, j < k
         PROVE  Before(p.name, q.name)'
    <2>1. Before(p.name, q.name)
      BY <1>6, <1>9, <1>17
    <2> QED
      BY <1>1, <1>2, <2>1, BeforeStays
  <1> QED
    BY <1>10, <1>15, <1>16, <1>17 DEF QueuesInv

LEMMA QueuesStep ==
  ASSUME CInv, AtSection, QueuesInv, [ConfNext]_confVars
  PROVE  QueuesInv'
  <1>1. CASE SkipLine
    BY <1>1, QueuesStay, SkippedIsALine DEF SkipLine, Skipped
  <1>2. CASE SectionLine
    BY <1>2, QueuesStay, ConfAssumption DEF SectionLine
  <1>3. CASE BrokenLine
    BY <1>3, QueuesStay, ConfAssumption DEF BrokenLine, Broken
  <1>4. CASE ResbdLine
    BY <1>4, QueuesStay, ConfAssumption DEF ResbdLine
  <1>5. CASE ParamsLine
    BY <1>5, QueuesStay, ConfAssumption DEF ParamsLine
  <1>6. CASE QueueLine
    BY <1>6, QueueLineFollows
  <1>7. CASE OtherLine
    BY <1>7, QueuesStay, ConfAssumption DEF OtherLine
  <1>8. CASE EndOfFile \/ NoFile \/ UNCHANGED confVars
    <2>1. file' = file /\ queues' = queues
      BY <1>8 DEF EndOfFile, NoFile, confVars
    <2>2. /\ \A keys : LinesIn("queue", keys)' = LinesIn("queue", keys)
          /\ \A n, keys : LinesOf(n, keys)' = LinesOf(n, keys)
      BY <2>1, NoLineRead
    <2>3. /\ EverySectionNamed' <=> EverySectionNamed
          /\ \A q : Listed(q)' <=> Listed(q)
          /\ \A n, m : Before(n, m)' <=> Before(n, m)
      BY <2>1, <2>2 DEF EverySectionNamed, Listed, Before
    <2>4. \A q : Settings(q)' <=> Settings(q)
      BY <2>1, <2>2 DEF Settings
    <2> QED
      BY <2>1, <2>2, <2>3, <2>4 DEF QueuesInv
  <1> QED
    BY <1>1, <1>2, <1>3, <1>4, <1>5, <1>6, <1>7, <1>8 DEF ConfNext

LEMMA QueuesStart == ConfInit => QueuesInv
  <1> SUFFICES ASSUME ConfInit
               PROVE  QueuesInv
    OBVIOUS
  <1>1. 1 .. Len(queues) = {}
    BY DEF ConfInit
  <1> QED
    BY <1>1, NothingRead DEF QueuesInv, Listed

\* While every queue's section has its name, the list is the one the file
\* describes: each queue once it has a key, in the order of their first keys, with
\* the last type and name space of its lines, however its sections are split,
\* spelt and mixed with others.
THEOREM QueuesFollowTheFile == ConfSpec => []QueuesAsWritten
  <1> DEFINE I == CInv /\ AtSection /\ QueuesInv
  <1>1. ConfInit => I
    BY ConfStart, NothingRead, QueuesStart
  <1>2. I /\ [ConfNext]_confVars => I'
    BY ConfStep, SectionStep, QueuesStep
  <1>3. I => QueuesAsWritten
    BY QueuesInvIsEnough DEF CInv
  <1> QED
    BY <1>1, <1>2, <1>3, PTL DEF ConfSpec
=============================================================================
