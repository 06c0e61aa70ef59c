-------------------------- MODULE CollectorProofs --------------------------
(***************************************************************************)
(* Theorems about Collector, for every number and size of datagrams, every *)
(* number of copies, of failed receptions and of restarts of the server.   *)
(***************************************************************************)
EXTENDS Collector, TLAPS, SequenceTheorems, FiniteSetTheorems, WellFoundedInduction

Blocks == (0..NDatagrams) \X (1..MaxChunks)

(* The script is at a name it has listed. *)
LEMMA NameListed == ASSUME todo \subseteq Names, todo # {} PROVE Name \in todo
<1> DEFINE Less == OpToRel(<, Nat)
<1>1. todo \subseteq Nat
  BY DEF Names
<1>2. \A m, n \in Nat : ~(<<m, n>> \in Less) => n <= m
  BY DEF OpToRel
<1>3. IsWellFoundedOn(Less, Nat)
  BY NatLessThanWellFounded
<1> HIDE DEF Less
<1>4. PICK n \in todo : \A m \in todo : ~(<<m, n>> \in Less)
  BY <1>1, <1>3, WFMin
<1>5. \A m \in todo : n <= m
  BY <1>1, <1>2, <1>4, Zenon
<1> QED  BY <1>5 DEF Name
-----------------------------------------------------------------------------
(***************************************************************************)
(* Types, by the part of the system a variable belongs to.  A copy in       *)
(* flight is one the network made; the server has a number for the file it  *)
(* is at, and the script a name.                                           *)
(***************************************************************************)
Entry == (0..NDatagrams) \X (0..BatchSize)
BinEntry == (Datagrams \X (1..BatchSize)) \cup {Noise}

NetTypes ==
  /\ nsent \in 0..NDatagrams
  /\ size \in [Datagrams -> 1..MaxChunks]
  /\ copies \in [Datagrams -> 0..MaxCopies]
  /\ net \in [Datagrams -> 0..MaxCopies]
  /\ \A d \in Datagrams : net[d] <= copies[d]

ServerTypes ==
  /\ rpc \in {"recvfrom", "fopen", "fwrite", "fclose"}
  /\ recvline \in [1..MaxChunks -> Blocks]
  /\ len \in 0..MaxChunks
  /\ count \in 0..NFiles
  /\ rpc # "recvfrom" => count \in Names
  /\ faults \in [failures : 0..MaxFailures, restarts : 0..MaxRestarts]

FileTypes ==
  /\ dir \subseteq Names
  /\ content \in [Names -> Seq(Blocks)]
  /\ origin \in [Names -> 0..NDatagrams]
  /\ closed \subseteq Names /\ failed \subseteq Names /\ reused \subseteq Names

ScriptTypes ==
  /\ cpc \in {"ls", "zpipe", "changeFormat", "rm"}
  /\ todo \subseteq Names
  /\ cpc # "ls" => todo # {}
  /\ read \in Seq(Blocks)
  /\ ready \subseteq Names
  /\ bin \in Seq(BinEntry)
  /\ tail \in BinEntry \cup {Nothing}
  /\ result \in [Names -> Seq(Line)]

TypeInv == NetTypes /\ ServerTypes /\ FileTypes /\ ScriptTypes

LEMMA TypeParts == TypeInv => TypeOK
<1>1. BinEntry \cup {Nothing} = (Datagrams \X (1..BatchSize)) \cup {Noise, Nothing}
  BY DEF BinEntry
<1> QED
  BY <1>1 DEF TypeInv, NetTypes, ServerTypes, FileTypes, ScriptTypes, TypeOK, Blocks, BinEntry

LEMMA Bounds ==
  /\ NDatagrams \in Nat /\ BatchSize \in Nat \ {0} /\ MaxChunks \in Nat \ {0}
  /\ MaxCopies \in Nat \ {0} /\ MaxFailures \in Nat /\ MaxRestarts \in Nat
  /\ NFiles \in Nat
<1>1. NDatagrams \in Nat /\ MaxCopies \in Nat /\ MaxFailures \in Nat
  BY CollectorAssumption
<1>2. NDatagrams * MaxCopies \in Nat
  BY <1>1, Z3
<1> QED  BY <1>1, <1>2, CollectorAssumption DEF NFiles

LEMMA TypeInit == Init => TypeInv
<1>1. SUFFICES ASSUME Init PROVE TypeInv
  OBVIOUS
<1>2. NetTypes
  BY <1>1, Bounds DEF Init, NetTypes, Datagrams
<1>3. ServerTypes
  BY <1>1, Bounds DEF Init, ServerTypes, Block, Blocks
<1>4. FileTypes
  BY <1>1, Bounds DEF Init, FileTypes
<1>5. ScriptTypes
  BY <1>1, Bounds DEF Init, ScriptTypes
<1> QED  BY <1>2, <1>3, <1>4, <1>5 DEF TypeInv

LEMMA TypeNetwork ==
  ASSUME TypeInv, Send \/ \E d \in Datagrams : Duplicate(d) \/ Lose(d)
  PROVE  TypeInv'
<1>1. UNCHANGED <<server, files, faults, script>>
  BY DEF Send, Duplicate, Lose
<1>2. ServerTypes' /\ FileTypes' /\ ScriptTypes'
  BY <1>1 DEF TypeInv, ServerTypes, FileTypes, ScriptTypes, server, files, script
<1>3. ASSUME Send PROVE NetTypes'
  <2>1. PICK k \in 1..MaxChunks : size' = [size EXCEPT ![nsent + 1] = k]
    BY <1>3 DEF Send
  <2> QED  BY <1>3, <2>1, Bounds DEF Send, TypeInv, NetTypes, Datagrams
<1>4. ASSUME NEW d \in Datagrams, Duplicate(d) \/ Lose(d) PROVE NetTypes'
  BY <1>4, Bounds DEF Duplicate, Lose, TypeInv, NetTypes
<1> QED  BY <1>2, <1>3, <1>4 DEF TypeInv

(* The first k blocks of the receive buffer, as a file. *)
LEMMA BufferPart ==
  ASSUME ServerTypes, NEW k \in Int, k <= MaxChunks
  PROVE  /\ SubSeq(recvline, 1, k) \in Seq(Blocks)
         /\ Len(SubSeq(recvline, 1, k)) = IF k <= 0 THEN 0 ELSE k
         /\ \A b \in 1..k : SubSeq(recvline, 1, k)[b] = recvline[b]
<1>1. \A b \in 1..k : recvline[b] \in Blocks
  BY Bounds DEF ServerTypes
<1>2. k - 1 + 1 = k /\ \A b \in 1..k : 1 + b - 1 = b
  OBVIOUS
<1>3. /\ SubSeq(recvline, 1, k) \in Seq(Blocks)
      /\ Len(SubSeq(recvline, 1, k)) = IF 1 <= k THEN k - 1 + 1 ELSE 0
      /\ \A b \in 1..(k - 1 + 1) : SubSeq(recvline, 1, k)[b] = recvline[1 + b - 1]
  BY <1>1, SubSeqProperties
<1> QED  BY <1>2, <1>3

LEMMA TypeServer ==
  ASSUME TypeInv, ServerStep \/ ReceiveFails \/ Restart
  PROVE  TypeInv'
<1>1. UNCHANGED script /\ UNCHANGED <<nsent, size, copies>>
  BY DEF ServerStep, Receive, OpenFile, WriteFile, CloseFile, ReceiveFails, Restart, network
<1>2. ScriptTypes'
  BY <1>1 DEF TypeInv, ScriptTypes, script
<1>3. ASSUME NEW d \in Datagrams, Receive(d) PROVE NetTypes' /\ ServerTypes' /\ FileTypes'
  <2>1. NetTypes'
    BY <1>3, Bounds DEF Receive, TypeInv, NetTypes
  <2>2. recvline' \in [1..MaxChunks -> Blocks]
    <3>1. \A b \in 1..MaxChunks : Block(d, b) \in Blocks
      BY DEF Block, Blocks, Datagrams
    <3> QED  BY <1>3, <3>1 DEF Receive, TypeInv, ServerTypes
  <2>3. ServerTypes'
    BY <1>3, <2>2, Bounds DEF Receive, TypeInv, ServerTypes, NetTypes
  <2>4. FileTypes'
    BY <1>3, Bounds DEF Receive, TypeInv, FileTypes, Datagrams
  <2> QED  BY <2>1, <2>3, <2>4
<1>4. ASSUME OpenFile PROVE NetTypes' /\ ServerTypes' /\ FileTypes'
  <2>1. NetTypes' /\ ServerTypes'
    BY <1>4 DEF OpenFile, TypeInv, NetTypes, ServerTypes, network
  <2>2. FileTypes'
    BY <1>4 DEF OpenFile, TypeInv, FileTypes, ServerTypes
  <2> QED  BY <2>1, <2>2
<1>7. ASSUME ReceiveFails PROVE NetTypes' /\ ServerTypes' /\ FileTypes'
  <2>1. NetTypes'
    BY <1>7 DEF ReceiveFails, TypeInv, NetTypes, network
  <2>2. faults' \in [failures : 0..MaxFailures, restarts : 0..MaxRestarts]
    BY <1>7, Bounds DEF ReceiveFails, TypeInv, ServerTypes
  <2>3. ServerTypes'
    BY <1>7, <2>2 DEF ReceiveFails, TypeInv, ServerTypes
  <2>4. FileTypes'
    BY <1>7 DEF ReceiveFails, TypeInv, FileTypes
  <2> QED  BY <2>1, <2>3, <2>4
<1>5. ASSUME WriteFile \/ CloseFile PROVE NetTypes' /\ ServerTypes' /\ FileTypes'
  <2>1. NetTypes' /\ ServerTypes'
    BY <1>5, Bounds DEF WriteFile, CloseFile, TypeInv, NetTypes, ServerTypes, network, Names
  <2>2. SubSeq(recvline, 1, len - 1) \in Seq(Blocks) /\ SubSeq(recvline, 1, len) \in Seq(Blocks)
    <3>1. len \in Int /\ len - 1 <= MaxChunks /\ len <= MaxChunks
      BY Bounds DEF TypeInv, ServerTypes
    <3> QED  BY <3>1, BufferPart DEF TypeInv
  <2>3. FileTypes'
    BY <1>5, <2>2 DEF WriteFile, CloseFile, Written, TypeInv, FileTypes, ServerTypes
  <2> QED  BY <2>1, <2>3
<1>6. ASSUME Restart PROVE NetTypes' /\ ServerTypes' /\ FileTypes'
  <2>1. recvline' \in [1..MaxChunks -> Blocks]
    BY <1>6, Bounds DEF Restart, Block, Blocks
  <2>2. ServerTypes'
    BY <1>6, <2>1, Bounds DEF Restart, TypeInv, ServerTypes
  <2>3. NetTypes' /\ FileTypes'
    BY <1>6 DEF Restart, TypeInv, NetTypes, FileTypes, network, files
  <2> QED  BY <2>2, <2>3
<1> QED  BY <1>2, <1>3, <1>4, <1>5, <1>6, <1>7 DEF ServerStep, TypeInv

(* What decompression can give: the first k records of datagram d, and noise. *)
LEMMA RecordsPart ==
  ASSUME NEW d \in Datagrams, NEW k \in 0..BatchSize
  PROVE  /\ SubSeq(Records(d), 1, k) \in Seq(BinEntry)
         /\ Len(SubSeq(Records(d), 1, k)) = k
         /\ \A s \in 1..k : SubSeq(Records(d), 1, k)[s] = Record(d, s)
<1>1. \A s \in 1..k : Records(d)[s] = Record(d, s) /\ Record(d, s) \in BinEntry
  BY Bounds DEF Records, Record, BinEntry
<1>2. k - 1 + 1 = k /\ (\A s \in 1..k : 1 + s - 1 = s) /\ (1 <= k \/ k = 0)
  OBVIOUS
<1>3. /\ SubSeq(Records(d), 1, k) \in Seq(BinEntry)
      /\ Len(SubSeq(Records(d), 1, k)) = IF 1 <= k THEN k - 1 + 1 ELSE 0
      /\ \A s \in 1..(k - 1 + 1) : SubSeq(Records(d), 1, k)[s] = Records(d)[1 + s - 1]
  BY <1>1, SubSeqProperties
<1> QED  BY <1>1, <1>2, <1>3

LEMMA AllRecords ==
  ASSUME NEW d \in Datagrams
  PROVE  /\ Records(d) \in Seq(BinEntry) /\ Len(Records(d)) = BatchSize
         /\ \A s \in 1..BatchSize : Records(d)[s] = Record(d, s)
<1>1. \A s \in 1..BatchSize : Record(d, s) \in BinEntry
  BY DEF Record, BinEntry
<1> QED  BY <1>1, Bounds DEF Records

LEMMA SourceType == ASSUME read \in Seq(Blocks) PROVE Source(read) \in 0..NDatagrams
<1>1. CASE read = << >>
  BY <1>1, Bounds DEF Source
<1>2. CASE read # << >>
  <2>1. read[1] \in Blocks
    BY <1>2
  <2> QED  BY <1>2, <2>1 DEF Source, Blocks
<1> QED  BY <1>1, <1>2

(* A stream cut short, or one that goes on as another stream. *)
Whole(d) == \A b \in DOMAIN read : read[b] = Block(d, b)

InflatePart(d, k, rest) ==
  /\ d = Source(read)
  /\ k \in 0..(IF d = 0 THEN 0 ELSE BatchSize)
  /\ rest = << >> \/ (rest = <<Noise>> /\ ~Whole(d))
  /\ bin' = SubSeq(Records(d), 1, k) \o rest
  /\ \/ tail' = Nothing
     \/ rest = << >> /\ d # 0 /\ k < BatchSize /\ tail' = Record(d, k + 1)
     \/ ~Whole(d) /\ tail' = Noise

LEMMA InflateCases ==
  ASSUME Inflate
  PROVE  \/ Complete /\ bin' = Records(Source(read)) /\ tail' = Nothing
         \/ ~Complete /\ ~More /\ \E d, k, rest : InflatePart(d, k, rest)
<1> DEFINE d == Source(read)
           most == IF d = 0 THEN 0 ELSE BatchSize
<1>1. \/ Complete /\ bin' = Records(d) /\ tail' = Nothing
      \/ /\ ~Complete /\ ~More
         /\ \E k \in 0..most, rest \in (IF Whole(d) THEN {<< >>} ELSE {<< >>, <<Noise>>}) :
              /\ bin' = SubSeq(Records(d), 1, k) \o rest
              /\ \/ tail' = Nothing
                 \/ rest = << >> /\ k < most /\ tail' = Record(d, k + 1)
                 \/ ~Whole(d) /\ tail' = Noise
  BY DEF Inflate, Whole
<1>2. ASSUME NEW k \in 0..most, k < most PROVE d # 0 /\ k < BatchSize
  BY <1>2
<1> QED  BY <1>1, <1>2 DEF InflatePart

LEMMA InflatePartType ==
  ASSUME ScriptTypes, NEW d, NEW k, NEW rest, InflatePart(d, k, rest)
  PROVE  /\ bin' \in Seq(BinEntry) /\ tail' \in BinEntry \cup {Nothing}
         /\ rest = << >> => /\ Len(bin') = k
                           /\ \A s \in 1..k : bin'[s] = Record(d, s)
<1>1. d \in 0..NDatagrams
  BY SourceType DEF InflatePart, ScriptTypes
<1>2. SubSeq(Records(d), 1, k) \in Seq(BinEntry)
      /\ Len(SubSeq(Records(d), 1, k)) = k
      /\ \A s \in 1..k : SubSeq(Records(d), 1, k)[s] = Record(d, s)
  <2>1. CASE d = 0
    <3>1. k = 0
      BY <2>1 DEF InflatePart
    <3>2. SubSeq(Records(d), 1, 0) = << >>
      BY SubSeqEmpty
    <3> QED  BY <3>1, <3>2
  <2>2. CASE d # 0
    <3>1. d \in Datagrams /\ k \in 0..BatchSize
      BY <1>1, <2>2, Bounds DEF InflatePart, Datagrams
    <3> QED  BY <3>1, RecordsPart
  <2> QED  BY <2>1, <2>2
<1>3. rest \in Seq(BinEntry)
  <2>1. Noise \in BinEntry
    BY DEF BinEntry
  <2>2. <<Noise>> \in Seq(BinEntry) /\ << >> \in Seq(BinEntry)
    BY <2>1
  <2> QED  BY <2>2 DEF InflatePart
<1>4. bin' = SubSeq(Records(d), 1, k) \o rest
  BY DEF InflatePart
<1>5. k \in Nat
  BY Bounds DEF InflatePart
<1>6. bin' \in Seq(BinEntry)
  BY <1>2, <1>3, <1>4, ConcatProperties
<1>7. ASSUME rest = << >> PROVE bin' = SubSeq(Records(d), 1, k)
  BY <1>2, <1>4, <1>7, ConcatEmptySeq
<1>8. ASSUME d # 0, k < BatchSize PROVE Record(d, k + 1) \in BinEntry
  BY <1>1, <1>5, <1>8, Bounds DEF Record, BinEntry, Datagrams
<1>9. Noise \in BinEntry
  BY DEF BinEntry
<1>10. tail' \in BinEntry \cup {Nothing}
  BY <1>8, <1>9 DEF InflatePart
<1> QED  BY <1>2, <1>6, <1>7, <1>10

(* What changeFormat prints after the lines of the whole records. *)
LastLine(records, part) ==
  LET held == IF records = << >> THEN Stack ELSE Last(records)
  IN  IF part = Nothing THEN held ELSE Torn(part, held)

LEMMA LinesFacts ==
  ASSUME NEW records \in Seq(BinEntry), NEW part \in BinEntry \cup {Nothing}
  PROVE  /\ Lines(records, part) \in Seq(Line)
         /\ Len(Lines(records, part)) = Len(records) + 1
         /\ \A s \in 1..Len(records) : Lines(records, part)[s] = records[s]
         /\ Lines(records, part)[Len(records) + 1] = LastLine(records, part)
<1> DEFINE held == IF records = << >> THEN Stack ELSE Last(records)
           last == IF part = Nothing THEN held ELSE Torn(part, held)
<1>1. BinEntry \subseteq Entry /\ Stack \in Entry /\ Entry \subseteq Line
  BY Bounds DEF BinEntry, Entry, Line, Noise, Stack, Datagrams
<1>2. records \in Seq(Line)
  BY <1>1, SeqMonotonic
<1>3. held \in Entry
  <2>1. ASSUME records # << >> PROVE Last(records) \in BinEntry
    BY <2>1 DEF Last
  <2> QED  BY <1>1, <2>1
<1>4. ASSUME part # Nothing PROVE Torn(part, held) \in Line
  <2>1. part \in Entry
    BY <1>1, <1>4
  <2> HIDE DEF held
  <2>2. /\ part[1] \in 0..NDatagrams /\ part[2] \in 0..BatchSize
        /\ held[1] \in 0..NDatagrams /\ held[2] \in 0..BatchSize
    BY <1>3, <2>1 DEF Entry
  <2> QED  BY <2>2 DEF Torn, Line
<1>5. last \in Line
  BY <1>1, <1>3, <1>4
<1>6. Lines(records, part) = Append(records, last) /\ LastLine(records, part) = last
  BY DEF Lines, LastLine
<1> HIDE DEF last
<1> QED  BY <1>2, <1>5, <1>6

LEMMA TypeScript == ASSUME TypeInv, ScriptStep PROVE TypeInv'
<1>1. UNCHANGED <<network, server, content, origin, closed, failed, reused, faults>>
  BY DEF ScriptStep, List, ReadFile, Inflate, ChangeFormat, RemoveFile, files
<1>2. NetTypes' /\ ServerTypes'
  BY <1>1 DEF TypeInv, NetTypes, ServerTypes, network, server
<1>3. FileTypes'
  BY <1>1 DEF TypeInv, FileTypes, ScriptStep, List, ReadFile, Inflate, ChangeFormat, RemoveFile,
              files
<1>4. ASSUME List PROVE ScriptTypes'
  BY <1>4 DEF List, TypeInv, ScriptTypes, FileTypes
<1>5. ASSUME ReadFile PROVE ScriptTypes'
  <2>1. Name \in Names
    BY <1>5, NameListed DEF ReadFile, TypeInv, ScriptTypes
  <2>2. Len(read) + 1 \in 1..Len(content[Name])
    BY <1>5, <2>1 DEF ReadFile, More, TypeInv, ScriptTypes, FileTypes
  <2>3. content[Name][Len(read) + 1] \in Blocks
    BY <2>1, <2>2 DEF TypeInv, FileTypes
  <2> QED  BY <1>5, <2>3 DEF ReadFile, TypeInv, ScriptTypes
<1>6. ASSUME Inflate PROVE ScriptTypes'
  <2>1. bin' \in Seq(BinEntry) /\ tail' \in BinEntry \cup {Nothing}
    <3>1. CASE Complete /\ bin' = Records(Source(read)) /\ tail' = Nothing
      BY <3>1, AllRecords DEF Complete, IsStream
    <3> QED  BY <1>6, <3>1, InflateCases, InflatePartType DEF TypeInv
  <2> QED  BY <1>6, <2>1 DEF Inflate, TypeInv, ScriptTypes
<1>7. ASSUME ChangeFormat PROVE ScriptTypes'
  <2>1. Lines(bin, tail) \in Seq(Line)
    BY LinesFacts DEF TypeInv, ScriptTypes
  <2> QED  BY <1>7, <2>1 DEF ChangeFormat, TypeInv, ScriptTypes
<1>8. ASSUME RemoveFile PROVE ScriptTypes'
  BY <1>8 DEF RemoveFile, TypeInv, ScriptTypes
<1> QED  BY <1>2, <1>3, <1>4, <1>5, <1>6, <1>7, <1>8 DEF ScriptStep, TypeInv

LEMMA TypeInvariant == Spec => []TypeInv
<1>1. ASSUME TypeInv, UNCHANGED vars PROVE TypeInv'
  BY <1>1 DEF vars, network, server, files, script, TypeInv, NetTypes, ServerTypes, FileTypes,
              ScriptTypes
<1>2. TypeInv /\ [Next]_vars => TypeInv'
  BY <1>1, TypeNetwork, TypeServer, TypeScript DEF Next
<1> QED  BY TypeInit, <1>2, PTL DEF Spec

(* Every variable of the receiving side keeps its type; there is a name for     *)
(* every file the server makes.                                               *)
THEOREM CollectorTypeCorrect == Spec => []TypeOK
BY TypeInvariant, TypeParts, PTL
-----------------------------------------------------------------------------
(***************************************************************************)
(* Numbers.  Until a server is restarted it has given every number below    *)
(* count once; a number nobody has received anything for has no file and no *)
(* result.  What is received was sent.                                     *)
(***************************************************************************)
Touched == {n \in Names : origin[n] # 0} \cup failed
Active(n) == rpc # "recvfrom" /\ count = n

NumberInv ==
  /\ faults.restarts = 0 => \A n \in Touched : n < count \/ Active(n)
  /\ \A n \in Names \ Touched :
       /\ content[n] = << >> /\ result[n] = << >>
       /\ n \notin dir /\ n \notin todo /\ n \notin closed /\ ~Active(n)
  /\ \A d \in Datagrams : net[d] > 0 => d <= nsent
  /\ \A n \in Names : origin[n] <= nsent
  /\ cpc # "zpipe" => read = << >>

LEMMA TakenFacts ==
  /\ faults.restarts = 0 => Taken = {}
  /\ faults.restarts # 0 => Taken = Touched
BY DEF Taken, Touched

(* A number that is given again belongs to reused. *)
LEMMA NewNumber ==
  ASSUME TypeInv, NumberInv, rpc = "recvfrom", count \in Names, count \in Touched
  PROVE  count \in Taken
<1>1. ~(faults.restarts = 0)
  <2>1. ~(count < count) /\ ~Active(count)
    BY DEF TypeInv, ServerTypes, Active
  <2> QED  BY <2>1 DEF NumberInv
<1> QED  BY <1>1, TakenFacts

LEMMA NumberInit == Init => NumberInv
BY DEF Init, NumberInv, Touched, Active, Datagrams, Names

LEMMA NumberNetwork ==
  ASSUME TypeInv, NumberInv, Send \/ \E d \in Datagrams : Duplicate(d) \/ Lose(d)
  PROVE  NumberInv'
<1>1. UNCHANGED <<server, files, faults, script>>
  BY DEF Send, Duplicate, Lose
<1>2. Touched' = Touched /\ \A n : Active(n)' = Active(n)
  BY <1>1 DEF Touched, Active, files, server
<1>3. nsent \in Nat /\ nsent' \in Nat /\ nsent <= nsent'
  BY DEF Send, Duplicate, Lose, TypeInv, NetTypes
<1>4. \A d \in Datagrams : net'[d] > 0 => d <= nsent'
  <2>1. CASE Send
    BY <2>1 DEF Send, NumberInv, TypeInv, NetTypes, Datagrams
  <2>2. ASSUME NEW d \in Datagrams, Duplicate(d) \/ Lose(d)
        PROVE  \A e \in Datagrams : net'[e] > 0 => e <= nsent'
    BY <2>2 DEF Duplicate, Lose, NumberInv, TypeInv, NetTypes
  <2> QED  BY <2>1, <2>2
<1>5. \A n \in Names : origin'[n] <= nsent'
  BY <1>1, <1>3, Bounds DEF NumberInv, files, TypeInv, FileTypes
<1> QED  BY <1>1, <1>2, <1>4, <1>5 DEF NumberInv, server, files, script

LEMMA NumberReceive ==
  ASSUME TypeInv, NumberInv, (\E d \in Datagrams : Receive(d)) \/ ReceiveFails
  PROVE  NumberInv'
<1>1. /\ rpc = "recvfrom" /\ rpc' # "recvfrom" /\ count \in Names
      /\ UNCHANGED <<count, dir, content, closed, script, nsent>>
      /\ faults'.restarts = faults.restarts
  BY DEF Receive, ReceiveFails, network, TypeInv, ServerTypes
<1>2. /\ Touched' = Touched \cup {count}
      /\ \A n \in Names : origin'[n] = origin[n] \/ n = count
  <2>1. ASSUME NEW d \in Datagrams, Receive(d) PROVE <1>2!1 /\ <1>2!2
    BY <2>1, <1>1 DEF Receive, Touched, TypeInv, FileTypes, Datagrams
  <2>2. ASSUME ReceiveFails PROVE <1>2!1 /\ <1>2!2
    BY <2>2, <1>1 DEF ReceiveFails, Touched
  <2> QED  BY <2>1, <2>2
<1>3. \A n : Active(n)' <=> n = count
  BY <1>1 DEF Active
<1>4. faults'.restarts = 0 => \A n \in Touched' : n < count \/ n = count
  BY <1>1, <1>2 DEF NumberInv, Active
<1>5. /\ \A d \in Datagrams : net'[d] > 0 => d <= nsent'
      /\ \A n \in Names : origin'[n] <= nsent'
  <2>1. ASSUME NEW d \in Datagrams, Receive(d) PROVE <1>5!1 /\ <1>5!2
    BY <2>1, <1>1 DEF Receive, NumberInv, TypeInv, NetTypes, FileTypes
  <2>2. ASSUME ReceiveFails PROVE <1>5!1 /\ <1>5!2
    BY <2>2 DEF ReceiveFails, NumberInv, network
  <2> QED  BY <2>1, <2>2
<1> QED  BY <1>1, <1>2, <1>3, <1>4, <1>5 DEF NumberInv, script

LEMMA NumberServer ==
  ASSUME TypeInv, NumberInv, OpenFile \/ WriteFile \/ CloseFile \/ Restart
  PROVE  NumberInv'
<1>1. UNCHANGED <<origin, failed, network, script>>
  BY DEF OpenFile, WriteFile, CloseFile, Restart, files
<1>2. Touched' = Touched
  BY <1>1 DEF Touched
<1>3. CASE Restart
  <2>1. faults'.restarts # 0
    BY <1>3 DEF Restart, TypeInv, ServerTypes
  <2> QED  BY <1>1, <1>2, <1>3, <2>1 DEF Restart, NumberInv, Active, files, network, script
<1>4. CASE OpenFile \/ WriteFile \/ CloseFile
  <2>1. count \in Names /\ count \in Touched /\ rpc # "recvfrom" /\ UNCHANGED faults
    BY <1>4 DEF OpenFile, WriteFile, CloseFile, TypeInv, ServerTypes, NumberInv, Active
  <2>2. \A n \in Names \ Touched :
          /\ content'[n] = content[n] /\ n \notin dir' /\ n \notin closed' /\ ~Active(n)'
    <3>1. \A n \in Names \ Touched : n # count
      BY <2>1
    <3>2. \A n \in Names \ Touched : n \notin dir /\ n \notin closed /\ ~Active(n)
      BY DEF NumberInv
    <3> QED
      BY <1>4, <2>1, <3>1, <3>2 DEF OpenFile, WriteFile, CloseFile, TypeInv, FileTypes, Active
  <2>3. faults'.restarts = 0 => \A n \in Touched : n < count' \/ Active(n)'
    BY <1>4, <2>1 DEF OpenFile, WriteFile, CloseFile, NumberInv, Active, TypeInv, ServerTypes,
                      FileTypes, Touched, Names
  <2> QED  BY <1>1, <1>2, <2>2, <2>3 DEF NumberInv, network, script
<1> QED  BY <1>3, <1>4

LEMMA NumberScript == ASSUME TypeInv, NumberInv, ScriptStep PROVE NumberInv'
<1>1. UNCHANGED <<nsent, net, rpc, count, content, origin, closed, failed, faults>>
  BY DEF ScriptStep, List, ReadFile, Inflate, ChangeFormat, RemoveFile, network, server, files
<1>2. Touched' = Touched /\ \A n : Active(n)' <=> Active(n)
  BY <1>1 DEF Touched, Active
<1>3. cpc' # "zpipe" => read' = << >>
  BY DEF ScriptStep, List, ReadFile, Inflate, ChangeFormat, RemoveFile, NumberInv
<1>4. \A n \in Names \ Touched : result'[n] = << >> /\ n \notin dir' /\ n \notin todo'
  <2>1. CASE List \/ RemoveFile
    BY <2>1 DEF List, RemoveFile, NumberInv, files
  <2>2. CASE ReadFile \/ Inflate
    BY <2>2 DEF ReadFile, Inflate, NumberInv, files
  <2>3. CASE ChangeFormat
    <3>1. Name \in todo
      BY <2>3, NameListed DEF ChangeFormat, TypeInv, ScriptTypes
    <3> QED  BY <2>3, <3>1 DEF ChangeFormat, NumberInv, TypeInv, ScriptTypes, files
  <2> QED  BY <2>1, <2>2, <2>3 DEF ScriptStep
<1> QED  BY <1>1, <1>2, <1>3, <1>4 DEF NumberInv

LEMMA NumberInvariant == Spec => []NumberInv
<1>1. ASSUME NumberInv, UNCHANGED vars PROVE NumberInv'
  BY <1>1 DEF vars, network, server, files, script, NumberInv, Touched, Active
<1>2. TypeInv /\ NumberInv /\ [Next]_vars => NumberInv'
  BY <1>1, NumberNetwork, NumberReceive, NumberServer, NumberScript DEF Next, ServerStep
<1> QED  BY NumberInit, <1>2, TypeInvariant, PTL DEF Spec
-----------------------------------------------------------------------------
(***************************************************************************)
(* Files.  The receive buffer begins with a whole stream, the one received  *)
(* last; so does, as far as it goes, what is made from it: the file, what   *)
(* the script has read of it, the records, the lines.                      *)
(***************************************************************************)
Extent(d) == IF d = 0 THEN MaxChunks ELSE size[d]
Begins(q, d) == Len(q) <= MaxChunks /\ \A b \in 1..Len(q) : b <= Extent(d) => q[b] = Block(d, b)
BufferBegins(d) == \A b \in 1..MaxChunks : b <= Extent(d) => recvline[b] = Block(d, b)

BinOf(d) ==
  /\ \A s \in 1..Len(bin) : bin[s] = Record(d, s)
  /\ tail # Nothing => tail = Record(d, Len(bin) + 1) /\ d # 0

ResultLines(lines, d) ==
  /\ \A s \in 1..(Len(lines) - 1) : lines[s] = Record(d, s)
  /\ lines # << >> => Last(lines) \in Archive!LastLines(d, Len(lines) - 1)

FileInv(n, d) ==
  /\ d \in 0..nsent
  /\ n \notin failed => d = origin[n]
  /\ Begins(content[n], d)
  /\ Active(n) => BufferBegins(d)
  /\ cpc = "zpipe" /\ Name = n => Begins(read, d)
  /\ cpc = "changeFormat" /\ Name = n => BinOf(d)
  /\ ResultLines(result[n], d)

FilesInv ==
  /\ \E d \in 0..nsent : BufferBegins(d)
  /\ \A n \in Names \ reused : \E d : FileInv(n, d)

LEMMA ExtentFacts ==
  ASSUME NetTypes, NEW d \in 0..nsent
  PROVE  /\ d \in 0..NDatagrams
         /\ d # 0 => d \in Datagrams
         /\ Extent(d) \in 1..MaxChunks
BY Bounds DEF NetTypes, Extent, Datagrams

LEMMA FilesInit == ASSUME Init PROVE FilesInv
<1>1. BufferBegins(0) /\ nsent = 0
  BY DEF Init, BufferBegins
<1>2. \A n \in Names : FileInv(n, 0)
  BY Bounds DEF Init, FileInv, Begins, Active, ResultLines
<1> QED  BY <1>1, <1>2 DEF FilesInv

(* What was sent keeps its size. *)
LEMMA FilesNetwork ==
  ASSUME TypeInv, FilesInv, Send \/ \E d \in Datagrams : Duplicate(d) \/ Lose(d)
  PROVE  FilesInv'
<1>1. UNCHANGED <<server, files, faults, script>>
  BY DEF Send, Duplicate, Lose
<1>2. nsent \in Nat /\ nsent' \in Nat /\ nsent <= nsent'
  BY DEF Send, Duplicate, Lose, TypeInv, NetTypes
<1>3. \A d \in 0..nsent : Extent(d)' = Extent(d)
  <2>1. CASE Send
    <3>1. PICK k \in 1..MaxChunks : size' = [size EXCEPT ![nsent + 1] = k]
      BY <2>1 DEF Send
    <3>2. \A d \in 1..nsent : size'[d] = size[d]
      BY <1>2, <3>1, Bounds DEF TypeInv, NetTypes, Datagrams
    <3> QED  BY <3>2 DEF Extent
  <2>2. CASE UNCHANGED size
    BY <2>2 DEF Extent
  <2> QED  BY <2>1, <2>2 DEF Duplicate, Lose
<1>4. \A d \in 0..nsent : /\ d \in 0..nsent'
                          /\ BufferBegins(d)' <=> BufferBegins(d)
                          /\ \A q : Begins(q, d) => Begins(q, d)'
  BY <1>1, <1>2, <1>3 DEF BufferBegins, Begins, server
<1>5. Name' = Name
  BY <1>1 DEF Name, script
<1>6. ASSUME NEW n, NEW d, FileInv(n, d) PROVE FileInv(n, d)'
  BY <1>1, <1>4, <1>5, <1>6 DEF FileInv, BinOf, ResultLines, Archive!LastLines, Active, Begins,
     server, files, script
<1> QED  BY <1>1, <1>4, <1>6 DEF FilesInv, files

(* A new number: either nobody had it before, or it is now reused. *)
LEMMA NewFile ==
  ASSUME TypeInv, NumberInv, rpc = "recvfrom", count \in Names,
         reused' = reused \cup ({count} \cap Taken), count \notin reused'
  PROVE  /\ count \notin Touched
         /\ content[count] = << >> /\ result[count] = << >>
         /\ ~(cpc # "ls" /\ Name = count)
<1>1. count \notin Touched
  BY NewNumber
<1>2. count \notin todo /\ content[count] = << >> /\ result[count] = << >>
  BY <1>1 DEF NumberInv
<1>3. cpc # "ls" => Name \in todo
  BY NameListed DEF TypeInv, ScriptTypes
<1> QED  BY <1>1, <1>2, <1>3

LEMMA FilesReceive ==
  ASSUME TypeInv, NumberInv, FilesInv, NEW d \in Datagrams, Receive(d)
  PROVE  FilesInv'
<1>1. /\ rpc = "recvfrom" /\ rpc' # "recvfrom" /\ count \in Names
      /\ UNCHANGED <<count, content, failed, script, nsent, size>>
      /\ reused' = reused \cup ({count} \cap Taken)
      /\ \A n \in Names : origin'[n] = IF n = count THEN d ELSE origin[n]
  BY DEF Receive, TypeInv, FileTypes
<1>2. d \in 0..nsent /\ d # 0 /\ size[d] \in Nat
  BY DEF Receive, NumberInv, Datagrams, TypeInv, NetTypes
<1>3. BufferBegins(d)'
  BY <1>1, <1>2 DEF Receive, BufferBegins, Extent, TypeInv, NetTypes
<1>4. Name' = Name
  BY <1>1 DEF Name, script
<1>5. \A e, q : Begins(q, e)' <=> Begins(q, e)
  BY <1>1 DEF Begins, Extent
<1>6. ASSUME NEW n \in Names, n # count, NEW e, FileInv(n, e) PROVE FileInv(n, e)'
  BY <1>1, <1>4, <1>5, <1>6 DEF FileInv, BinOf, ResultLines, Archive!LastLines, Active, Begins,
     Extent, script
<1>7. ASSUME count \notin reused' PROVE FileInv(count, d)'
  <2>1. content[count] = << >> /\ result[count] = << >> /\ ~(cpc # "ls" /\ Name = count)
    BY <1>1, <1>7, NewFile
  <2>2. Begins(content[count], d)
    BY <2>1, Bounds DEF Begins
  <2> QED
    BY <1>1, <1>2, <1>3, <1>4, <1>5, <2>1, <2>2
       DEF FileInv, ResultLines, Active, Begins, Extent, script
<1> QED  BY <1>1, <1>2, <1>3, <1>6, <1>7 DEF FilesInv

LEMMA FilesFailure ==
  ASSUME TypeInv, NumberInv, FilesInv, ReceiveFails
  PROVE  FilesInv'
<1>1. /\ rpc = "recvfrom" /\ rpc' # "recvfrom" /\ count \in Names
      /\ UNCHANGED <<count, content, origin, recvline, script, nsent, size>>
      /\ reused' = reused \cup ({count} \cap Taken)
      /\ failed' = failed \cup {count}
  BY DEF ReceiveFails, network
<1>2. PICK d \in 0..nsent : BufferBegins(d)
  BY DEF FilesInv
<1>3. BufferBegins(d)'
  BY <1>1, <1>2 DEF BufferBegins, Extent
<1>4. Name' = Name
  BY <1>1 DEF Name, script
<1>5. \A e, q : Begins(q, e)' <=> Begins(q, e)
  BY <1>1 DEF Begins, Extent
<1>6. ASSUME NEW n \in Names, n # count, NEW e, FileInv(n, e) PROVE FileInv(n, e)'
  BY <1>1, <1>4, <1>5, <1>6 DEF FileInv, BinOf, ResultLines, Archive!LastLines, Active, Begins,
     Extent, script
<1>7. ASSUME count \notin reused' PROVE FileInv(count, d)'
  <2>1. content[count] = << >> /\ result[count] = << >> /\ ~(cpc # "ls" /\ Name = count)
    BY <1>1, <1>7, NewFile
  <2>2. Begins(content[count], d)
    BY <2>1, Bounds DEF Begins
  <2> QED
    BY <1>1, <1>2, <1>3, <1>4, <1>5, <2>1, <2>2
       DEF FileInv, ResultLines, Active, Begins, Extent, script
<1> QED  BY <1>1, <1>2, <1>3, <1>6, <1>7 DEF FilesInv

LEMMA FilesServer ==
  ASSUME TypeInv, NumberInv, FilesInv, OpenFile \/ WriteFile \/ CloseFile
  PROVE  FilesInv'
<1>1. /\ UNCHANGED <<network, recvline, origin, failed, reused, script>>
      /\ rpc # "recvfrom" /\ count \in Names
      /\ rpc' # "recvfrom" => count' = count
      /\ \A n \in Names : n # count => content'[n] = content[n]
  BY DEF OpenFile, WriteFile, CloseFile, TypeInv, ServerTypes, FileTypes
<1>2. /\ \A e, q : Begins(q, e)' <=> Begins(q, e)
      /\ \A e : BufferBegins(e)' <=> BufferBegins(e)
      /\ Name' = Name
      /\ \A n : Active(n)' => Active(n)
  BY <1>1 DEF Begins, BufferBegins, Extent, Name, Active, network, script
<1>3. ASSUME NEW d, BufferBegins(d) PROVE Begins(content'[count], d)
  <2>1. CASE OpenFile
    BY <2>1, Bounds DEF OpenFile, Begins, TypeInv, FileTypes, ServerTypes
  <2>2. ASSUME NEW k \in Int, k <= MaxChunks, content'[count] = SubSeq(recvline, 1, k)
        PROVE  Begins(content'[count], d)
    <3>1. /\ Len(content'[count]) = IF k <= 0 THEN 0 ELSE k
          /\ \A b \in 1..k : content'[count][b] = recvline[b]
      BY <2>2, BufferPart DEF TypeInv
    <3> QED  BY <1>3, <2>2, <3>1, Bounds DEF Begins, BufferBegins
  <2>3. CASE WriteFile \/ CloseFile
    <3>1. len \in Int /\ len <= MaxChunks /\ len - 1 \in Int /\ len - 1 <= MaxChunks
      BY Bounds DEF TypeInv, ServerTypes
    <3>2. \/ content'[count] = SubSeq(recvline, 1, len - 1)
          \/ content'[count] = SubSeq(recvline, 1, len)
      BY <1>1, <2>3 DEF WriteFile, CloseFile, Written, TypeInv, FileTypes
    <3> QED  BY <2>2, <3>1, <3>2
  <2> QED  BY <2>1, <2>3
<1>4. ASSUME NEW n \in Names, NEW e, FileInv(n, e) PROVE FileInv(n, e)'
  <2>1. Begins(content'[n], e)
    <3>1. CASE n = count
      BY <1>1, <1>3, <1>4, <3>1 DEF FileInv, Active
    <3>2. CASE n # count
      BY <1>1, <1>4, <3>2 DEF FileInv
    <3> QED  BY <3>1, <3>2
  <2> QED
    BY <1>1, <1>2, <1>4, <2>1
       DEF FileInv, BinOf, ResultLines, Archive!LastLines, Begins, Extent, network, script
<1> QED  BY <1>1, <1>2, <1>4 DEF FilesInv, network

LEMMA FilesRestart ==
  ASSUME TypeInv, NumberInv, FilesInv, Restart
  PROVE  FilesInv'
<1>1. /\ UNCHANGED <<network, files, script>> /\ rpc' = "recvfrom"
      /\ recvline' = [b \in 1..MaxChunks |-> Block(0, b)]
  BY DEF Restart
<1>2. BufferBegins(0)' /\ 0 \in 0..nsent
  BY <1>1 DEF BufferBegins, TypeInv, NetTypes
<1>3. Name' = Name
  BY <1>1 DEF Name, script
<1>4. ASSUME NEW n \in Names, NEW e, FileInv(n, e) PROVE FileInv(n, e)'
  BY <1>1, <1>3, <1>4
     DEF FileInv, BinOf, ResultLines, Archive!LastLines, Active, Begins, Extent, network, files, script
<1> QED  BY <1>1, <1>2, <1>4 DEF FilesInv, network, files

(* As soon as as much has been read as the stream is long, it is complete. *)
LEMMA StreamRead ==
  ASSUME NetTypes, NEW q \in Seq(Blocks), NEW d \in Datagrams, Begins(q, d), Len(q) >= size[d]
  PROVE  IsStream(q, d)
<1>1. size[d] \in Nat /\ size[d] >= 1 /\ size[d] <= MaxChunks /\ d # 0 /\ Len(q) \in Nat
  BY Bounds DEF NetTypes, Datagrams
<1>2. \A b \in 1..size[d] : q[b] = Block(d, b) /\ q[b] \in Blocks
  BY <1>1 DEF Begins, Extent
<1>3. size[d] - 1 + 1 = size[d] /\ \A b \in 1..size[d] : 1 + b - 1 = b
  BY <1>1
<1>4. /\ SubSeq(q, 1, size[d]) \in Seq(Blocks)
      /\ Len(SubSeq(q, 1, size[d])) = IF 1 <= size[d] THEN size[d] - 1 + 1 ELSE 0
      /\ \A b \in 1..(size[d] - 1 + 1) : SubSeq(q, 1, size[d])[b] = q[1 + b - 1]
  BY <1>1, <1>2, SubSeqProperties
<1>5. Stream(d) \in Seq(Blocks) /\ Len(Stream(d)) = size[d]
  BY <1>1, <1>2 DEF Stream
<1>6. \A b \in 1..size[d] : SubSeq(q, 1, size[d])[b] = Stream(d)[b]
  BY <1>1, <1>2, <1>3, <1>4 DEF Stream
<1>7. SubSeq(q, 1, size[d]) = Stream(d)
  BY <1>1, <1>3, <1>4, <1>5, <1>6, SeqEqual
<1> QED  BY <1>7 DEF IsStream

(* What has been read names the datagram it begins with. *)
LEMMA SourceRead ==
  ASSUME NetTypes, read \in Seq(Blocks), NEW d \in 0..nsent, Begins(read, d), read # << >>
  PROVE  Source(read) = d
<1>1. 1 <= Extent(d) /\ 1 \in 1..Len(read)
  BY ExtentFacts, Bounds
<1>2. read[1] = Block(d, 1)
  BY <1>1 DEF Begins
<1> QED  BY <1>2 DEF Source, Block

LEMMA InflateGenuine ==
  ASSUME TypeInv, Inflate, NEW d \in 0..nsent, Begins(read, d)
  PROVE  BinOf(d)'
<1>1. read \in Seq(Blocks) /\ NetTypes /\ ScriptTypes
  BY DEF TypeInv, ScriptTypes
<1>2. CASE Complete /\ bin' = Records(Source(read)) /\ tail' = Nothing
  <2>1. Source(read) \in Datagrams
    BY <1>2 DEF Complete, IsStream
  <2>2. Source(read) = d
    <3>1. read # << >>
      BY <2>1 DEF Source, Datagrams
    <3> QED  BY <1>1, <3>1, SourceRead
  <2> QED  BY <1>2, <2>1, <2>2, AllRecords DEF BinOf, Record
<1>3. ASSUME ~Complete, NEW e, NEW k, NEW rest, InflatePart(e, k, rest)
      PROVE  BinOf(d)'
  <2>1. CASE read = << >>
    <3>1. Whole(e)
      BY <2>1 DEF Whole
    <3>2. e = 0 /\ k = 0 /\ rest = << >> /\ tail' = Nothing
      BY <1>3, <2>1, <3>1 DEF InflatePart, Source
    <3>3. Len(bin') = 0
      BY <1>1, <1>3, <3>2, InflatePartType
    <3> QED  BY <3>2, <3>3 DEF BinOf
  <2>2. CASE read # << >>
    <3>1. e = d
      BY <1>1, <1>3, <2>2, SourceRead DEF InflatePart
    <3>2. Whole(d)
      <4>1. SUFFICES ASSUME NEW b \in 1..Len(read) PROVE b <= Extent(d)
        BY <1>1 DEF Begins, Whole
      <4>2. b <= MaxChunks /\ Len(read) \in Nat
        BY <1>1, Bounds DEF Begins
      <4>3. CASE d = 0
        BY <4>2, <4>3 DEF Extent
      <4>4. CASE d # 0
        <5>1. d \in Datagrams /\ size[d] \in Nat
          BY <1>1, <4>4, ExtentFacts DEF NetTypes
        <5>2. ~IsStream(read, d)
          BY <1>3, <3>1 DEF InflatePart, Complete
        <5>3. ~(Len(read) >= size[d])
          BY <1>1, <5>1, <5>2, StreamRead
        <5> QED  BY <4>2, <4>4, <5>1, <5>3 DEF Extent
      <4> QED  BY <4>3, <4>4
    <3>3. rest = << >>
      BY <1>3, <3>1, <3>2 DEF InflatePart
    <3>4. Len(bin') = k /\ \A s \in 1..k : bin'[s] = Record(d, s)
      BY <1>1, <1>3, <3>1, <3>3, InflatePartType
    <3>5. tail' = Nothing \/ (d # 0 /\ tail' = Record(d, k + 1))
      BY <1>3, <3>1, <3>2 DEF InflatePart
    <3> QED  BY <3>4, <3>5 DEF BinOf, Record
  <2> QED  BY <2>1, <2>2
<1> QED  BY <1>2, <1>3, InflateCases

(* The lines of the records, and the last one. *)
LEMMA LinesGenuinely ==
  ASSUME bin \in Seq(BinEntry), tail \in BinEntry \cup {Nothing}, NEW d, BinOf(d)
  PROVE  ResultLines(Lines(bin, tail), d)
<1> DEFINE q == Lines(bin, tail)
           k == Len(bin)
           held == IF k = 0 THEN Stack ELSE <<d, k>>
<1>1. /\ k \in Nat /\ q \in Seq(Line) /\ Len(q) = k + 1
      /\ \A s \in 1..k : q[s] = bin[s]
      /\ q[k + 1] = LastLine(bin, tail)
  BY LinesFacts
<1>2. \A s \in 1..k : bin[s] = Record(d, s)
  BY DEF BinOf
<1>3. (IF bin = << >> THEN Stack ELSE Last(bin)) = held
  <2>1. CASE k = 0
    BY <2>1
  <2>2. CASE k # 0
    BY <1>1, <1>2, <2>2 DEF Last, Record
  <2> QED  BY <2>1, <2>2
<1>4. LastLine(bin, tail) = IF tail = Nothing THEN held ELSE Torn(tail, held)
  BY <1>3 DEF LastLine
<1>5. LastLine(bin, tail) \in Archive!LastLines(d, k)
  <2>1. CASE tail = Nothing
    BY <1>4, <2>1 DEF Archive!LastLines
  <2>2. CASE tail # Nothing
    <3>1. tail = <<d, k + 1>> /\ d # 0
      BY <2>2 DEF BinOf, Record
    <3>2. k < BatchSize
      BY <1>1, <2>2, <3>1, Bounds DEF BinEntry, Noise
    <3>3. Torn(tail, held) = <<d, k + 1, held[1], held[2]>>
      BY <3>1 DEF Torn
    <3> QED  BY <1>4, <2>2, <3>2, <3>3 DEF Archive!LastLines
  <2> QED  BY <2>1, <2>2
<1> HIDE DEF q, k
<1>6. Last(q) = q[k + 1] /\ Len(q) - 1 = k
  BY <1>1 DEF Last
<1> QED  BY <1>1, <1>2, <1>5, <1>6 DEF ResultLines, q, k

LEMMA FilesScript ==
  ASSUME TypeInv, NumberInv, FilesInv, ScriptStep
  PROVE  FilesInv'
<1>1. UNCHANGED <<network, server, content, origin, failed, reused>>
  BY DEF ScriptStep, List, ReadFile, Inflate, ChangeFormat, RemoveFile, files
<1>2. /\ \A q, e : Begins(q, e)' <=> Begins(q, e)
      /\ \A e : BufferBegins(e)' <=> BufferBegins(e)
      /\ \A n : Active(n)' <=> Active(n)
  BY <1>1 DEF Begins, BufferBegins, Extent, Active, network, server
<1>3. \A d \in 0..nsent : Begins(<< >>, d)
  BY Bounds DEF Begins
<1>4. cpc # "ls" => Name \in Names
  BY NameListed DEF TypeInv, ScriptTypes
<1>5. SUFFICES ASSUME NEW n \in Names, NEW d, FileInv(n, d) PROVE FileInv(n, d)'
  BY <1>1, <1>2 DEF FilesInv, network
<1>6. d \in 0..nsent /\ read \in Seq(Blocks) /\ bin \in Seq(BinEntry) /\ tail \in BinEntry \cup {Nothing}
  BY <1>5 DEF FileInv, TypeInv, ScriptTypes
<1>7. SUFFICES /\ cpc' = "zpipe" /\ Name' = n => Begins(read', d)
               /\ cpc' = "changeFormat" /\ Name' = n => BinOf(d)'
               /\ ResultLines(result'[n], d)
  BY <1>1, <1>2, <1>5 DEF FileInv, Begins, Extent, network, ResultLines, Archive!LastLines
<1>8. CASE List \/ RemoveFile
  <2>1. read = << >> /\ UNCHANGED <<read, result>> /\ cpc' # "changeFormat"
    BY <1>8 DEF List, RemoveFile, NumberInv
  <2> QED  BY <1>3, <1>5, <1>6, <2>1 DEF FileInv
<1>9. CASE ReadFile
  <2>1. UNCHANGED <<cpc, todo, result>> /\ cpc = "zpipe" /\ Name' = Name
    BY <1>9 DEF ReadFile, Name
  <2>2. ASSUME Name = n PROVE Begins(read', d)
    <3>1. Begins(read, d) /\ Begins(content[n], d)
      BY <1>5, <2>1, <2>2 DEF FileInv
    <3>2. /\ Len(read) \in Nat /\ Len(content[n]) \in Nat /\ Len(read) < Len(content[n])
          /\ content[n][Len(read) + 1] \in Blocks
      BY <1>6, <1>9, <2>2 DEF ReadFile, More, TypeInv, FileTypes
    <3>3. /\ Len(read') = Len(read) + 1
          /\ \A b \in 1..Len(read) : read'[b] = read[b]
          /\ read'[Len(read) + 1] = content[n][Len(read) + 1]
      BY <1>6, <1>9, <2>2, <3>2 DEF ReadFile
    <3> QED  BY <3>1, <3>2, <3>3, Bounds DEF Begins
  <2> QED  BY <1>5, <2>1, <2>2 DEF FileInv
<1>10. CASE Inflate
  <2>1. UNCHANGED <<todo, result>> /\ cpc = "zpipe" /\ cpc' = "changeFormat" /\ Name' = Name
    BY <1>10 DEF Inflate, Name
  <2>2. ASSUME Name = n PROVE BinOf(d)'
    <3>1. Begins(read, d)
      BY <1>5, <2>1, <2>2 DEF FileInv
    <3> QED  BY <1>6, <1>10, <3>1, InflateGenuine
  <2> QED  BY <1>5, <2>1, <2>2 DEF FileInv
<1>11. CASE ChangeFormat
  <2>1. cpc = "changeFormat" /\ cpc' = "rm" /\ result' = [result EXCEPT ![Name] = Lines(bin, tail)]
    BY <1>11 DEF ChangeFormat
  <2>2. CASE Name = n
    <3>1. BinOf(d)
      BY <1>5, <2>1, <2>2 DEF FileInv
    <3>2. result'[n] = Lines(bin, tail)
      BY <2>1, <2>2 DEF TypeInv, ScriptTypes
    <3> QED  BY <1>6, <2>1, <3>1, <3>2, LinesGenuinely
  <2>3. CASE Name # n
    <3>1. result'[n] = result[n]
      BY <2>1, <2>3 DEF TypeInv, ScriptTypes
    <3> QED  BY <1>5, <2>1, <3>1 DEF FileInv
  <2> QED  BY <2>2, <2>3
<1> QED  BY <1>8, <1>9, <1>10, <1>11 DEF ScriptStep

LEMMA FilesInvariant == Spec => []FilesInv
<1>1. ASSUME FilesInv, UNCHANGED vars PROVE FilesInv'
  <2>1. UNCHANGED <<network, server, files, script>>
    BY <1>1 DEF vars
  <2>2. \A n, e : FileInv(n, e)' <=> FileInv(n, e)
    BY <2>1 DEF network, server, files, script, FileInv, BinOf, ResultLines, Archive!LastLines,
                Active, Begins, BufferBegins, Extent, Name
  <2>3. \A e : BufferBegins(e)' <=> BufferBegins(e)
    BY <2>1 DEF network, server, BufferBegins, Extent
  <2> QED  BY <1>1, <2>1, <2>2, <2>3 DEF FilesInv, network, files
<1>2. TypeInv /\ NumberInv /\ FilesInv /\ [Next]_vars => FilesInv'
  BY <1>1, FilesNetwork, FilesReceive, FilesFailure, FilesServer, FilesRestart, FilesScript
     DEF Next, ServerStep
<1> QED  BY FilesInit, <1>2, TypeInvariant, NumberInvariant, PTL DEF Spec

(* Every line but the last of a result is the record at that place of one     *)
(* datagram, and the last is the one before it again or the beginning of the   *)
(* next record over that, whatever the network does, however often recvfrom    *)
(* fails and the server is restarted, unless a restarted server took the number *)
(* again.                                                                     *)
THEOREM ResultsGenuine == Spec => []LinesGenuine
<1>1. ASSUME TypeInv, FilesInv PROVE LinesGenuine
  <2>1. SUFFICES ASSUME NEW n \in Names \ reused
                 PROVE  \E d \in 0..NDatagrams :
                          /\ n \notin failed => d = origin[n]
                          /\ ResultLines(result[n], d)
    BY DEF LinesGenuine, ResultLines
  <2>2. PICK d : FileInv(n, d)
    BY <1>1 DEF FilesInv
  <2>3. d \in 0..NDatagrams
    BY <1>1, <2>2, ExtentFacts DEF FileInv, TypeInv
  <2> QED  BY <2>2, <2>3 DEF FileInv
<1> QED  BY <1>1, TypeInvariant, FilesInvariant, PTL
-----------------------------------------------------------------------------
(***************************************************************************)
(* Whole files.  A file whose number was given once and whose reception did *)
(* not fail is written in full length before it counts as closed, and not   *)
(* touched by the server afterwards.                                       *)
(***************************************************************************)
Clean(n) == n \notin failed /\ n \notin reused

LengthInv ==
  /\ rpc # "recvfrom" /\ Clean(count) =>
       /\ count \notin closed
       /\ origin[count] \in Datagrams
       /\ len = size[origin[count]]
  /\ \A n \in closed : Clean(n) =>
       /\ origin[n] \in Datagrams
       /\ Len(content[n]) = size[origin[n]]

LEMMA LengthNetwork ==
  ASSUME TypeInv, NumberInv, LengthInv, Send \/ \E d \in Datagrams : Duplicate(d) \/ Lose(d)
  PROVE  LengthInv'
<1>1. UNCHANGED <<server, files>>
  BY DEF Send, Duplicate, Lose
<1>2. \A n \in Names : origin[n] \in Datagrams => size'[origin[n]] = size[origin[n]]
  <2>1. SUFFICES ASSUME NEW n \in Names, origin[n] \in Datagrams
                 PROVE  size'[origin[n]] = size[origin[n]]
    OBVIOUS
  <2>2. origin[n] \in 1..nsent /\ nsent \in Nat
    BY <2>1, Bounds DEF NumberInv, Datagrams, TypeInv, NetTypes
  <2>3. CASE Send
    <3>1. PICK k \in 1..MaxChunks : size' = [size EXCEPT ![nsent + 1] = k]
      BY <2>3 DEF Send
    <3> QED  BY <2>1, <2>2, <3>1 DEF TypeInv, NetTypes
  <2>4. CASE UNCHANGED size
    BY <2>4
  <2> QED  BY <2>3, <2>4 DEF Duplicate, Lose
<1>3. closed \subseteq Names /\ (rpc # "recvfrom" => count \in Names)
  BY DEF TypeInv, FileTypes, ServerTypes
<1> QED  BY <1>1, <1>2, <1>3 DEF LengthInv, Clean, server, files

LEMMA LengthReceive ==
  ASSUME TypeInv, NumberInv, LengthInv, (\E d \in Datagrams : Receive(d)) \/ ReceiveFails
  PROVE  LengthInv'
<1>1. /\ rpc = "recvfrom" /\ count \in Names
      /\ UNCHANGED <<count, content, closed, size>>
      /\ reused' = reused \cup ({count} \cap Taken)
      /\ failed \subseteq failed'
      /\ \A n \in Names : n # count => origin'[n] = origin[n]
  BY DEF Receive, ReceiveFails, network, TypeInv, FileTypes
<1>2. ASSUME count \notin reused' PROVE count \notin closed
  BY <1>1, <1>2, NewFile DEF NumberInv
<1>3. ASSUME Clean(count)' PROVE origin'[count] \in Datagrams /\ len' = size[origin'[count]]
  BY <1>1, <1>3 DEF Receive, ReceiveFails, Clean, TypeInv, FileTypes
<1>4. \A n \in closed : Clean(n)' => Clean(n) /\ n # count
  BY <1>1, <1>2 DEF Clean
<1> QED  BY <1>1, <1>2, <1>3, <1>4 DEF LengthInv, Clean, TypeInv, FileTypes

LEMMA LengthServer ==
  ASSUME TypeInv, NumberInv, LengthInv, OpenFile \/ WriteFile \/ CloseFile \/ Restart
  PROVE  LengthInv'
<1>1. UNCHANGED <<origin, failed, reused, size>>
  BY DEF OpenFile, WriteFile, CloseFile, Restart, network, files
<1>2. \A n : Clean(n)' <=> Clean(n)
  BY <1>1 DEF Clean
<1>3. CASE Restart
  BY <1>1, <1>2, <1>3 DEF Restart, LengthInv, files
<1>4. ASSUME NEW n \in closed, Clean(n), OpenFile \/ WriteFile \/ CloseFile
      PROVE  content'[n] = content[n]
  BY <1>4 DEF OpenFile, WriteFile, CloseFile, LengthInv, TypeInv, FileTypes
<1>5. CASE OpenFile \/ WriteFile
  <2>1. UNCHANGED <<count, len, closed>> /\ rpc # "recvfrom"
    BY <1>5 DEF OpenFile, WriteFile
  <2> QED  BY <1>1, <1>2, <1>4, <1>5, <2>1 DEF LengthInv
<1>6. CASE CloseFile
  <2>1. /\ rpc # "recvfrom" /\ rpc' = "recvfrom" /\ count \in Names
        /\ closed' = closed \cup {count}
        /\ content'[count] = SubSeq(recvline, 1, len)
    BY <1>6 DEF CloseFile, Written, TypeInv, ServerTypes, FileTypes
  <2>2. ASSUME Clean(count)
        PROVE  origin[count] \in Datagrams /\ Len(content'[count]) = size[origin[count]]
    <3>1. origin[count] \in Datagrams /\ len = size[origin[count]]
      BY <2>1, <2>2 DEF LengthInv
    <3>2. len \in 1..MaxChunks
      BY <3>1 DEF TypeInv, NetTypes
    <3>3. Len(SubSeq(recvline, 1, len)) = len
      BY <3>2, Bounds, BufferPart DEF TypeInv
    <3> QED  BY <2>1, <3>1, <3>3
  <2> QED  BY <1>1, <1>2, <1>4, <1>6, <2>1, <2>2 DEF LengthInv
<1> QED  BY <1>3, <1>5, <1>6

LEMMA LengthInvariant == Spec => []LengthInv
<1>1. Init => LengthInv
  BY DEF Init, LengthInv
<1>2. ASSUME LengthInv, UNCHANGED <<nsent, size, server, content, origin, closed, failed, reused>>
      PROVE  LengthInv'
  BY <1>2 DEF LengthInv, Clean, server
<1>3. ScriptStep \/ UNCHANGED vars =>
        UNCHANGED <<nsent, size, server, content, origin, closed, failed, reused>>
  BY DEF vars, ScriptStep, List, ReadFile, Inflate, ChangeFormat, RemoveFile, network, files
<1>4. TypeInv /\ NumberInv /\ LengthInv /\ [Next]_vars => LengthInv'
  BY <1>2, <1>3, LengthNetwork, LengthReceive, LengthServer DEF Next, ServerStep
<1> QED  BY <1>1, <1>4, TypeInvariant, NumberInvariant, PTL DEF Spec

(* The file of a clean number begins with its own datagram. *)
LEMMA CleanFile ==
  ASSUME FilesInv, NEW n \in Names, Clean(n)
  PROVE  FileInv(n, origin[n])
<1>1. PICK d : FileInv(n, d)
  BY DEF FilesInv, Clean
<1>2. d = origin[n]
  BY <1>1 DEF FileInv, Clean
<1> QED  BY <1>1, <1>2

(* A closed file holds the datagram it was received for, whole, and nothing   *)
(* that an earlier, longer one left in the receive buffer.                   *)
THEOREM ClosedFilesWhole == Spec => []FilesHoldTheirDatagram
<1>1. ASSUME TypeInv, FilesInv, LengthInv PROVE FilesHoldTheirDatagram
  <2>1. SUFFICES ASSUME NEW n \in closed, Clean(n) PROVE content[n] = Stream(origin[n])
    BY DEF FilesHoldTheirDatagram, Clean
  <2> DEFINE d == origin[n]
  <2>2. n \in Names /\ content[n] \in Seq(Blocks)
    BY <1>1 DEF TypeInv, FileTypes
  <2>3. d \in Datagrams /\ Len(content[n]) = size[d] /\ d # 0
    BY <1>1, <2>1 DEF LengthInv, Datagrams
  <2>4. Begins(content[n], d)
    BY <1>1, <2>1, <2>2, CleanFile DEF FileInv
  <2>5. \A b \in 1..size[d] : content[n][b] = Block(d, b)
    BY <2>3, <2>4 DEF Begins, Extent
  <2>6. content[n] = [b \in 1..Len(content[n]) |-> content[n][b]]
    BY <2>2
  <2> QED  BY <2>3, <2>5, <2>6 DEF Stream
<1> QED  BY <1>1, TypeInvariant, FilesInvariant, LengthInvariant, PTL
-----------------------------------------------------------------------------
(***************************************************************************)
(* Decoding.  A file that was closed when it was listed is read to the end  *)
(* of its stream, so all its records become lines before it is removed.    *)
(***************************************************************************)
ReadyInv ==
  \A n \in ready : Clean(n) =>
    /\ n \in closed
    /\ cpc = "changeFormat" /\ Name = n => bin = Records(origin[n])
    /\ cpc = "rm" /\ Name = n => Decoded(n)

LEMMA InflateWhole ==
  ASSUME TypeInv, FilesInv, LengthInv, Inflate, NEW n \in closed, Clean(n), Name = n
  PROVE  bin' = Records(origin[n])
<1> DEFINE d == origin[n]
<1>1. /\ n \in Names /\ read \in Seq(Blocks) /\ content[n] \in Seq(Blocks)
      /\ NetTypes /\ cpc = "zpipe"
  BY DEF TypeInv, ScriptTypes, FileTypes, Inflate
<1>2. d \in Datagrams /\ Len(content[n]) = size[d] /\ size[d] \in Nat \ {0}
  BY <1>1 DEF LengthInv, NetTypes
<1>3. Begins(read, d) /\ d \in 0..nsent
  BY <1>1, CleanFile DEF FileInv
<1>4. Complete
  <2>1. SUFFICES ASSUME ~More PROVE Complete
    BY DEF Inflate
  <2>2. Len(read) >= size[d] /\ read # << >>
    BY <1>1, <1>2, <2>1 DEF More
  <2>3. IsStream(read, d)
    BY <1>1, <1>2, <1>3, <2>2, StreamRead
  <2>4. Source(read) = d
    BY <1>1, <1>3, <2>2, SourceRead
  <2> QED  BY <2>3, <2>4 DEF Complete
<1>5. Source(read) = d
  <2>1. read # << >>
    BY <1>4, Bounds DEF Complete, IsStream, Source, Datagrams
  <2> QED  BY <1>1, <1>3, <2>1, SourceRead
<1> QED  BY <1>4, <1>5 DEF Inflate

LEMMA LinesDecoded ==
  ASSUME NEW d \in Datagrams, NEW part \in BinEntry \cup {Nothing}
  PROVE  /\ Len(Lines(Records(d), part)) >= BatchSize
         /\ SubSeq(Lines(Records(d), part), 1, BatchSize) = Records(d)
<1> DEFINE q == Lines(Records(d), part)
<1>1. /\ Records(d) \in Seq(BinEntry) /\ Len(Records(d)) = BatchSize
      /\ q \in Seq(Line) /\ Len(q) = BatchSize + 1
      /\ \A s \in 1..BatchSize : q[s] = Records(d)[s]
  BY AllRecords, LinesFacts
<1>2. BatchSize - 1 + 1 = BatchSize /\ \A s \in 1..BatchSize : 1 + s - 1 = s
  BY Bounds
<1> HIDE DEF q
<1>3. \A s \in 1..BatchSize : q[s] \in Line
  BY <1>1, Bounds
<1>4. /\ SubSeq(q, 1, BatchSize) \in Seq(Line)
      /\ Len(SubSeq(q, 1, BatchSize)) = IF 1 <= BatchSize THEN BatchSize - 1 + 1 ELSE 0
      /\ \A s \in 1..(BatchSize - 1 + 1) : SubSeq(q, 1, BatchSize)[s] = q[1 + s - 1]
  BY <1>3, Bounds, SubSeqProperties
<1>5. Records(d) \in Seq(Line)
  <2>1. BinEntry \subseteq Line
    BY Bounds DEF BinEntry, Line, Noise, Datagrams
  <2> QED  BY <1>1, <2>1, SeqMonotonic
<1>6. SubSeq(q, 1, BatchSize) = Records(d)
  BY <1>1, <1>2, <1>4, <1>5, Bounds, SeqEqual
<1> QED  BY <1>1, <1>6, Bounds DEF q

LEMMA ReadyScript ==
  ASSUME TypeInv, FilesInv, LengthInv, ReadyInv, ScriptStep
  PROVE  ReadyInv'
<1>1. UNCHANGED <<origin, closed, failed, reused>>
  BY DEF ScriptStep, List, ReadFile, Inflate, ChangeFormat, RemoveFile, files
<1>2. \A n : Clean(n)' <=> Clean(n)
  BY <1>1 DEF Clean
<1>3. CASE List \/ RemoveFile
  BY <1>1, <1>2, <1>3 DEF List, RemoveFile, ReadyInv
<1>4. CASE ReadFile
  BY <1>1, <1>2, <1>4 DEF ReadFile, ReadyInv, Name
<1>5. CASE Inflate
  <2>1. UNCHANGED <<todo, ready, result>> /\ cpc' = "changeFormat" /\ Name' = Name
    BY <1>5 DEF Inflate, Name
  <2>2. \A n \in ready : Clean(n) => n \in closed
    BY DEF ReadyInv
  <2> QED  BY <1>1, <1>2, <1>5, <2>1, <2>2, InflateWhole DEF ReadyInv, Records
<1>6. CASE ChangeFormat
  <2>1. /\ UNCHANGED <<todo, ready>> /\ cpc = "changeFormat" /\ cpc' = "rm" /\ Name' = Name
        /\ result' = [result EXCEPT ![Name] = Lines(bin, tail)]
    BY <1>6 DEF ChangeFormat, Name
  <2>2. ASSUME NEW n \in ready, Clean(n), Name = n PROVE Decoded(n)'
    <3>1. bin = Records(origin[n]) /\ n \in closed
      BY <2>1, <2>2 DEF ReadyInv
    <3>2. origin[n] \in Datagrams /\ n \in Names
      BY <2>2, <3>1 DEF LengthInv, TypeInv, FileTypes
    <3>3. result'[n] = Lines(Records(origin[n]), tail) /\ tail \in BinEntry \cup {Nothing}
      BY <2>1, <2>2, <3>1, <3>2 DEF TypeInv, ScriptTypes
    <3> QED  BY <1>1, <3>2, <3>3, LinesDecoded DEF Decoded, Records
  <2> QED  BY <1>1, <1>2, <2>1, <2>2 DEF ReadyInv
<1> QED  BY <1>3, <1>4, <1>5, <1>6 DEF ScriptStep

(* A number that is given again, or whose reception fails, is not clean. *)
LEMMA ReadyOther ==
  ASSUME TypeInv, NumberInv, LengthInv, ReadyInv,
         ServerStep \/ ReceiveFails \/ Restart \/ Send
           \/ \E d \in Datagrams : Duplicate(d) \/ Lose(d)
  PROVE  ReadyInv'
<1>1. /\ UNCHANGED script /\ closed \subseteq closed'
      /\ failed \subseteq failed' /\ reused \subseteq reused'
  BY DEF ServerStep, Receive, OpenFile, WriteFile, CloseFile, ReceiveFails, Restart, Send,
         Duplicate, Lose, files
<1>2. \A n : Clean(n)' => Clean(n)
  BY <1>1 DEF Clean
<1>3. ASSUME NEW n \in closed, Clean(n)' PROVE origin'[n] = origin[n]
  <2>1. ASSUME NEW d \in Datagrams, Receive(d) PROVE origin'[n] = origin[n]
    <3>1. /\ rpc = "recvfrom" /\ count \in Names
          /\ reused' = reused \cup ({count} \cap Taken)
      BY <2>1 DEF Receive
    <3>2. n # count
      BY <1>3, <3>1, NewFile DEF NumberInv, Clean
    <3> QED  BY <2>1, <3>2 DEF Receive, TypeInv, FileTypes
  <2> QED  BY <2>1 DEF ServerStep, OpenFile, WriteFile, CloseFile, ReceiveFails, Restart, Send,
                       Duplicate, Lose, files
<1>4. Name' = Name
  BY <1>1 DEF Name, script
<1> QED  BY <1>1, <1>2, <1>3, <1>4 DEF ReadyInv, Decoded, Records, script

LEMMA ReadyInvariant == Spec => []ReadyInv
<1>1. Init => ReadyInv
  BY DEF Init, ReadyInv
<1>2. ReadyInv /\ UNCHANGED vars => ReadyInv'
  BY DEF vars, files, script, network, server, ReadyInv, Clean, Name, Decoded, Records
<1>3. TypeInv /\ NumberInv /\ FilesInv /\ LengthInv /\ ReadyInv /\ [Next]_vars => ReadyInv'
  BY <1>2, ReadyScript, ReadyOther DEF Next
<1> QED  BY <1>1, <1>3, TypeInvariant, NumberInvariant, FilesInvariant, LengthInvariant, PTL
         DEF Spec

(* A file that was closed when it was listed is not removed before all its     *)
(* records are lines.                                                         *)
THEOREM ClosedFilesBecomeLines == Spec => ClosedFilesDecoded
<1>1. ASSUME ReadyInv, [Next]_vars
      PROVE  [\A n \in ready \ (failed \cup reused) : n \in dir /\ n \notin dir' => Decoded(n)]_vars
  <2>1. SUFFICES ASSUME NEW n \in ready, Clean(n), n \in dir, n \notin dir' PROVE Decoded(n)
    BY DEF Clean
  <2>2. RemoveFile
    BY <1>1, <2>1 DEF Next, ServerStep, Receive, OpenFile, WriteFile, CloseFile, ReceiveFails,
       Restart, Send, Duplicate, Lose, ScriptStep, List, ReadFile, Inflate, ChangeFormat, vars, files
  <2>3. cpc = "rm" /\ Name = n
    BY <2>1, <2>2 DEF RemoveFile
  <2> QED  BY <1>1, <2>1, <2>3 DEF ReadyInv
<1> QED  BY <1>1, ReadyInvariant, PTL DEF Spec, ClosedFilesDecoded
-----------------------------------------------------------------------------
(***************************************************************************)
(* The archive.  While nothing fails and nothing is restarted, exactly the  *)
(* numbers below count, and the one the server is at, have an arrival; a    *)
(* listed file is in the directory, and every file there was opened.        *)
(***************************************************************************)
Reliable == failed = {} /\ reused = {} /\ faults.restarts = 0

AtNumber(n) == n < count \/ Active(n)

IsOutcome(lines, d) ==
  \E k \in 0..BatchSize : \E last \in Archive!LastLines(d, k) : lines = Archive!ResultOf(d, k, last)

OutcomeOf(n) == IsOutcome(result[n], origin[n])

ArchiveInv ==
  /\ Reliable
  /\ \A n \in Names : origin[n] # 0 <=> AtNumber(n)
  /\ todo \subseteq dir /\ dir \subseteq Opened
  /\ cpc = "rm" => OutcomeOf(Name)

LEMMA ArchiveInit == Init => ArchiveInv
BY DEF Init, ArchiveInv, Reliable, AtNumber, Active, Names

LEMMA OpenedFacts ==
  /\ Opened \subseteq Names
  /\ \A n \in Names : n \in Opened <=> n < count \/ (n = count /\ rpc \in {"fwrite", "fclose"})
BY DEF Opened

(* The lines of the first records of a datagram, which changeFormat prints. *)
LEMMA LinesOutcome ==
  ASSUME bin \in Seq(BinEntry), tail \in BinEntry \cup {Nothing}, NEW d \in Datagrams, BinOf(d)
  PROVE  \E k \in 0..BatchSize : \E last \in Archive!LastLines(d, k) :
           Lines(bin, tail) = Archive!ResultOf(d, k, last)
<1> DEFINE k == Len(bin)
           r == Lines(bin, tail)
<1>1. k \in Nat /\ \A s \in 1..k : bin[s] = <<d, s>> /\ bin[s] \in BinEntry
  BY DEF Record, BinOf
<1>2. k \in 0..BatchSize
  <2>1. CASE k = 0
    BY <2>1, Bounds
  <2>2. CASE k # 0
    <3>1. k \in 1..k
      BY <1>1, <2>2
    <3>2. <<d, k>> \in BinEntry /\ d # 0
      BY <1>1, <3>1, Bounds DEF Datagrams
    <3>3. k \in 1..BatchSize
      BY <3>2 DEF BinEntry, Noise
    <3> QED  BY <3>3
  <2> QED  BY <2>1, <2>2
<1>3. r \in Seq(Line) /\ Len(r) = k + 1 /\ \A s \in 1..k : r[s] = <<d, s>>
  BY <1>1, LinesFacts
<1>4. r[k + 1] \in Archive!LastLines(d, k)
  <2>1. ResultLines(r, d)
    BY LinesGenuinely
  <2> HIDE DEF k, r
  <2>2. r # << >> /\ Last(r) = r[k + 1] /\ Len(r) - 1 = k
    BY <1>2, <1>3 DEF Last
  <2> QED  BY <2>1, <2>2 DEF ResultLines
<1> HIDE DEF k, r
<1>5. \A s \in 1..(k + 1) : r[s] = IF s > k THEN r[k + 1] ELSE <<d, s>>
  <2>1. SUFFICES ASSUME NEW s \in 1..(k + 1) PROVE r[s] = IF s > k THEN r[k + 1] ELSE <<d, s>>
    OBVIOUS
  <2>2. CASE s = k + 1
    BY <1>2, <2>2
  <2>3. CASE s # k + 1
    <3>1. s \in 1..k /\ ~(s > k)
      BY <1>2, <2>3
    <3> QED  BY <1>3, <3>1
  <2> QED  BY <2>2, <2>3
<1>6. r = [s \in 1..(k + 1) |-> r[s]]
  BY <1>2, <1>3
<1>7. r = Archive!ResultOf(d, k, r[k + 1])
  BY <1>5, <1>6 DEF Archive!ResultOf
<1> QED  BY <1>2, <1>4, <1>7 DEF r

(* Name is a listed file: it is there, it was opened, and something came for it. *)
LEMMA ListedFile ==
  ASSUME TypeInv, NumberInv, ArchiveInv, cpc # "ls"
  PROVE  /\ Name \in todo /\ Name \in Names /\ Name \in dir /\ Name \in Opened
         /\ origin[Name] \in Datagrams
<1>1. Name \in todo /\ Name \in Names
  BY NameListed DEF TypeInv, ScriptTypes
<1>2. Name \in dir /\ Name \in Opened
  BY <1>1 DEF ArchiveInv
<1>3. origin[Name] # 0
  BY <1>1 DEF NumberInv, Touched, ArchiveInv, Reliable
<1>4. origin[Name] \in 0..NDatagrams
  BY <1>1 DEF TypeInv, FileTypes
<1> QED  BY <1>1, <1>2, <1>3, <1>4, Bounds DEF Datagrams

LEMMA ArchiveServer ==
  ASSUME TypeInv, NumberInv, ArchiveInv, ServerStep
  PROVE  ArchiveInv'
<1>1. UNCHANGED script /\ Name' = Name
  BY DEF ServerStep, Receive, OpenFile, WriteFile, CloseFile, script, Name
<1>2. Taken = {} /\ count \in 0..NFiles
  BY DEF ArchiveInv, Reliable, Taken, TypeInv, ServerTypes
<1>3. Reliable'
  BY <1>2 DEF ServerStep, Receive, OpenFile, WriteFile, CloseFile, ArchiveInv, Reliable
<1>4. \A n \in Names : origin'[n] # 0 <=> AtNumber(n)'
  <2>1. ASSUME NEW d \in Datagrams, Receive(d), NEW n \in Names
        PROVE  origin'[n] # 0 <=> AtNumber(n)'
    <3>1. /\ rpc = "recvfrom" /\ rpc' = "fopen" /\ count' = count /\ d # 0
          /\ origin'[n] = IF n = count THEN d ELSE origin[n]
      BY <2>1, Bounds DEF Receive, TypeInv, FileTypes, Datagrams
    <3> QED  BY <2>1, <3>1 DEF ArchiveInv, AtNumber, Active
  <2>2. ASSUME OpenFile \/ WriteFile \/ CloseFile, NEW n \in Names
        PROVE  origin'[n] # 0 <=> AtNumber(n)'
    <3>1. n \in Int /\ count \in Int
      BY <1>2, Bounds DEF Names
    <3> QED
      BY <2>2, <3>1 DEF OpenFile, WriteFile, CloseFile, ArchiveInv, AtNumber, Active
  <2> QED  BY <2>1, <2>2 DEF ServerStep
<1>5. todo' \subseteq dir' /\ dir' \subseteq Opened'
  <2>1. todo' = todo /\ dir \subseteq dir'
    BY <1>1 DEF ServerStep, Receive, OpenFile, WriteFile, CloseFile, script
  <2>2. dir' \subseteq Names /\ Names \subseteq Int
    BY TypeServer, Bounds DEF TypeInv, FileTypes, Names
  <2>3. ASSUME NEW n \in dir' PROVE n \in Opened'
    <3>1. n \in Opened \/ (OpenFile /\ n = count)
      BY <2>3 DEF ServerStep, Receive, OpenFile, WriteFile, CloseFile, ArchiveInv
    <3> QED
      BY <1>2, <2>2, <2>3, <3>1, Bounds
         DEF Opened, ServerStep, Receive, OpenFile, WriteFile, CloseFile
  <2> QED  BY <2>1, <2>3 DEF ArchiveInv
<1>6. cpc' = "rm" => OutcomeOf(Name)'
  <2>1. SUFFICES ASSUME cpc = "rm" PROVE OutcomeOf(Name)'
    BY <1>1 DEF script
  <2>2. origin'[Name] = origin[Name] /\ result' = result
    <3>1. Name \in Names /\ origin[Name] # 0
      BY <2>1, ListedFile DEF Datagrams
    <3>2. ASSUME NEW d \in Datagrams, Receive(d) PROVE Name # count
      <4>1. rpc = "recvfrom" /\ count \in Int
        BY <1>2, <3>2, Bounds DEF Receive
      <4> QED  BY <3>1, <4>1 DEF ArchiveInv, AtNumber, Active
    <3> QED
      BY <1>1, <3>1, <3>2
         DEF ServerStep, Receive, OpenFile, WriteFile, CloseFile, TypeInv, FileTypes, script
  <2>3. origin'[Name'] = origin[Name] /\ result'[Name'] = result[Name] /\ OutcomeOf(Name)
    BY <1>1, <2>1, <2>2 DEF ArchiveInv
  <2> QED  BY <2>3 DEF OutcomeOf, IsOutcome, Archive!ResultOf, Archive!LastLines
<1> QED  BY <1>3, <1>4, <1>5, <1>6 DEF ArchiveInv

LEMMA ArchiveScript ==
  ASSUME TypeInv, NumberInv, FilesInv, ArchiveInv, ScriptStep
  PROVE  ArchiveInv'
<1>1. UNCHANGED <<server, content, origin, closed, failed, reused, faults>>
  BY DEF ScriptStep, List, ReadFile, Inflate, ChangeFormat, RemoveFile, files
<1>2. Reliable' /\ \A n \in Names : origin'[n] # 0 <=> AtNumber(n)'
  BY <1>1 DEF ArchiveInv, Reliable, AtNumber, Active, server
<1>3. Opened' = Opened
  BY <1>1 DEF Opened, server
<1>4. todo' \subseteq dir' /\ dir' \subseteq Opened
  BY DEF ScriptStep, List, ReadFile, Inflate, ChangeFormat, RemoveFile, files, ArchiveInv
<1>5. cpc' = "rm" => OutcomeOf(Name)'
  <2>1. SUFFICES ASSUME ChangeFormat PROVE OutcomeOf(Name)'
    BY DEF ScriptStep, List, ReadFile, Inflate, ChangeFormat, RemoveFile
  <2>2. cpc = "changeFormat" /\ Name' = Name
        /\ result' = [result EXCEPT ![Name] = Lines(bin, tail)]
    BY <2>1 DEF ChangeFormat, Name
  <2>3. Name \in Names /\ origin[Name] \in Datagrams
    BY <2>2, ListedFile
  <2>4. FileInv(Name, origin[Name])
    BY <2>3, CleanFile DEF ArchiveInv, Reliable, Clean
  <2>5. bin \in Seq(BinEntry) /\ tail \in BinEntry \cup {Nothing} /\ BinOf(origin[Name])
    BY <2>2, <2>4 DEF FileInv, TypeInv, ScriptTypes
  <2>6. IsOutcome(Lines(bin, tail), origin[Name])
    BY <2>3, <2>5, LinesOutcome DEF IsOutcome
  <2>7. result'[Name] = Lines(bin, tail)
    BY <2>2, <2>3 DEF TypeInv, ScriptTypes
  <2>8. Name \in Names /\ origin'[Name'] = origin[Name] /\ result'[Name'] = Lines(bin, tail)
    BY <1>1, <2>2, <2>3, <2>7
  <2> QED  BY <2>6, <2>8 DEF OutcomeOf, IsOutcome, Archive!ResultOf, Archive!LastLines
<1> QED  BY <1>2, <1>3, <1>4, <1>5 DEF ArchiveInv

LEMMA ArchiveInvariant ==
  ASSUME MaxFailures = 0, MaxRestarts = 0
  PROVE  Spec => []ArchiveInv
<1>1. TypeInv => ~ReceiveFails /\ ~Restart
  BY DEF TypeInv, ServerTypes, ReceiveFails, Restart
<1>2. ASSUME ArchiveInv, UNCHANGED <<server, files, faults, script>> PROVE ArchiveInv'
  <2>1. Reliable' /\ Opened' = Opened /\ Name' = Name
    BY <1>2 DEF server, files, script, ArchiveInv, Reliable, Opened, Name
  <2>2. \A n \in Names : origin'[n] # 0 <=> AtNumber(n)'
    BY <1>2 DEF server, files, ArchiveInv, AtNumber, Active
  <2>3. ASSUME OutcomeOf(Name) PROVE OutcomeOf(Name)'
    BY <1>2, <2>1, <2>3 DEF files, script, OutcomeOf, IsOutcome, Archive!ResultOf,
                                 Archive!LastLines
  <2> QED  BY <1>2, <2>1, <2>2, <2>3 DEF files, script, ArchiveInv
<1>3. Send \/ (\E d \in Datagrams : Duplicate(d) \/ Lose(d)) \/ UNCHANGED vars
        => UNCHANGED <<server, files, faults, script>>
  BY DEF Send, Duplicate, Lose, vars
<1>4. TypeInv /\ NumberInv /\ FilesInv /\ ArchiveInv /\ [Next]_vars => ArchiveInv'
  BY <1>1, <1>2, <1>3, ArchiveServer, ArchiveScript DEF Next
<1> QED  BY ArchiveInit, <1>4, TypeInvariant, NumberInvariant, FilesInvariant, PTL DEF Spec

Outcomes == [n \in Names |-> IF n \in Handled THEN result[n] ELSE << >>]

(* A step the archive does not see. *)
LEMMA ArchiveStutters ==
  ASSUME Handled' = Handled, UNCHANGED origin,
         \A n \in Handled : n \in Names => result'[n] = result[n]
  PROVE  UNCHANGED Archive!avars
<1>1. Outcomes' = Outcomes
  BY DEF Outcomes
<1> QED  BY <1>1 DEF Archive!avars, Outcomes

LEMMA SameCardinality == \A S : Archive!Cardinality(S) = Cardinality(S)
BY Zenon DEF Archive!Cardinality, Cardinality

(* A datagram arrives when recvfrom returns it: its number is the number of     *)
(* arrivals before it.                                                        *)
LEMMA ReceiveArrives ==
  ASSUME TypeInv, ArchiveInv, NEW d \in Datagrams, Receive(d)
  PROVE  Archive!Arrive
<1>1. /\ rpc = "recvfrom" /\ rpc' = "fopen" /\ count \in Names /\ count \in Nat
      /\ UNCHANGED <<count, dir, result>>
      /\ origin' = [origin EXCEPT ![count] = d]
  BY Bounds DEF Receive, Names, script
<1>2. Archive!Arrived = 0..(count - 1)
  <2>1. \A n \in Names : n \in Archive!Arrived <=> n < count
    BY <1>1 DEF ArchiveInv, AtNumber, Active, Archive!Arrived
  <2>2. Archive!Arrived \subseteq Names
    BY DEF Archive!Arrived
  <2>3. Names = 0..(NFiles - 1) /\ NFiles \in Nat
    BY Bounds DEF Names
  <2>4. \A n \in 0..(count - 1) : n \in Names /\ n < count
    BY <1>1, <2>3
  <2>5. \A n \in Names : n < count => n \in 0..(count - 1)
    BY <1>1, <2>3
  <2> QED  BY <2>1, <2>2, <2>4, <2>5, Zenon
<1>3. Cardinality(Archive!Arrived) = count
  <2>1. Cardinality(0..(count - 1)) = IF 0 > count - 1 THEN 0 ELSE count - 1 - 0 + 1
    BY <1>1, FS_Interval
  <2> QED  BY <1>1, <1>2, <2>1
<1>4. Opened' = Opened
  BY <1>1 DEF Opened
<1>5. Handled' = Handled /\ Outcomes' = Outcomes
  BY <1>1, <1>4 DEF Handled, Outcomes
<1>6. /\ Cardinality(Archive!Arrived) \in Names
      /\ \E e \in Datagrams : origin' = [origin EXCEPT ![Cardinality(Archive!Arrived)] = e]
  BY <1>1, <1>3
<1> QED  BY <1>5, <1>6, SameCardinality DEF Archive!Arrive, Outcomes

(* The rest of the server's work makes no result: a file that is opened again  *)
(* after the script removed it, or written when it is gone, does not come back. *)
LEMMA ServerStutters ==
  ASSUME TypeInv, ArchiveInv, OpenFile \/ WriteFile \/ CloseFile
  PROVE  UNCHANGED Archive!avars
<1>1. UNCHANGED <<origin, result>> /\ count \in Int /\ rpc # "recvfrom" /\ Names \subseteq Int
  BY Bounds DEF OpenFile, WriteFile, CloseFile, script, TypeInv, ServerTypes, Names
<1>2. Handled' = Handled
  <2>1. CASE OpenFile
    <3>1. /\ rpc = "fopen" /\ rpc' = "fwrite" /\ count' = count /\ dir' = dir \cup {count}
      BY <2>1 DEF OpenFile
    <3>2. \A n \in Names : n \in Opened' <=> n \in Opened \/ n = count
      BY <1>1, <3>1 DEF Opened
    <3>3. count \notin Opened
      BY <1>1, <3>1 DEF Opened
    <3>4. Opened \subseteq Names /\ Opened' \subseteq Names
      BY DEF Opened
    <3> QED  BY <3>1, <3>2, <3>3, <3>4 DEF Handled
  <2>2. CASE WriteFile \/ CloseFile
    <3>1. /\ dir' = dir /\ rpc \in {"fwrite", "fclose"}
          /\ \/ count' = count /\ rpc' = "fclose"
             \/ count' = count + 1 /\ rpc' = "recvfrom"
      BY <2>2 DEF WriteFile, CloseFile
    <3>2. \A n \in Names : n \in Opened' <=> n \in Opened
      BY <1>1, <3>1 DEF Opened
    <3>3. Opened \subseteq Names /\ Opened' \subseteq Names
      BY DEF Opened
    <3> QED  BY <3>1, <3>2, <3>3 DEF Handled
  <2> QED  BY <2>1, <2>2
<1> QED  BY <1>1, <1>2, ArchiveStutters

(* A number is finished when the script removes its file; until then, nothing  *)
(* of what the script does shows.                                             *)
LEMMA ScriptFinishes ==
  ASSUME TypeInv, NumberInv, ArchiveInv, ScriptStep
  PROVE  (\E n \in Names : Archive!Finish(n)) \/ UNCHANGED Archive!avars
<1>1. UNCHANGED <<server, origin>>
  BY DEF ScriptStep, List, ReadFile, Inflate, ChangeFormat, RemoveFile, files
<1>2. Opened' = Opened
  BY <1>1 DEF Opened, server
<1>3. CASE List \/ ReadFile \/ Inflate
  <2>1. UNCHANGED <<dir, result>>
    BY <1>3 DEF List, ReadFile, Inflate, files
  <2>2. Handled' = Handled
    BY <1>2, <2>1 DEF Handled
  <2> QED  BY <1>1, <2>1, <2>2, ArchiveStutters
<1>4. CASE ChangeFormat
  <2>1. /\ dir' = dir /\ cpc = "changeFormat"
        /\ result' = [result EXCEPT ![Name] = Lines(bin, tail)]
    BY <1>4 DEF ChangeFormat, files
  <2>2. Name \notin Handled
    BY <2>1, ListedFile DEF Handled
  <2>3. \A n \in Handled : n \in Names => result'[n] = result[n]
    BY <2>1, <2>2 DEF TypeInv, ScriptTypes
  <2>4. Handled' = Handled
    BY <1>2, <2>1 DEF Handled
  <2> QED  BY <1>1, <2>3, <2>4, ArchiveStutters
<1>5. CASE RemoveFile
  <2>1. cpc = "rm" /\ dir' = dir \ {Name} /\ result' = result
    BY <1>5 DEF RemoveFile
  <2>2. Name \in Names /\ Name \in dir /\ Name \in Opened /\ origin[Name] # 0
    BY <2>1, ListedFile DEF Datagrams
  <2>3. Handled' = Handled \cup {Name} /\ Name \notin Handled
    BY <1>2, <2>1, <2>2 DEF Handled
  <2>4. PICK k \in 0..BatchSize : \E l \in Archive!LastLines(origin[Name], k) :
          result[Name] = Archive!ResultOf(origin[Name], k, l)
    BY <2>1 DEF ArchiveInv, OutcomeOf, IsOutcome
  <2>7. PICK last \in Archive!LastLines(origin[Name], k) :
          result[Name] = Archive!ResultOf(origin[Name], k, last)
    BY <2>4
  <2>5. Outcomes' = [Outcomes EXCEPT ![Name] = Archive!ResultOf(origin[Name], k, last)]
    BY <2>1, <2>2, <2>3, <2>7 DEF Outcomes
  <2>6. Name \in Archive!Arrived \ Handled
    BY <2>2, <2>3 DEF Archive!Arrived
  <2> QED  BY <1>1, <2>2, <2>3, <2>5, <2>6 DEF Archive!Finish, Outcomes
<1> QED  BY <1>3, <1>4, <1>5 DEF ScriptStep

(* While recvfrom does not fail and the server is not started again, server    *)
(* and script implement the archive: numbers are given in the order of arrival, *)
(* each gets one result, made of the records of its datagram from the first on, *)
(* and keeps it (server1.c:35-45, autofinddir.sh, test.c:94).                  *)
THEOREM CollectorImplementsArchive ==
  ASSUME MaxFailures = 0, MaxRestarts = 0
  PROVE  Spec => ImplementsArchive
<1>1. Init => Archive!AInit
  <2>1. ASSUME Init PROVE Handled = {}
    BY <2>1 DEF Init, Handled, Opened, Names
  <2> QED  BY <2>1 DEF Init, Archive!AInit
<1>2. TypeInv => ~ReceiveFails /\ ~Restart
  BY DEF TypeInv, ServerTypes, ReceiveFails, Restart
<1>3. ASSUME Send \/ (\E d \in Datagrams : Duplicate(d) \/ Lose(d)) \/ UNCHANGED vars
      PROVE  UNCHANGED Archive!avars
  <2>1. UNCHANGED <<server, files, result>>
    BY <1>3 DEF Send, Duplicate, Lose, vars, script
  <2>2. Handled' = Handled
    BY <2>1 DEF Handled, Opened, server, files
  <2> QED  BY <2>1, <2>2, ArchiveStutters DEF files
<1>4. TypeInv /\ NumberInv /\ ArchiveInv /\ [Next]_vars => [Archive!ANext]_(Archive!avars)
  <2>1. ASSUME TypeInv, NumberInv, ArchiveInv, ServerStep
        PROVE  Archive!ANext \/ UNCHANGED Archive!avars
    BY <2>1, ReceiveArrives, ServerStutters DEF ServerStep, Archive!ANext
  <2>2. ASSUME TypeInv, NumberInv, ArchiveInv, ScriptStep
        PROVE  Archive!ANext \/ UNCHANGED Archive!avars
    BY <2>2, ScriptFinishes DEF Archive!ANext
  <2> QED  BY <1>2, <1>3, <2>1, <2>2 DEF Next
<1> QED
  BY <1>1, <1>4, TypeInvariant, NumberInvariant, ArchiveInvariant, PTL
     DEF Spec, ImplementsArchive, Archive!ASpec
=============================================================================
