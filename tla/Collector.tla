----------------------------- MODULE Collector -----------------------------
(***************************************************************************)
(* The receiving side.  server1.c writes each datagram to a file of its    *)
(* own; autofinddir.sh lists the directory for ever, decompresses every    *)
(* file it lists, has changeFormat (test.c) turn the records into lines,   *)
(* and removes the file.  The two share nothing but the directory.         *)
(***************************************************************************)
EXTENDS Integers, Sequences, SequencesExt, FiniteSets

CONSTANTS
  NDatagrams,  \* bound on the datagrams the traced machine sends
  BatchSize,   \* records in a datagram
  MaxChunks,   \* file-system blocks the largest compressed datagram takes
  MaxCopies,   \* bound on the copies of one datagram the network carries
  MaxFailures, \* bound on the calls of recvfrom that fail
  MaxRestarts  \* bound on the times the server is started again

ASSUME CollectorAssumption ==
  /\ NDatagrams \in Nat /\ BatchSize \in Nat \ {0}
  /\ MaxChunks \in Nat \ {0} /\ MaxCopies \in Nat \ {0}
  /\ MaxFailures \in Nat /\ MaxRestarts \in Nat

Datagrams == 1..NDatagrams
NFiles == NDatagrams * MaxCopies + MaxFailures
Names == 0..(NFiles - 1)
Record(d, s) == <<d, s>>
Stack == <<0, 0>>    \* the uninitialised out_ent of test.c
Noise == <<0, 1>>    \* what a stream that is two streams decodes to
Nothing == <<0, 2>>  \* no part of a record

VARIABLES
  nsent,       \* datagrams sent so far
  size,        \* size[d]: blocks the compressed datagram d takes
  copies,      \* copies[d]: copies of d the network made so far
  net,         \* net[d]: copies of d in flight
  rpc,         \* where server1 is
  recvline,    \* its receive buffer, block by block
  len,         \* blocks to write
  count,       \* number, and name, of the next file
  dir,         \* names in /home/cai/test
  content,     \* content[n]: the blocks written to file n, removed or not
  origin,      \* history: origin[n] is the datagram received for file n
  closed,      \* history: the files closed by the server
  failed,      \* history: the files written after a failed recvfrom
  reused,      \* history: the files whose number a restarted server took again
  faults,      \* history: failures and restarts so far
  cpc,         \* where the script is
  todo,        \* names listed and not yet handled
  read,        \* what zpipe has read of the file the script is at
  ready,       \* history: the listed names that were closed when listed
  bin,         \* the whole records in $path/resourse/$name.bin
  tail,        \* the record of which a part follows them, or Nothing
  result       \* result[n]: the lines of $path/result/$name.txt

network == <<nsent, size, copies, net>>
server == <<rpc, recvline, len, count>>
files == <<dir, content, origin, closed, failed, reused>>
script == <<cpc, todo, read, ready, bin, tail, result>>
vars == <<network, server, files, faults, script>>

Block(d, b) == <<d, b>>
Stream(d) == [b \in 1..size[d] |-> Block(d, b)]
Records(d) == [s \in 1..BatchSize |-> Record(d, s)]

Init ==
  /\ nsent = 0
  /\ size = [d \in Datagrams |-> 1]
  /\ copies = [d \in Datagrams |-> 0]
  /\ net = [d \in Datagrams |-> 0]
  /\ rpc = "recvfrom"
  /\ recvline = [b \in 1..MaxChunks |-> Block(0, b)]
  /\ len = 0
  /\ count = 0
  /\ dir = {}
  /\ content = [n \in Names |-> << >>]
  /\ origin = [n \in Names |-> 0]
  /\ closed = {} /\ failed = {} /\ reused = {}
  /\ faults = [failures |-> 0, restarts |-> 0]
  /\ cpc = "ls"
  /\ todo = {}
  /\ read = << >>
  /\ ready = {}
  /\ bin = << >> /\ tail = Nothing
  /\ result = [n \in Names |-> << >>]
-----------------------------------------------------------------------------
(* The network between sendthread and the server: UDP.                     *)
Send ==
  /\ nsent < NDatagrams
  /\ nsent' = nsent + 1
  /\ \E k \in 1..MaxChunks : size' = [size EXCEPT ![nsent + 1] = k]
  /\ net' = [net EXCEPT ![nsent + 1] = 1]
  /\ copies' = [copies EXCEPT ![nsent + 1] = 1]
  /\ UNCHANGED <<server, files, faults, script>>

Duplicate(d) ==
  /\ net[d] > 0
  /\ copies[d] < MaxCopies
  /\ net' = [net EXCEPT ![d] = @ + 1]
  /\ copies' = [copies EXCEPT ![d] = @ + 1]
  /\ UNCHANGED <<nsent, size, server, files, faults, script>>

Lose(d) ==
  /\ net[d] > 0
  /\ net' = [net EXCEPT ![d] = @ - 1]
  /\ UNCHANGED <<nsent, size, copies, server, files, faults, script>>
-----------------------------------------------------------------------------
(* The numbers of files an earlier run of the server received something for. *)
Taken == IF faults.restarts = 0 THEN {} ELSE {n \in Names : origin[n] # 0} \cup failed

(* recvfrom overwrites the head of recvline; the rest keeps what it held.  (The *)
(* numbers are bounded by Names, which has one for every call that returns.)   *)
Receive(d) ==
  /\ rpc = "recvfrom" /\ count \in Names
  /\ net[d] > 0
  /\ net' = [net EXCEPT ![d] = @ - 1]
  /\ recvline' = [b \in 1..MaxChunks |-> IF b <= size[d] THEN Block(d, b) ELSE recvline[b]]
  /\ len' = size[d]
  /\ origin' = [origin EXCEPT ![count] = d]
  /\ reused' = reused \cup ({count} \cap Taken)
  /\ rpc' = "fopen"
  /\ UNCHANGED <<nsent, size, copies, count, dir, content, closed, failed, faults, script>>

(* recvfrom returns -1, and fwrite gets it for a length: it writes nothing, or *)
(* any part of what the buffer still holds.                                  *)
ReceiveFails ==
  /\ rpc = "recvfrom" /\ count \in Names
  /\ faults.failures < MaxFailures
  /\ faults' = [faults EXCEPT !.failures = @ + 1]
  /\ len' \in 0..MaxChunks
  /\ failed' = failed \cup {count}
  /\ reused' = reused \cup ({count} \cap Taken)
  /\ rpc' = "fopen"
  /\ UNCHANGED <<network, recvline, count, dir, content, origin, closed, script>>

(* Mutation: the file is named after the next number. *)
OpenFileNext ==
  /\ rpc = "fopen"
  /\ dir' = dir \cup {count + 1}
  /\ content' = [content EXCEPT ![count] = << >>]
  /\ rpc' = "fwrite"
  /\ UNCHANGED <<network, recvline, len, count, origin, closed, failed, reused, faults, script>>

(* fopen(filename, "w+") makes an empty file of that name. *)
OpenFile ==
  /\ rpc = "fopen"
  /\ dir' = dir \cup {count}
  /\ content' = [content EXCEPT ![count] = << >>]
  /\ rpc' = "fwrite"
  /\ UNCHANGED <<network, recvline, len, count, origin, closed, failed, reused, faults, script>>

(* Mutation: the whole receive buffer is written, whatever was received. *)
WrittenWhole == MaxChunks

(* fwrite writes len bytes; full blocks reach the file, the rest waits ... *)
Written == len

WriteFile ==
  /\ rpc = "fwrite"
  /\ content' = [content EXCEPT ![count] = SubSeq(recvline, 1, Written - 1)]
  /\ rpc' = "fclose"
  /\ UNCHANGED <<network, recvline, len, count, dir, origin, closed, failed, reused, faults, script>>

(* Mutation: the file number does not move on. *)
CloseFileSameName ==
  /\ rpc = "fclose"
  /\ content' = [content EXCEPT ![count] = SubSeq(recvline, 1, Written)]
  /\ closed' = closed \cup {count}
  /\ rpc' = "recvfrom"
  /\ UNCHANGED <<network, recvline, len, count, dir, origin, failed, reused, faults, script>>

(* ... for fclose.  A file removed in the meantime takes the blocks with it. *)
CloseFile ==
  /\ rpc = "fclose"
  /\ content' = [content EXCEPT ![count] = SubSeq(recvline, 1, Written)]
  /\ closed' = closed \cup {count}
  /\ count' = count + 1
  /\ rpc' = "recvfrom"
  /\ UNCHANGED <<network, recvline, len, dir, origin, failed, reused, faults, script>>

(* The server is started again: it counts from zero, with an empty buffer.     *)
(* Blocks the last one had not written yet are lost.                         *)
Restart ==
  /\ faults.restarts < MaxRestarts
  /\ faults' = [faults EXCEPT !.restarts = @ + 1]
  /\ rpc' = "recvfrom"
  /\ recvline' = [b \in 1..MaxChunks |-> Block(0, b)]
  /\ len' = 0
  /\ count' = 0
  /\ UNCHANGED <<network, files, script>>

ServerStep ==
  \/ \E d \in Datagrams : Receive(d)
  \/ OpenFile \/ WriteFile \/ CloseFile
-----------------------------------------------------------------------------
(* for file in `ls $1`: the names of one moment, in order.  (ls orders names *)
(* as strings, which for fewer than eleven files is the order of numbers.)   *)
List ==
  /\ cpc = "ls"
  /\ todo' = dir
  /\ ready' = dir \cap closed
  /\ cpc' = IF dir = {} THEN "ls" ELSE "zpipe"
  /\ UNCHANGED <<network, server, files, faults, read, bin, tail, result>>

(* The file the script is at. *)
Name == CHOOSE n \in todo : \A m \in todo : n <= m

IsStream(blocks, d) ==
  /\ d \in Datagrams
  /\ Len(blocks) >= size[d]
  /\ SubSeq(blocks, 1, size[d]) = Stream(d)

(* The datagram a file begins with. *)
Source(blocks) == IF blocks = << >> THEN 0 ELSE blocks[1][1]
Complete == IsStream(read, Source(read))
More == Len(read) < Len(content[Name])

(* zpipe -d reads the file piece by piece until the stream ends, or the file. *)
ReadFile ==
  /\ cpc = "zpipe"
  /\ ~Complete /\ More
  /\ read' = Append(read, content[Name][Len(read) + 1])
  /\ UNCHANGED <<network, server, files, faults, cpc, todo, ready, bin, tail, result>>

(* A whole stream gives its records, whatever follows it in the file.  One cut *)
(* short gives as many bytes as could be inflated: some records and perhaps a  *)
(* part of the next; one that goes on as another stream gives anything after   *)
(* them.  The script does not look at the status.                            *)
Inflate ==
  /\ cpc = "zpipe"
  /\ LET d == Source(read)
         most == IF d = 0 THEN 0 ELSE BatchSize
         whole == \A b \in DOMAIN read : read[b] = Block(d, b)
     IN  \/ Complete /\ bin' = Records(d) /\ tail' = Nothing
         \/ /\ ~Complete /\ ~More
            /\ \E k \in 0..most, rest \in (IF whole THEN {<< >>} ELSE {<< >>, <<Noise>>}) :
                 /\ bin' = SubSeq(Records(d), 1, k) \o rest
                 /\ \/ tail' = Nothing
                    \/ rest = << >> /\ k < most /\ tail' = Record(d, k + 1)
                    \/ ~whole /\ tail' = Noise
  /\ read' = << >>
  /\ cpc' = "changeFormat"
  /\ UNCHANGED <<network, server, files, faults, todo, ready, result>>

(* A line made of the beginning of one record and, where that ends, of what   *)
(* out_ent held before.                                                      *)
Torn(new, old) == <<new[1], new[2], old[1], old[2]>>

(* Mutation: the turn that meets the end of the file prints nothing, and     *)
(* neither does the one before it.                                          *)
LinesFront(records, part) == IF records = << >> THEN << >> ELSE Front(records)

(* Mutation: fread starts again at the first record when the file ends.      *)
LinesRewound(records, part) ==
  Append(records, IF records = << >> THEN Stack ELSE Head(records))

(* while(!feof(fp)) { fread; fprintf }: the last turn's fread meets the end of *)
(* the file, with nothing or with part of a record, which overwrites part of  *)
(* out_ent; nobody looks at what it returns, and out_ent is printed.         *)
Lines(records, part) ==
  LET held == IF records = << >> THEN Stack ELSE Last(records)
  IN  Append(records, IF part = Nothing THEN held ELSE Torn(part, held))

ChangeFormat ==
  /\ cpc = "changeFormat"
  /\ result' = [result EXCEPT ![Name] = Lines(bin, tail)]
  /\ cpc' = "rm"
  /\ UNCHANGED <<network, server, files, faults, todo, read, ready, bin, tail>>

(* Mutation: after one file the script lists the directory again without    *)
(* removing it.                                                             *)
RemoveFileSkipped ==
  /\ cpc = "rm"
  /\ todo' = {}
  /\ cpc' = "ls"
  /\ UNCHANGED <<network, server, files, faults, read, ready, bin, tail, result>>

RemoveFile ==
  /\ cpc = "rm"
  /\ dir' = dir \ {Name}
  /\ todo' = todo \ {Name}
  /\ cpc' = IF todo' = {} THEN "ls" ELSE "zpipe"
  /\ UNCHANGED <<network, server, content, origin, closed, failed, reused, faults, read,
                 ready, bin, tail, result>>

ScriptStep == List \/ ReadFile \/ Inflate \/ ChangeFormat \/ RemoveFile
-----------------------------------------------------------------------------
Next ==
  \/ Send
  \/ \E d \in Datagrams : Duplicate(d) \/ Lose(d)
  \/ ServerStep \/ ReceiveFails \/ Restart
  \/ ScriptStep

(* Both programs loop for ever and the system runs them; the network owes   *)
(* nothing, and nothing has to fail.                                        *)
Spec == Init /\ [][Next]_vars /\ WF_vars(ServerStep) /\ WF_vars(ScriptStep)
-----------------------------------------------------------------------------
(* A line is made of a record, or of a part of one over another. *)
Line == ((0..NDatagrams) \X (0..BatchSize))
          \cup ((0..NDatagrams) \X (0..BatchSize) \X (0..NDatagrams) \X (0..BatchSize))

(* Every variable keeps its type; a file name is never beyond the bound. *)
TypeOK ==
  /\ nsent \in 0..NDatagrams
  /\ size \in [Datagrams -> 1..MaxChunks]
  /\ copies \in [Datagrams -> 0..MaxCopies]
  /\ net \in [Datagrams -> 0..MaxCopies]
  /\ rpc \in {"recvfrom", "fopen", "fwrite", "fclose"}
  /\ recvline \in [1..MaxChunks -> (0..NDatagrams) \X (1..MaxChunks)]
  /\ len \in 0..MaxChunks
  /\ count \in 0..NFiles
  /\ dir \subseteq Names
  /\ content \in [Names -> Seq((0..NDatagrams) \X (1..MaxChunks))]
  /\ origin \in [Names -> 0..NDatagrams]
  /\ {closed, failed, reused} \subseteq SUBSET Names
  /\ faults \in [failures : 0..MaxFailures, restarts : 0..MaxRestarts]
  /\ cpc \in {"ls", "zpipe", "changeFormat", "rm"}
  /\ todo \subseteq Names
  /\ read \in Seq((0..NDatagrams) \X (1..MaxChunks))
  /\ ready \subseteq Names
  /\ bin \in Seq((Datagrams \X (1..BatchSize)) \cup {Noise})
  /\ tail \in (Datagrams \X (1..BatchSize)) \cup {Noise, Nothing}
  /\ result \in [Names -> Seq(Line)]

(* A closed file holds the datagram it was received for, and nothing of an  *)
(* earlier, longer one left in the receive buffer.                          *)
FilesHoldTheirDatagram ==
  \A n \in closed \ (failed \cup reused) : content[n] = Stream(origin[n])

(* What the archive sees of server and script: a number is finished when its   *)
(* file has been removed.                                                    *)
Opened == {n \in Names : n < count \/ (n = count /\ rpc \in {"fwrite", "fclose"})}
Handled == Opened \ dir

Archive == INSTANCE ResultArchive WITH
  finished <- Handled,
  outcome <- [n \in Names |-> IF n \in Handled THEN result[n] ELSE << >>]

(* Every line but the last of a result is the record at that place of one     *)
(* datagram: the one the file was received for, or, after a failed recvfrom,  *)
(* one whose stream was still in the buffer.  The last line is the one before *)
(* it once more, or the beginning of the next record over that, and nothing   *)
(* else.  Only a file whose number a restarted server takes again can be read *)
(* half as one datagram and half as another.                                 *)
LinesGenuine ==
  \A n \in Names \ reused : \E d \in 0..NDatagrams :
    /\ n \notin failed => d = origin[n]
    /\ \A s \in 1..(Len(result[n]) - 1) : result[n][s] = Record(d, s)
    /\ result[n] # << >> => Last(result[n]) \in Archive!LastLines(d, Len(result[n]) - 1)

(* The result of file n begins with every record of its datagram. *)
Decoded(n) ==
  /\ Len(result[n]) >= BatchSize
  /\ SubSeq(result[n], 1, BatchSize) = Records(origin[n])

(* A file that was closed when it was listed is decoded whole before it is   *)
(* removed.                                                                  *)
ClosedFilesDecoded ==
  [][\A n \in ready \ (failed \cup reused) : n \in dir /\ n \notin dir' => Decoded(n)]_vars

(* A file is removed when it has been processed (autofinddir.sh:14).        *)
RemovedWhenProcessed ==
  [][\A n \in dir : n \notin dir' => Decoded(n)]_vars

(* A received datagram is processed: its file does not stay for ever.       *)
FilesHandled == \A n \in Names : n \in dir ~> n \notin dir

(* Server and script implement the archive. *)
ImplementsArchive == Archive!ASpec

(* What is received is processed in the end: every arrival gets its result. *)
ArrivalsFinish == Archive!EveryArrivalFinishes
=============================================================================
