---------------------------- MODULE ServerProofs ----------------------------
(***************************************************************************)
(* Proofs about the server, for any number of clients and statements: the  *)
(* conversations on the sockets, and the scanner that all threads share.   *)
(***************************************************************************)
EXTENDS Server, SequenceTheorems, FiniteSetTheorems, WellFoundedInduction, TLAPS

-----------------------------------------------------------------------------
(* Types                                                                   *)

Stmts == [by : Clients, n : Nat, kind : Kinds]
Trees == Stmts \cup {NoTree}
Serving == {"scan", "parse", "exec", "delete", "write"}
Pcs == Serving \cup {"none", "start", "read", "ended"}

\* What yyparse has read of a statement while it asks for more.
Prefixes == {<<>>, <<"word">>}

ThreadRecs == [pc : Pcs, fd : Fds \cup {0}, req : Trees, got : Prefixes, word : Trees,
               result : Trees, alone : BOOLEAN, ready : BOOLEAN, threw : BOOLEAN]
Answers == [result : Trees, to : Trees, alone : BOOLEAN, ready : BOOLEAN, threw : BOOLEAN]

SocketTypes ==
    /\ client \in [Clients -> [pc : {"off", "idle", "waiting", "done"}, n : Nat]]
    /\ backlog \in Seq(Clients)
    /\ owner \in [Fds -> Clients \cup {None}]
    /\ inbox \in [Clients -> Seq(Stmts)]
    /\ outbox \in [Clients -> Seq(Answers)]
    /\ sockfd \in Fds \cup {0}

ScannerTypes ==
    /\ thread \in [Threads -> ThreadRecs]
    /\ cur \in Threads \cup {NoThread}
    /\ yy_start \in {"INITIAL", "COMMENT"}
    /\ parse_tree \in Trees

LEMMA Numbers ==
    /\ IsFiniteSet(Clients) /\ Cardinality(Clients) \in Nat /\ None \notin Clients
    /\ Fds = 1 .. Cardinality(Clients) /\ Threads = Fds
    /\ IsFiniteSet(Fds) /\ Cardinality(Fds) = Cardinality(Clients)
    /\ Fds \subseteq Nat /\ 0 \notin Fds /\ NoThread = 0
    /\ Kinds \subseteq {"sql", "comment", "ended"}
<1>1. IsFiniteSet(Clients) /\ Cardinality(Clients) \in Nat /\ None \notin Clients
  BY ServerAssumption, FS_CardinalityType
<1>2. IsFiniteSet(Fds) /\ Cardinality(Fds) = Cardinality(Clients)
  BY <1>1, FS_Interval DEF Fds
<1>3. Kinds \subseteq {"sql", "comment", "ended"}
  BY ServerAssumption DEF Text
<1> QED BY <1>1, <1>2, <1>3 DEF Fds, Threads, NoThread

LEMMA NewThreadType ==
    ASSUME NEW x \in Pcs, NEW fd \in Fds \cup {0}
    PROVE  /\ [NewThread EXCEPT !.pc = x, !.fd = fd] \in ThreadRecs
           /\ [NewThread EXCEPT !.pc = x, !.fd = fd].pc = x
           /\ [NewThread EXCEPT !.pc = x, !.fd = fd].fd = fd
           /\ [NewThread EXCEPT !.pc = x] \in ThreadRecs
           /\ [NewThread EXCEPT !.pc = x].pc = x
           /\ [NewThread EXCEPT !.pc = x].fd = 0
BY DEF NewThread, ThreadRecs, Trees, Prefixes

\* What a step of thread h does to the threads: the fields that change, and
\* nothing else.
Others(th, th2, h) == \A g \in Threads \ {h} : th2[g] = th[g]
SameStatement(r, r2) == r2.fd = r.fd /\ r2.req = r.req /\ r2.alone = r.alone /\ r2.ready = r.ready

-----------------------------------------------------------------------------
(* The invariant of the sockets                                            *)

\* Threads are created in order, and one that has read sockfd has a descriptor.
DescriptorsOK ==
    /\ started \in Nat
    /\ \A h \in Threads :
          /\ thread[h].pc \in Serving \cup {"read"} => thread[h].fd \in Fds
          /\ thread[h].pc # "none" => sockfd \in Fds /\ h <= started

\* A client has one connection: it waits in the queue or has one descriptor.
ConnectionsOK ==
    /\ \A i, j \in DOMAIN backlog : backlog[i] = backlog[j] => i = j
    /\ \A e, f \in Fds : owner[e] = owner[f] /\ owner[e] # None => e = f
    /\ \A i \in DOMAIN backlog : /\ client[backlog[i]].pc # "off"
                                 /\ \A f \in Fds : owner[f] # backlog[i]
    /\ \A f \in Fds : owner[f] # None => client[owner[f]].pc # "off"

\* The statement a thread works on came through its descriptor, which is still
\* its client's unless that is gone; only a descriptor that was given away while
\* in use can belong to another one by now.
RequestsOK ==
    /\ \A h \in Threads : thread[h].pc \in Serving =>
          /\ thread[h].req \in Stmts
          /\ owner[thread[h].fd] = thread[h].req.by \/ client[thread[h].req.by].pc = "done"
          /\ owner[thread[h].fd] \in Clients \ reused => owner[thread[h].fd] = thread[h].req.by
    /\ \A c \in Clients : \A i \in DOMAIN inbox[c] : inbox[c][i].by = c

ServingFor(c) == {h \in Threads : thread[h].pc \in Serving /\ thread[h].req.by = c}
InTouch(c) == (\E i \in DOMAIN backlog : backlog[i] = c) \/ \E f \in Fds : owner[f] = c

Silent(c) == inbox[c] = <<>> /\ outbox[c] = <<>> /\ ServingFor(c) = {}

Talking ==
    /\ \A c \in Clients : client[c].pc = "off" => Silent(c)
    /\ \A c \in Clients \ reused : InTouch(c) =>
          /\ client[c].pc = "waiting" => Traces(c) = 1
          /\ client[c].pc = "idle" => Traces(c) = 0

SocketInv == DescriptorsOK /\ ConnectionsOK /\ RequestsOK /\ Talking

-----------------------------------------------------------------------------
(* The invariant of the scanner                                            *)

\* The kind of text that yields a statement from the start condition the
\* scanner was in.
GoodKind(r) == r.req.kind = IF r.ready THEN "sql" ELSE "ended"

\* A thread that was alone since yy_scan_string has the scanner for itself: it
\* has read nothing yet, or the word of its own statement, and finds its own tree.
AtStart(r, p, start) == r.got = <<>> /\ p = 1 /\ (start = "INITIAL" <=> r.ready)
AfterWord(r, p, start) ==
    /\ r.got = <<"word">> /\ r.word = r.req /\ start = "INITIAL" /\ GoodKind(r)
    /\ p = IF r.ready THEN 2 ELSE 3
Undisturbed(g, r, buffer, p, start, tree) ==
    /\ r.pc = "parse" => /\ buffer = g /\ r.result = NoTree
                         /\ AtStart(r, p, start) \/ AfterWord(r, p, start)
    /\ r.pc = "exec" => tree = IF GoodKind(r) THEN r.req ELSE NoTree

AloneOK ==
    \A g \in Parsing : thread[g].alone =>
        /\ \A h \in Parsing : h = g
        /\ Undisturbed(g, thread[g], cur, pos, yy_start, parse_tree)

ResultsOK ==
    \A g \in Threads : thread[g].pc \in {"delete", "write"} /\ thread[g].alone =>
        thread[g].result = IF GoodKind(thread[g]) /\ ~thread[g].threw THEN thread[g].req ELSE NoTree

ScannerInv == ScannerTypes /\ CurrentBufferIsAlive /\ AloneOK /\ ResultsOK

ServerInv == SocketTypes /\ SocketInv /\ ScannerInv /\ AnswersAreOwn

-----------------------------------------------------------------------------
(* The scanner                                                             *)

\* yylex outside of a comment, and in one, from position p of a text.
LEMMA LexInitial ==
    ASSUME NEW text, NEW p \in Nat, Len(text) \in Nat, p <= Len(text), text[p] # "/*"
    PROVE  yylex(text, p, "INITIAL") = [kind |-> text[p], pos |-> p + 1, start |-> "INITIAL"]
BY DEF yylex

LEMMA LexComment ==
    ASSUME NEW text, Len(text) \in Nat, \A i \in 1 .. Len(text) : text[i] # "*/"
    PROVE  yylex(text, 1, "COMMENT").kind = "EOF"
<1>1. Where(text, 1, "*/") = {}
  BY DEF Where
<1> QED BY <1>1 DEF yylex

\* The three kinds of texts.
LEMMA LexSql ==
    /\ yylex(Text["sql"], 1, "INITIAL") = [kind |-> "word", pos |-> 2, start |-> "INITIAL"]
    /\ yylex(Text["sql"], 2, "INITIAL") = [kind |-> "semi", pos |-> 3, start |-> "INITIAL"]
    /\ yylex(Text["sql"], 1, "COMMENT").kind = "EOF"
<1> DEFINE text == Text["sql"]
<1>1. Len(text) = 2 /\ text[1] = "word" /\ text[2] = "semi"
  BY DEF Text
<1> HIDE DEF text
<1>2. \A i \in 1 .. Len(text) : i = 1 \/ i = 2
  BY <1>1
<1>3. \A i \in 1 .. Len(text) : text[i] # "*/"
  BY <1>1, <1>2
<1>4. yylex(text, 1, "INITIAL") = [kind |-> "word", pos |-> 1 + 1, start |-> "INITIAL"]
  BY <1>1, LexInitial
<1>5. yylex(text, 2, "INITIAL") = [kind |-> "semi", pos |-> 2 + 1, start |-> "INITIAL"]
  BY <1>1, LexInitial
<1>6. yylex(text, 1, "COMMENT").kind = "EOF"
  BY <1>1, <1>3, LexComment
<1> QED BY <1>4, <1>5, <1>6 DEF text

LEMMA LexOpen ==
    /\ yylex(Text["comment"], 1, "INITIAL").kind = "EOF"
    /\ yylex(Text["comment"], 1, "COMMENT").kind = "EOF"
<1> DEFINE text == Text["comment"]
<1>1. Len(text) = 1 /\ text[1] = "/*"
  BY DEF Text
<1> HIDE DEF text
<1>2. \A i \in 1 .. Len(text) : text[i] # "*/"
  BY <1>1
<1>3. yylex(text, 1, "INITIAL").kind = "EOF"
  BY <1>1 DEF yylex
<1>4. yylex(text, 1, "COMMENT").kind = "EOF"
  BY <1>1, <1>2, LexComment
<1> QED BY <1>3, <1>4 DEF text

LEMMA LexEnded ==
    /\ yylex(Text["ended"], 1, "INITIAL").kind = "*/"
    /\ yylex(Text["ended"], 1, "COMMENT") = [kind |-> "word", pos |-> 3, start |-> "INITIAL"]
    /\ yylex(Text["ended"], 3, "INITIAL") = [kind |-> "semi", pos |-> 4, start |-> "INITIAL"]
<1> DEFINE text == Text["ended"]
<1>1. Len(text) = 3 /\ text[1] = "*/" /\ text[2] = "word" /\ text[3] = "semi"
  BY DEF Text
<1> HIDE DEF text
<1>2. \A i \in 1 .. 3 : i = 1 \/ i = 2 \/ i = 3
  OBVIOUS
<1>3. Where(text, 1, "*/") = {1}
  BY <1>1, <1>2 DEF Where
<1>4. Min({1}) = 1
  BY DEF Min
<1>5. yylex(text, 1, "COMMENT") = [kind |-> "word", pos |-> 3, start |-> "INITIAL"]
  BY <1>1, <1>3, <1>4 DEF yylex
<1>6. yylex(text, 1, "INITIAL").kind = "*/"
  BY <1>1, LexInitial
<1>7. yylex(text, 3, "INITIAL") = [kind |-> "semi", pos |-> 3 + 1, start |-> "INITIAL"]
  BY <1>1, LexInitial
<1> QED BY <1>5, <1>6, <1>7 DEF text

LEMMA LexStart ==
    ASSUME NEW text, NEW p, NEW start \in {"INITIAL", "COMMENT"}
    PROVE  yylex(text, p, start).start \in {"INITIAL", "COMMENT"}
BY DEF yylex

LEMMA ThreadFacts ==
    ASSUME ScannerTypes, NEW h \in Threads
    PROVE  /\ thread[h].pc \in Pcs /\ thread[h].fd \in Fds \cup {0} /\ thread[h].req \in Trees
           /\ thread[h].got \in Prefixes /\ thread[h].word \in Trees
           /\ thread[h].result \in Trees /\ thread[h].alone \in BOOLEAN
           /\ thread[h].ready \in BOOLEAN /\ thread[h].threw \in BOOLEAN
<1>1. thread[h] \in ThreadRecs
  BY DEF ScannerTypes
<1> QED BY <1>1 DEF ThreadRecs

\* A step in which threads without a buffer come and go leaves the scanner alone.
LEMMA ScannerFrame ==
    ASSUME ScannerInv, UNCHANGED scanner, thread' \in [Threads -> ThreadRecs],
           \A g \in Threads : \/ thread'[g] = thread[g]
                              \/ /\ thread[g].pc \notin {"parse", "exec", "delete"}
                                 /\ thread'[g].pc \notin {"parse", "exec", "delete", "write"}
    PROVE  ScannerInv'
<1>1. UNCHANGED <<cur, pos, yy_start, parse_tree>>
  BY DEF scanner
<1>2. ScannerTypes'
  BY <1>1 DEF ScannerInv, ScannerTypes
<1>3. Parsing' = Parsing /\ \A g \in Parsing : thread'[g] = thread[g]
  BY DEF Parsing
<1>4. CurrentBufferIsAlive'
  BY <1>1, <1>3 DEF ScannerInv, CurrentBufferIsAlive
<1>5. AloneOK'
  BY <1>1, <1>3 DEF ScannerInv, AloneOK
<1>6. ResultsOK'
  BY DEF ScannerInv, ResultsOK
<1> QED BY <1>2, <1>4, <1>5, <1>6 DEF ScannerInv

\* yy_scan_string: whoever is parsing is alone no longer.
LEMMA ScanStringStep ==
    ASSUME ScannerInv, NEW h \in Threads, yy_scan_string(h)
    PROVE  /\ ScannerInv'
           /\ \A g \in Threads : thread'[g].fd = thread[g].fd /\ thread'[g].req = thread[g].req
           /\ \A g \in Threads \ {h} : thread'[g].pc = thread[g].pc
           /\ thread[h].pc = "scan" /\ thread'[h].pc = "parse"
<1> DEFINE mine == [thread[h] EXCEPT !.pc = "parse", !.got = <<>>, !.word = NoTree,
                                     !.result = NoTree, !.alone = (Parsing = {}),
                                     !.ready = (yy_start = "INITIAL")]
<1>1. /\ thread[h].pc = "scan" /\ cur' = h /\ pos' = 1 /\ UNCHANGED <<yy_start, parse_tree>>
      /\ thread' = [g \in Threads |->
            IF g = h THEN mine
            ELSE IF g \in Parsing THEN [thread[g] EXCEPT !.alone = FALSE] ELSE thread[g]]
  BY DEF yy_scan_string, Running, yy_switch_to_buffer
<1>2. \A g \in Threads : thread[g] \in ThreadRecs
  BY DEF ScannerInv, ScannerTypes
<1>3. /\ mine \in ThreadRecs /\ mine.pc = "parse" /\ mine.got = <<>> /\ mine.result = NoTree
      /\ mine.alone <=> Parsing = {}
      /\ mine.ready <=> yy_start = "INITIAL"
      /\ mine.fd = thread[h].fd /\ mine.req = thread[h].req
  <2>1. NoTree \in Trees /\ "parse" \in Pcs /\ <<>> \in Prefixes
    BY DEF Trees, Pcs, Serving, Prefixes
  <2> QED BY <1>2, <2>1 DEF ThreadRecs
<1> HIDE DEF mine
<1>4. \A g \in Threads :
        LET r == [thread[g] EXCEPT !.alone = FALSE]
        IN /\ r \in ThreadRecs /\ r.alone = FALSE
           /\ r.pc = thread[g].pc /\ r.fd = thread[g].fd /\ r.req = thread[g].req
           /\ r.result = thread[g].result
  BY <1>2 DEF ThreadRecs
<1>5. /\ thread' \in [Threads -> ThreadRecs] /\ thread'[h] = mine
      /\ \A g \in Threads \ {h} : /\ thread'[g].pc = thread[g].pc /\ thread'[g].fd = thread[g].fd
                                  /\ thread'[g].req = thread[g].req
                                  /\ g \in Parsing => thread'[g].alone = FALSE
                                  /\ g \notin Parsing => thread'[g] = thread[g]
  BY <1>1, <1>2, <1>3, <1>4
<1>6. Parsing' = Parsing \cup {h} /\ h \notin Parsing
  BY <1>1, <1>3, <1>5 DEF Parsing
<1>7. ScannerTypes'
  BY <1>1, <1>5 DEF ScannerInv, ScannerTypes
<1>8. CurrentBufferIsAlive'
  BY <1>1, <1>6 DEF CurrentBufferIsAlive
<1>9. AloneOK'
  <2> SUFFICES ASSUME NEW g \in Parsing', thread'[g].alone
               PROVE  /\ \A f \in Parsing' : f = g
                      /\ Undisturbed(g, thread'[g], cur', pos', yy_start', parse_tree')
    BY DEF AloneOK
  <2>1. g = h
    BY <1>5, <1>6 DEF Parsing
  <2>2. Parsing = {}
    BY <1>3, <1>5, <2>1
  <2>3. AtStart(thread'[h], pos', yy_start')
    BY <1>1, <1>3, <1>5 DEF AtStart
  <2> QED BY <1>1, <1>3, <1>5, <1>6, <2>1, <2>2, <2>3 DEF Undisturbed
<1>10. ResultsOK'
  <2> SUFFICES ASSUME NEW g \in Threads, thread'[g].pc \in {"delete", "write"}, thread'[g].alone
               PROVE  thread'[g].result = IF GoodKind(thread'[g]) /\ ~thread'[g].threw
                                          THEN thread'[g].req ELSE NoTree
    BY DEF ResultsOK
  <2>1. g # h /\ thread'[g] = thread[g]
    BY <1>3, <1>5
  <2> QED BY <2>1 DEF ScannerInv, ResultsOK
<1> QED BY <1>1, <1>3, <1>5, <1>7, <1>8, <1>9, <1>10 DEF ScannerInv

\* A step of a thread in its own buffer.
LEMMA ParserStep ==
    ASSUME ScannerInv, NEW h \in Parsing,
           thread' \in [Threads -> ThreadRecs], Others(thread, thread', h),
           thread'[h].pc \in {"parse", "exec", "delete", "write"},
           cur' \in {cur, NoThread}, thread'[h].pc = "write" => cur' # h,
           yy_start' \in {"INITIAL", "COMMENT"}, parse_tree' \in Trees,
           thread'[h].alone = thread[h].alone,
           thread[h].alone => Undisturbed(h, thread'[h], cur', pos', yy_start', parse_tree'),
           thread[h].alone /\ thread'[h].pc \in {"delete", "write"} =>
              thread'[h].result = IF GoodKind(thread'[h]) /\ ~thread'[h].threw
                                  THEN thread'[h].req ELSE NoTree
    PROVE  ScannerInv'
<1>1. h \in Threads /\ \A g \in Threads \ {h} : thread'[g] = thread[g]
  BY DEF Parsing, Others
<1>2. ScannerTypes'
  BY DEF ScannerInv, ScannerTypes
<1>3. /\ Parsing' \subseteq Parsing
      /\ \A g \in Parsing \ {h} : g \in Parsing' /\ thread'[g] = thread[g]
      /\ thread'[h].pc # "write" => h \in Parsing'
  BY <1>1 DEF Parsing
<1>4. CurrentBufferIsAlive'
  BY <1>3 DEF ScannerInv, CurrentBufferIsAlive, Parsing
<1>5. AloneOK'
  <2> SUFFICES ASSUME NEW g \in Parsing', thread'[g].alone
               PROVE  /\ \A f \in Parsing' : f = g
                      /\ Undisturbed(g, thread'[g], cur', pos', yy_start', parse_tree')
    BY DEF AloneOK
  <2>1. g = h
    BY <1>3 DEF ScannerInv, AloneOK
  <2>2. \A f \in Parsing : f = h
    BY <2>1 DEF ScannerInv, AloneOK
  <2> QED BY <1>3, <2>1, <2>2
<1>6. ResultsOK'
  BY <1>1 DEF ScannerInv, ResultsOK
<1> QED BY <1>2, <1>4, <1>5, <1>6 DEF ScannerInv

\* What yyparse does with a token after nothing and after a word.
LEMMA Tokens ==
    ASSUME NEW kind
    PROVE  /\ Append(<<>>, kind) = <<"word">> <=> kind = "word"
           /\ Append(<<>>, kind) = <<"EOF">> <=> kind = "EOF"
           /\ Append(<<>>, kind) # <<"word", "semi">>
           /\ Append(<<"word">>, kind) # <<"word">> /\ Append(<<"word">>, kind) # <<"EOF">>
           /\ Append(<<"word">>, kind) = <<"word", "semi">> <=> kind = "semi"
<1> DEFINE a == Append(<<>>, kind)
           b == Append(<<"word">>, kind)
<1>1. Len(a) = 1 /\ a[1] = kind /\ a = <<kind>>
  OBVIOUS
<1>2. Len(b) = 2 /\ b[1] = "word" /\ b[2] = kind /\ b = <<"word", kind>>
  <2>1. Len(b) = 2
    OBVIOUS
  <2>2. b[1] = "word"
    OBVIOUS
  <2>3. b[2] = kind
    OBVIOUS
  <2>4. b = <<"word", kind>>
    <3>1. b \in Seq({"word", kind}) /\ <<"word", kind>> \in Seq({"word", kind})
      OBVIOUS
    <3>2. Len(<<"word", kind>>) = 2 /\ <<"word", kind>>[1] = "word" /\ <<"word", kind>>[2] = kind
      OBVIOUS
    <3>3. \A i \in 1 .. 2 : i = 1 \/ i = 2
      OBVIOUS
    <3> HIDE DEF b
    <3> QED BY <2>1, <2>2, <2>3, <3>1, <3>2, <3>3, SeqEqual
  <2> QED BY <2>1, <2>2, <2>3, <2>4
<1>3. /\ Len(<<"word">>) = 1 /\ <<"word">>[1] = "word" /\ Len(<<"EOF">>) = 1 /\ <<"EOF">>[1] = "EOF"
      /\ Len(<<"word", "semi">>) = 2 /\ <<"word", "semi">>[2] = "semi"
  OBVIOUS
<1> HIDE DEF a, b
<1>4. a = <<"word">> <=> kind = "word"
  BY <1>1, <1>3
<1>5. a = <<"EOF">> <=> kind = "EOF"
  BY <1>1, <1>3
<1>6. a # <<"word", "semi">>
  BY <1>1, <1>3
<1>7. b # <<"word">> /\ b # <<"EOF">>
  BY <1>2, <1>3
<1>8. b = <<"word", "semi">> <=> kind = "semi"
  BY <1>2, <1>3
<1> QED BY <1>4, <1>5, <1>6, <1>7, <1>8 DEF a, b

\* What a token does: asked for in state got of yyparse, with the word first.
Seen(r, kind) == Append(r.got, kind)
First(r, kind, w) == IF kind = "word" THEN w ELSE r.word

LEMMA ShiftEffect ==
    ASSUME thread \in [Threads -> ThreadRecs], NEW h \in Threads, NEW kind, NEW w \in Trees,
           Shift(h, kind, w)
    PROVE  /\ thread' \in [Threads -> ThreadRecs] /\ Others(thread, thread', h)
           /\ SameStatement(thread[h], thread'[h]) /\ thread'[h].result = thread[h].result
           /\ \/ /\ Seen(thread[h], kind) = <<"word">> /\ UNCHANGED parse_tree
                 /\ thread'[h].pc = thread[h].pc /\ thread'[h].got = <<"word">>
                 /\ thread'[h].word = First(thread[h], kind, w)
              \/ /\ Seen(thread[h], kind) \in {<<"word", "semi">>, <<"EOF">>}
                 /\ parse_tree' = IF kind = "EOF" THEN NoTree ELSE First(thread[h], kind, w)
                 /\ thread'[h].pc = "exec"
              \/ /\ Seen(thread[h], kind) \notin {<<"word">>, <<"word", "semi">>, <<"EOF">>}
                 /\ thread'[h].pc = "delete" /\ UNCHANGED parse_tree
<1>1. First(thread[h], kind, w) \in Trees
  BY DEF First, ThreadRecs
<1>2. "exec" \in Pcs /\ "delete" \in Pcs /\ <<"word">> \in Prefixes
  BY DEF Pcs, Serving, Prefixes
<1>3. CASE /\ Seen(thread[h], kind) = <<"word">> /\ UNCHANGED parse_tree
           /\ thread' = [thread EXCEPT ![h].got = Seen(thread[h], kind),
                                       ![h].word = First(thread[h], kind, w)]
  <2>1. PICK seen \in Prefixes : seen = Seen(thread[h], kind)
    BY <1>2, <1>3
  <2>2. PICK first \in Trees : first = First(thread[h], kind, w)
    BY <1>1
  <2>3. thread' = [thread EXCEPT ![h].got = seen, ![h].word = first]
    BY <1>3, <2>1, <2>2
  <2>4. /\ thread' \in [Threads -> ThreadRecs] /\ Others(thread, thread', h)
        /\ thread'[h].pc = thread[h].pc /\ SameStatement(thread[h], thread'[h])
        /\ thread'[h].got = seen /\ thread'[h].word = first
        /\ thread'[h].result = thread[h].result
    BY <2>3 DEF ThreadRecs, Others, SameStatement
  <2> QED BY <1>3, <2>1, <2>2, <2>4
<1>4. ASSUME NEW x \in Pcs, Goes(h, x)
      PROVE  /\ thread' \in [Threads -> ThreadRecs] /\ Others(thread, thread', h)
             /\ SameStatement(thread[h], thread'[h]) /\ thread'[h].result = thread[h].result
             /\ thread'[h].pc = x
  BY <1>4 DEF Goes, ThreadRecs, Others, SameStatement
<1>5. CASE /\ Seen(thread[h], kind) \in {<<"word", "semi">>, <<"EOF">>}
           /\ parse_tree' = IF kind = "EOF" THEN NoTree ELSE First(thread[h], kind, w)
           /\ Goes(h, "exec")
  BY <1>2, <1>4, <1>5
<1>6. CASE /\ Seen(thread[h], kind) \notin {<<"word">>, <<"word", "semi">>, <<"EOF">>}
           /\ Goes(h, "delete") /\ UNCHANGED parse_tree
  BY <1>2, <1>4, <1>6
<1> QED BY <1>3, <1>5, <1>6 DEF Shift, Seen, First

\* The token a thread that is alone gets: the word of its own statement, or the
\* end of a text that is none, and then the semicolon.
OwnToken(r, kind, w, p, start, p2, start2) ==
    /\ AtStart(r, p, start) =>
          \/ /\ GoodKind(r) /\ kind = "word" /\ w = r.req
             /\ start2 = "INITIAL" /\ p2 = IF r.ready THEN 2 ELSE 3
          \/ ~GoodKind(r) /\ kind \in {"EOF", "*/"}
    /\ AfterWord(r, p, start) => kind = "semi"

LEMMA ShiftStep ==
    ASSUME ScannerInv, NEW h \in Threads, thread[h].pc = "parse",
           NEW kind, NEW w \in Trees, Shift(h, kind, w), cur' = cur,
           yy_start' \in {"INITIAL", "COMMENT"},
           thread[h].alone => OwnToken(thread[h], kind, w, pos, yy_start, pos', yy_start')
    PROVE  /\ ScannerInv'
           /\ Others(thread, thread', h) /\ thread'[h].pc \in {"parse", "exec", "delete"}
           /\ SameStatement(thread[h], thread'[h])
<1>1. /\ thread \in [Threads -> ThreadRecs] /\ thread[h].got \in Prefixes
      /\ thread[h].word \in Trees /\ parse_tree \in Trees /\ NoTree \in Trees /\ h \in Parsing
      /\ thread[h].alone \in BOOLEAN /\ thread[h].ready \in BOOLEAN
  BY ThreadFacts DEF ScannerInv, ScannerTypes, Trees, Parsing
<1>2. First(thread[h], kind, w) \in Trees
  BY <1>1 DEF First
<1>3. /\ thread' \in [Threads -> ThreadRecs] /\ Others(thread, thread', h)
      /\ SameStatement(thread[h], thread'[h]) /\ thread'[h].result = thread[h].result
      /\ thread'[h].alone = thread[h].alone
      /\ GoodKind(thread'[h]) <=> GoodKind(thread[h])
  BY <1>1, ShiftEffect DEF SameStatement, GoodKind
<1>4. thread[h].alone => /\ thread[h].result = NoTree /\ cur = h
                         /\ AtStart(thread[h], pos, yy_start) \/ AfterWord(thread[h], pos, yy_start)
  BY <1>1 DEF ScannerInv, AloneOK, Undisturbed
<1>5. /\ AtStart(thread[h], pos, yy_start) =>
            /\ Seen(thread[h], kind) = <<"word">> <=> kind = "word"
            /\ Seen(thread[h], kind) = <<"EOF">> <=> kind = "EOF"
            /\ Seen(thread[h], kind) # <<"word", "semi">>
      /\ AfterWord(thread[h], pos, yy_start) =>
            /\ Seen(thread[h], kind) # <<"word">> /\ Seen(thread[h], kind) # <<"EOF">>
            /\ Seen(thread[h], kind) = <<"word", "semi">> <=> kind = "semi"
  BY Tokens DEF AtStart, AfterWord, Seen
<1>6. CASE /\ Seen(thread[h], kind) = <<"word">> /\ UNCHANGED parse_tree
           /\ thread'[h].pc = thread[h].pc /\ thread'[h].got = <<"word">>
           /\ thread'[h].word = First(thread[h], kind, w)
  <2>1. ASSUME thread[h].alone
        PROVE  Undisturbed(h, thread'[h], cur', pos', yy_start', parse_tree')
    <3>1. AtStart(thread[h], pos, yy_start) /\ kind = "word"
      BY <1>4, <1>5, <1>6, <2>1
    <3>2. /\ GoodKind(thread[h]) /\ w = thread[h].req /\ First(thread[h], kind, w) = w
          /\ yy_start' = "INITIAL" /\ pos' = IF thread[h].ready THEN 2 ELSE 3
      BY <2>1, <3>1 DEF OwnToken, First
    <3>3. AfterWord(thread'[h], pos', yy_start')
      BY <1>3, <1>6, <3>2 DEF AfterWord, SameStatement
    <3> QED BY <1>3, <1>4, <1>6, <2>1, <3>3 DEF Undisturbed
  <2>2. thread'[h].pc = "parse"
    BY <1>6
  <2> QED BY <1>1, <1>3, <1>6, <2>1, <2>2, ParserStep
<1>7. CASE /\ Seen(thread[h], kind) \in {<<"word", "semi">>, <<"EOF">>}
           /\ parse_tree' = IF kind = "EOF" THEN NoTree ELSE First(thread[h], kind, w)
           /\ thread'[h].pc = "exec"
  <2>1. ASSUME thread[h].alone
        PROVE  Undisturbed(h, thread'[h], cur', pos', yy_start', parse_tree')
    <3>1. CASE AtStart(thread[h], pos, yy_start)
      <4>1. kind = "EOF"
        BY <1>5, <1>7, <3>1
      <4>2. ~GoodKind(thread[h])
        BY <2>1, <3>1, <4>1 DEF OwnToken
      <4> QED BY <1>3, <1>7, <4>1, <4>2 DEF Undisturbed
    <3>2. CASE AfterWord(thread[h], pos, yy_start)
      <4>1. kind = "semi" /\ GoodKind(thread[h]) /\ thread[h].word = thread[h].req
        BY <2>1, <3>2 DEF OwnToken, AfterWord
      <4>2. parse_tree' = thread[h].req
        BY <1>7, <4>1 DEF First
      <4> QED BY <1>3, <1>7, <4>1, <4>2 DEF Undisturbed, SameStatement
    <3> QED BY <1>4, <2>1, <3>1, <3>2
  <2>2. parse_tree' \in Trees
    BY <1>1, <1>2, <1>7
  <2> QED BY <1>1, <1>3, <1>7, <2>1, <2>2, ParserStep
<1>8. CASE /\ Seen(thread[h], kind) \notin {<<"word">>, <<"word", "semi">>, <<"EOF">>}
           /\ thread'[h].pc = "delete" /\ UNCHANGED parse_tree
  <2>1. thread[h].alone => ~GoodKind(thread[h])
    BY <1>4, <1>5, <1>8 DEF OwnToken
  <2>2. thread[h].alone => thread'[h].result = NoTree /\ ~GoodKind(thread'[h])
    BY <1>3, <1>4, <2>1
  <2>3. Undisturbed(h, thread'[h], cur', pos', yy_start', parse_tree')
    BY <1>8 DEF Undisturbed
  <2> QED BY <1>1, <1>3, <1>8, <2>2, <2>3, ParserStep
<1> QED BY <1>1, <1>6, <1>7, <1>8, ShiftEffect

\* The first token and the second one of each kind of text.
LEMMA OwnTokens ==
    ASSUME NEW r, r.req.kind \in {"sql", "comment", "ended"}, r.ready \in BOOLEAN,
           NEW p, NEW start \in {"INITIAL", "COMMENT"}, NEW kind, NEW p2, NEW start2,
           kind = yylex(Text[r.req.kind], p, start).kind,
           p2 = yylex(Text[r.req.kind], p, start).pos,
           start2 = yylex(Text[r.req.kind], p, start).start
    PROVE  OwnToken(r, kind, r.req, p, start, p2, start2)
<1>1. CASE r.req.kind = "sql"
  BY <1>1, LexSql DEF OwnToken, AtStart, AfterWord, GoodKind
<1>2. CASE r.req.kind = "comment"
  BY <1>2, LexOpen DEF OwnToken, AtStart, AfterWord, GoodKind
<1>3. CASE r.req.kind = "ended"
  BY <1>3, LexEnded DEF OwnToken, AtStart, AfterWord, GoodKind
<1> QED BY <1>1, <1>2, <1>3

LEMMA LexStep ==
    ASSUME ScannerInv, NEW h \in Threads, thread[h].req \in Stmts, Lex(h)
    PROVE  /\ ScannerInv'
           /\ Others(thread, thread', h) /\ thread[h].pc = "parse"
           /\ thread'[h].pc \in {"parse", "exec", "delete"}
           /\ SameStatement(thread[h], thread'[h])
<1> DEFINE tok == yylex(Text[thread[cur].req.kind], pos, yy_start)
<1>1. /\ thread[h].pc = "parse" /\ cur # NoThread /\ pos' = tok.pos /\ yy_start' = tok.start
      /\ Shift(h, tok.kind, thread[cur].req) /\ cur' = cur
  BY DEF Lex, Running
<1>2. cur \in Threads /\ yy_start \in {"INITIAL", "COMMENT"}
  BY <1>1 DEF ScannerInv, ScannerTypes
<1>3. thread[cur].req \in Trees /\ thread[h].ready \in BOOLEAN /\ thread[h].alone \in BOOLEAN
  BY <1>2, ThreadFacts DEF ScannerInv
<1>4. yy_start' \in {"INITIAL", "COMMENT"}
  BY <1>1, <1>2, LexStart
<1>5. PICK kind : kind = tok.kind
  OBVIOUS
<1>6. ASSUME thread[h].alone
      PROVE  OwnToken(thread[h], kind, thread[cur].req, pos, yy_start, pos', yy_start')
  <2>1. cur = h
    BY <1>1, <1>6 DEF ScannerInv, AloneOK, Undisturbed, Parsing
  <2>2. thread[h].req.kind \in {"sql", "comment", "ended"}
    BY Numbers DEF Stmts
  <2>3. PICK p2, start2 : p2 = tok.pos /\ start2 = tok.start
    OBVIOUS
  <2>4. OwnToken(thread[h], kind, thread[h].req, pos, yy_start, p2, start2)
    BY <1>2, <1>3, <1>5, <2>1, <2>2, <2>3, OwnTokens
  <2> QED BY <1>1, <2>1, <2>3, <2>4
<1> HIDE DEF tok
<1>7. Shift(h, kind, thread[cur].req)
  BY <1>1, <1>5
<1> QED BY <1>1, <1>3, <1>4, <1>6, <1>7, ShiftStep

\* In a freed buffer: the thread whose buffer it was is not alone.
LEMMA LexFreedStep ==
    ASSUME ScannerInv, NEW h \in Threads, LexFreed(h)
    PROVE  /\ ScannerInv'
           /\ Others(thread, thread', h) /\ thread[h].pc = "parse"
           /\ thread'[h].pc \in {"parse", "exec", "delete"}
           /\ SameStatement(thread[h], thread'[h])
<1>1. thread[h].pc = "parse" /\ cur = NoThread /\ UNCHANGED <<cur, pos, yy_start>>
  BY DEF LexFreed, Running
<1>2. PICK kind \in {"word", "semi", "EOF", "*/"}, w \in {thread[h].req, NoTree} : Shift(h, kind, w)
  BY DEF LexFreed
<1>3. w \in Trees /\ thread[h].alone \in BOOLEAN
  BY <1>2, ThreadFacts DEF ScannerInv, Trees
<1>4. ~thread[h].alone
  BY <1>1, <1>3, Numbers DEF ScannerInv, AloneOK, Undisturbed, Parsing
<1>5. yy_start' \in {"INITIAL", "COMMENT"} /\ cur' = cur
  BY <1>1 DEF ScannerInv, ScannerTypes
<1> QED BY <1>1, <1>2, <1>3, <1>4, <1>5, ShiftStep

\* interp_sql of the thread's own tree, unless it was disturbed.
LEMMA InterpStep ==
    ASSUME ScannerInv, NEW h \in Threads, NEW throws \in BOOLEAN, interp_sql(h, throws)
    PROVE  /\ ScannerInv'
           /\ Others(thread, thread', h) /\ thread[h].pc = "exec" /\ thread'[h].pc = "delete"
           /\ SameStatement(thread[h], thread'[h])
<1>1. PICK r : r = IF throws THEN NoTree ELSE parse_tree
  OBVIOUS
<1>2. r \in Trees /\ thread \in [Threads -> ThreadRecs] /\ "delete" \in Pcs
  BY <1>1 DEF ScannerInv, ScannerTypes, Trees, Pcs, Serving
<1>3. /\ thread[h].pc = "exec" /\ UNCHANGED <<cur, pos, yy_start, parse_tree>>
      /\ thread' = [thread EXCEPT ![h].pc = "delete", ![h].result = r, ![h].threw = throws]
  BY <1>1 DEF interp_sql, Running, scanner
<1>4. /\ thread' \in [Threads -> ThreadRecs] /\ Others(thread, thread', h)
      /\ thread'[h].pc = "delete" /\ SameStatement(thread[h], thread'[h])
      /\ thread'[h].result = r
  BY <1>2, <1>3 DEF ThreadRecs, Others, SameStatement
<1>5. thread'[h].threw <=> throws
  BY <1>2, <1>3 DEF ThreadRecs
<1>6. thread'[h].alone = thread[h].alone /\ thread'[h].req = thread[h].req
      /\ (GoodKind(thread'[h]) <=> GoodKind(thread[h]))
  BY <1>4 DEF SameStatement, GoodKind
<1>7. thread[h].alone => parse_tree = IF GoodKind(thread[h]) THEN thread[h].req ELSE NoTree
  BY <1>3 DEF ScannerInv, AloneOK, Undisturbed, Parsing
<1>8. thread[h].alone => thread'[h].result = IF GoodKind(thread'[h]) /\ ~thread'[h].threw
                                             THEN thread'[h].req ELSE NoTree
  BY <1>1, <1>4, <1>5, <1>6, <1>7
<1>9. Undisturbed(h, thread'[h], cur', pos', yy_start', parse_tree')
  BY <1>4 DEF Undisturbed
<1>10. h \in Parsing /\ yy_start' \in {"INITIAL", "COMMENT"} /\ parse_tree' \in Trees
  BY <1>3 DEF Parsing, ScannerInv, ScannerTypes
<1>11. ScannerInv'
  BY <1>3, <1>4, <1>6, <1>8, <1>9, <1>10, ParserStep
<1> QED BY <1>3, <1>4, <1>11

\* yy_delete_buffer: the thread's buffer is not the current one any more.
LEMMA DeleteStep ==
    ASSUME ScannerInv, NEW h \in Threads, DeleteBuffer(h)
    PROVE  /\ ScannerInv'
           /\ Others(thread, thread', h) /\ thread[h].pc = "delete" /\ thread'[h].pc = "write"
           /\ SameStatement(thread[h], thread'[h])
<1>1. /\ thread[h].pc = "delete" /\ UNCHANGED <<yy_start, parse_tree>>
      /\ cur' = IF cur = h THEN NoThread ELSE cur
      /\ thread' = [thread EXCEPT ![h].pc = "write", ![h].got = <<>>, ![h].word = NoTree]
  BY DEF DeleteBuffer, Running, CurAfterDelete
<1>2. /\ thread \in [Threads -> ThreadRecs] /\ NoTree \in Trees /\ <<>> \in Prefixes
      /\ "write" \in Pcs
  BY DEF ScannerInv, ScannerTypes, Trees, Prefixes, Pcs, Serving
<1>3. PICK none \in Prefixes : none = <<>>
  BY <1>2
<1>4. thread' = [thread EXCEPT ![h].pc = "write", ![h].got = none, ![h].word = NoTree]
  BY <1>1, <1>3
<1>5. /\ thread' \in [Threads -> ThreadRecs] /\ Others(thread, thread', h)
      /\ thread'[h].pc = "write" /\ SameStatement(thread[h], thread'[h])
      /\ thread'[h].result = thread[h].result /\ thread'[h].threw = thread[h].threw
  BY <1>2, <1>4 DEF ThreadRecs, Others, SameStatement
<1>6. thread'[h].alone = thread[h].alone /\ thread'[h].req = thread[h].req
      /\ (GoodKind(thread'[h]) <=> GoodKind(thread[h]))
  BY <1>5 DEF SameStatement, GoodKind
<1>7. thread[h].alone => thread'[h].result = IF GoodKind(thread'[h]) /\ ~thread'[h].threw
                                             THEN thread'[h].req ELSE NoTree
  BY <1>1, <1>5, <1>6 DEF ScannerInv, ResultsOK
<1>8. Undisturbed(h, thread'[h], cur', pos', yy_start', parse_tree')
  BY <1>5 DEF Undisturbed
<1>9. /\ h \in Parsing /\ yy_start' \in {"INITIAL", "COMMENT"} /\ parse_tree' \in Trees
      /\ cur' \in {cur, NoThread} /\ cur' # h
  BY <1>1, Numbers DEF Parsing, ScannerInv, ScannerTypes
<1>10. ScannerInv'
  BY <1>5, <1>6, <1>7, <1>8, <1>9, ParserStep
<1> QED BY <1>1, <1>5, <1>10

-----------------------------------------------------------------------------
(* The sockets                                                             *)

LEMMA ServingSet ==
    ASSUME NEW c
    PROVE  IsFiniteSet(ServingFor(c)) /\ Cardinality(ServingFor(c)) \in Nat
<1>1. ServingFor(c) \subseteq Threads
  BY DEF ServingFor
<1> QED BY <1>1, Numbers, FS_Subset, FS_CardinalityType

LEMMA TracesAre ==
    ASSUME NEW c
    PROVE  /\ Traces(c) = Len(inbox[c]) + Len(outbox[c]) + Cardinality(ServingFor(c))
           /\ Traces(c)' = Len(inbox'[c]) + Len(outbox'[c]) + Cardinality(ServingFor(c)')
BY DEF Traces, ServingFor, Serving

LEMMA Untouched ==
    ASSUME NEW d, inbox'[d] = inbox[d], outbox'[d] = outbox[d], ServingFor(d)' = ServingFor(d)
    PROVE  Traces(d)' = Traces(d) /\ (Silent(d)' <=> Silent(d))
BY TracesAre DEF Silent

\* How the number of traces changes with its parts.
LEMMA TracesChange ==
    ASSUME SocketTypes, NEW c \in Clients, NEW i \in Int, NEW o \in Int, NEW s \in Int,
           Len(inbox'[c]) = Len(inbox[c]) + i, Len(outbox'[c]) = Len(outbox[c]) + o,
           Cardinality(ServingFor(c)') = Cardinality(ServingFor(c)) + s
    PROVE  Traces(c)' = Traces(c) + i + o + s
<1>1. Len(inbox[c]) \in Nat /\ Len(outbox[c]) \in Nat /\ Cardinality(ServingFor(c)) \in Nat
  BY ServingSet, LenProperties DEF SocketTypes
<1>2. PICK a \in Nat, b \in Nat, d \in Nat :
        a = Len(inbox[c]) /\ b = Len(outbox[c]) /\ d = Cardinality(ServingFor(c))
  BY <1>1
<1>3. Traces(c) = a + b + d
  BY <1>2, TracesAre
<1>4. Traces(c)' = (a + i) + (b + o) + (d + s)
  BY <1>2, TracesAre
<1> QED BY <1>3, <1>4

\* A step that changes no socket, and of no thread its descriptor, its statement
\* or whether it has one, leaves the conversations alone.
LEMMA SocketFrame ==
    ASSUME SocketTypes, SocketInv, UNCHANGED <<sockets, client, accepted>>,
           \A g \in Threads : /\ thread'[g].fd = thread[g].fd /\ thread'[g].req = thread[g].req
                              /\ thread'[g].pc \in Serving <=> thread[g].pc \in Serving
                              /\ thread'[g].pc = "read" <=> thread[g].pc = "read"
                              /\ thread'[g].pc = "none" <=> thread[g].pc = "none"
    PROVE  SocketTypes' /\ SocketInv'
<1>1. UNCHANGED <<backlog, owner, inbox, outbox, client, sockfd, started, reused>>
  BY DEF sockets, accepted
<1>2. SocketTypes'
  BY <1>1 DEF SocketTypes
<1>3. DescriptorsOK'
  BY <1>1 DEF SocketInv, DescriptorsOK
<1>4. ConnectionsOK'
  BY <1>1 DEF SocketInv, ConnectionsOK
<1>5. RequestsOK'
  BY <1>1 DEF SocketInv, RequestsOK
<1>6. \A c \in Clients : ServingFor(c)' = ServingFor(c)
  BY DEF ServingFor
<1>7. \A c \in Clients : Traces(c)' = Traces(c) /\ (Silent(c)' <=> Silent(c)) /\ (InTouch(c)' <=> InTouch(c))
  BY <1>1, <1>6, TracesAre DEF Silent, InTouch
<1>8. Talking'
  BY <1>1, <1>7 DEF SocketInv, Talking
<1> QED BY <1>2, <1>3, <1>4, <1>5, <1>8 DEF SocketInv

LEMMA ConnectStep ==
    ASSUME SocketTypes, SocketInv, NEW c \in Clients, Connect(c)
    PROVE  SocketTypes' /\ SocketInv'
<1>1. /\ client[c].pc = "off" /\ client' = [client EXCEPT ![c].pc = "idle"]
      /\ backlog' = Append(backlog, c)
      /\ UNCHANGED <<owner, inbox, outbox, sockfd, started, reused, thread>>
  BY DEF Connect, ClientGoes, accepted
<1>2. /\ client'[c].pc = "idle" /\ \A d \in Clients \ {c} : client'[d] = client[d]
      /\ client' \in [Clients -> [pc : {"off", "idle", "waiting", "done"}, n : Nat]]
  BY <1>1 DEF SocketTypes
<1>3. /\ backlog' \in Seq(Clients) /\ Len(backlog') = Len(backlog) + 1 /\ Len(backlog) \in Nat
      /\ backlog'[Len(backlog) + 1] = c
      /\ \A i \in 1 .. Len(backlog) : backlog'[i] = backlog[i] /\ backlog[i] \in Clients
      /\ DOMAIN backlog = 1 .. Len(backlog) /\ DOMAIN backlog' = 1 .. Len(backlog) + 1
  BY <1>1, AppendProperties DEF SocketTypes
<1>4. \A i \in DOMAIN backlog' : i \in DOMAIN backlog \/ i = Len(backlog) + 1
  BY <1>3
<1>5. SocketTypes'
  BY <1>1, <1>2, <1>3 DEF SocketTypes
<1>6. DescriptorsOK'
  BY <1>1 DEF SocketInv, DescriptorsOK
<1>7. ConnectionsOK'
  <2>1. \A i \in DOMAIN backlog : backlog[i] # c
    BY <1>1 DEF SocketInv, ConnectionsOK
  <2>2. \A f \in Fds : owner[f] # c
    BY <1>1, Numbers DEF SocketInv, ConnectionsOK
  <2>3. \A i, j \in DOMAIN backlog' : backlog'[i] = backlog'[j] => i = j
    BY <1>3, <1>4, <2>1 DEF SocketInv, ConnectionsOK
  <2>4. \A i \in DOMAIN backlog' : client'[backlog'[i]].pc # "off" /\ \A f \in Fds : owner'[f] # backlog'[i]
    BY <1>1, <1>2, <1>3, <1>4, <2>2 DEF SocketInv, ConnectionsOK
  <2>5. \A f \in Fds : owner'[f] # None => client'[owner'[f]].pc # "off"
    BY <1>1, <1>2 DEF SocketInv, ConnectionsOK, SocketTypes
  <2>6. \A e, f \in Fds : owner'[e] = owner'[f] /\ owner'[e] # None => e = f
    BY <1>1 DEF SocketInv, ConnectionsOK
  <2> QED BY <2>3, <2>4, <2>5, <2>6 DEF ConnectionsOK
<1>8. RequestsOK'
  BY <1>1, <1>2 DEF SocketInv, RequestsOK, Stmts
<1>9. \A d \in Clients : /\ ServingFor(d)' = ServingFor(d) /\ Traces(d)' = Traces(d)
                         /\ Silent(d)' <=> Silent(d)
  BY <1>1 DEF ServingFor, Traces, Silent
<1>10. Traces(c) = 0
  <2>1. inbox[c] = <<>> /\ outbox[c] = <<>> /\ ServingFor(c) = {}
    BY <1>1 DEF SocketInv, Talking, Silent
  <2>2. Len(inbox[c]) = 0 /\ Len(outbox[c]) = 0 /\ Cardinality(ServingFor(c)) = 0
    BY <2>1, FS_EmptySet
  <2>3. Traces(c) = Len(inbox[c]) + Len(outbox[c]) + Cardinality(ServingFor(c))
    BY TracesAre
  <2> QED BY <2>2, <2>3
<1>11. \A d \in Clients \ {c} : InTouch(d)' => InTouch(d)
  BY <1>1, <1>3, <1>4 DEF InTouch
<1>12. Talking'
  BY <1>1, <1>2, <1>9, <1>10, <1>11 DEF SocketInv, Talking
<1> QED BY <1>5, <1>6, <1>7, <1>8, <1>12 DEF SocketInv

\* A line is sent on a silent connection.
LEMMA SendStep ==
    ASSUME SocketTypes, SocketInv, NEW c \in Clients, NEW kind \in Kinds, Send(c, kind)
    PROVE  SocketTypes' /\ SocketInv'
<1> DEFINE stmt == [by |-> c, n |-> client[c].n + 1, kind |-> kind]
<1>1. /\ client[c].pc = "idle"
      /\ client' = [client EXCEPT ![c] = [pc |-> "waiting", n |-> @.n + 1]]
      /\ inbox' = [inbox EXCEPT ![c] = Append(@, stmt)]
      /\ UNCHANGED <<backlog, owner, outbox, sockfd, started, reused, thread>>
  BY DEF Send, accepted
<1>2. /\ client'[c].pc = "waiting" /\ \A d \in Clients \ {c} : client'[d] = client[d]
      /\ client' \in [Clients -> [pc : {"off", "idle", "waiting", "done"}, n : Nat]]
  BY <1>1 DEF SocketTypes
<1>3. stmt \in Stmts /\ stmt.by = c
  BY DEF Stmts, SocketTypes
<1> HIDE DEF stmt
<1>4. /\ inbox[c] \in Seq(Stmts) /\ inbox'[c] = Append(inbox[c], stmt)
      /\ \A d \in Clients \ {c} : inbox'[d] = inbox[d]
  BY <1>1 DEF SocketTypes
<1>5. /\ inbox'[c] \in Seq(Stmts) /\ Len(inbox'[c]) = Len(inbox[c]) + 1
      /\ \A i \in 1 .. Len(inbox[c]) : inbox'[c][i] = inbox[c][i]
      /\ inbox'[c][Len(inbox[c]) + 1] = stmt /\ Len(inbox[c]) \in Nat
      /\ DOMAIN inbox[c] = 1 .. Len(inbox[c]) /\ DOMAIN inbox'[c] = 1 .. Len(inbox'[c])
  BY <1>3, <1>4, AppendProperties
<1>6. SocketTypes'
  BY <1>1, <1>2, <1>5 DEF SocketTypes
<1>7. DescriptorsOK'
  BY <1>1 DEF SocketInv, DescriptorsOK
<1>8. ConnectionsOK'
  BY <1>1, <1>2 DEF SocketInv, ConnectionsOK, SocketTypes
<1>9. RequestsOK'
  <2>1. \A d \in Clients : \A i \in DOMAIN inbox'[d] : inbox'[d][i].by = d
    <3> SUFFICES ASSUME NEW d \in Clients, NEW i \in DOMAIN inbox'[d]
                 PROVE  inbox'[d][i].by = d
      OBVIOUS
    <3>1. CASE d = c
      <4>1. i \in DOMAIN inbox[c] \/ i = Len(inbox[c]) + 1
        BY <1>5, <3>1
      <4> QED BY <1>3, <1>5, <3>1, <4>1 DEF SocketInv, RequestsOK
    <3>2. CASE d # c
      BY <1>4, <3>2 DEF SocketInv, RequestsOK
    <3> QED BY <3>1, <3>2
  <2>2. \A h \in Threads : thread[h].pc \in Serving =>
           owner[thread[h].fd] = thread[h].req.by \/ client'[thread[h].req.by].pc = "done"
    BY <1>1, <1>2 DEF SocketInv, RequestsOK, Stmts
  <2> QED BY <1>1, <2>1, <2>2 DEF SocketInv, RequestsOK
<1>10. \A d \in Clients : ServingFor(d)' = ServingFor(d) /\ (InTouch(d)' <=> InTouch(d))
  BY <1>1 DEF ServingFor, InTouch
<1>11. \A d \in Clients \ {c} : Traces(d)' = Traces(d) /\ (Silent(d)' <=> Silent(d))
  BY <1>1, <1>4, <1>10, TracesAre DEF Silent
<1>12. c \notin reused /\ InTouch(c) => Traces(c)' = 1
  <2>1. PICK i \in Int, o \in Int, s \in Int : i = 1 /\ o = 0 /\ s = 0
    OBVIOUS
  <2>2. /\ Len(inbox'[c]) = Len(inbox[c]) + i /\ Len(outbox'[c]) = Len(outbox[c]) + o
        /\ Cardinality(ServingFor(c)') = Cardinality(ServingFor(c)) + s
    BY <1>1, <1>5, <1>10, <2>1, ServingSet, LenProperties DEF SocketTypes
  <2>3. Traces(c)' = Traces(c) + i + o + s
    BY <2>2, TracesChange
  <2>4. c \notin reused /\ InTouch(c) => Traces(c) = 0
    BY <1>1 DEF SocketInv, Talking
  <2> QED BY <2>1, <2>3, <2>4
<1>13. Talking'
  BY <1>1, <1>2, <1>10, <1>11, <1>12 DEF SocketInv, Talking
<1> QED BY <1>6, <1>7, <1>8, <1>9, <1>13 DEF SocketInv

\* The answer is taken from the socket.
LEMMA RecvStep ==
    ASSUME SocketTypes, SocketInv, NEW c \in Clients, Recv(c)
    PROVE  SocketTypes' /\ SocketInv'
<1>1. /\ client[c].pc = "waiting" /\ outbox[c] # <<>>
      /\ client' = [client EXCEPT ![c].pc = "idle"]
      /\ outbox' = [outbox EXCEPT ![c] = Tail(@)]
      /\ UNCHANGED <<backlog, owner, inbox, sockfd, started, reused, thread>>
  BY DEF Recv, ClientGoes, accepted
<1>2. /\ client'[c].pc = "idle" /\ \A d \in Clients \ {c} : client'[d] = client[d]
      /\ client' \in [Clients -> [pc : {"off", "idle", "waiting", "done"}, n : Nat]]
  BY <1>1 DEF SocketTypes
<1>3. /\ outbox[c] \in Seq(Answers) /\ outbox'[c] = Tail(outbox[c])
      /\ \A d \in Clients \ {c} : outbox'[d] = outbox[d]
  BY <1>1 DEF SocketTypes
<1>4. /\ outbox'[c] \in Seq(Answers) /\ Len(outbox'[c]) = Len(outbox[c]) - 1
      /\ Len(outbox[c]) \in Nat
  <2>1. PICK old \in Seq(Answers) : old = outbox[c]
    BY <1>3
  <2>2. Tail(old) \in Seq(Answers) /\ Len(Tail(old)) = Len(old) - 1 /\ Len(old) \in Nat
    BY <1>1, <2>1, HeadTailProperties, LenProperties
  <2> QED BY <1>3, <2>1, <2>2
<1>5. SocketTypes'
  BY <1>1, <1>2, <1>4 DEF SocketTypes
<1>6. DescriptorsOK'
  BY <1>1 DEF SocketInv, DescriptorsOK
<1>7. ConnectionsOK'
  BY <1>1, <1>2 DEF SocketInv, ConnectionsOK, SocketTypes
<1>8. RequestsOK'
  BY <1>1, <1>2 DEF SocketInv, RequestsOK, Stmts
<1>9. \A d \in Clients : ServingFor(d)' = ServingFor(d) /\ (InTouch(d)' <=> InTouch(d))
  BY <1>1 DEF ServingFor, InTouch
<1>10. \A d \in Clients \ {c} : Traces(d)' = Traces(d) /\ (Silent(d)' <=> Silent(d))
  BY <1>1, <1>3, <1>9, TracesAre DEF Silent
<1>11. c \notin reused /\ InTouch(c) => Traces(c)' = 0
  <2>1. PICK i \in Int, o \in Int, s \in Int : i = 0 /\ o = -1 /\ s = 0
    OBVIOUS
  <2>2. /\ Len(inbox'[c]) = Len(inbox[c]) + i /\ Len(outbox'[c]) = Len(outbox[c]) + o
        /\ Cardinality(ServingFor(c)') = Cardinality(ServingFor(c)) + s
    BY <1>1, <1>4, <1>9, <2>1, ServingSet, LenProperties DEF SocketTypes
  <2>3. Traces(c)' = Traces(c) + i + o + s
    BY <2>2, TracesChange
  <2>4. c \notin reused /\ InTouch(c) => Traces(c) = 1
    BY <1>1 DEF SocketInv, Talking
  <2> QED BY <2>1, <2>3, <2>4
<1>12. Talking'
  BY <1>1, <1>2, <1>9, <1>10, <1>11 DEF SocketInv, Talking
<1> QED BY <1>5, <1>6, <1>7, <1>8, <1>12 DEF SocketInv

\* A client that is done expects nothing.
LEMMA DoneStep ==
    ASSUME SocketTypes, SocketInv, NEW c \in Clients, RecvEnd(c) \/ Leave(c)
    PROVE  SocketTypes' /\ SocketInv'
<1>1. /\ client[c].pc \in {"idle", "waiting"} /\ client' = [client EXCEPT ![c].pc = "done"]
      /\ UNCHANGED <<backlog, owner, inbox, outbox, sockfd, started, reused, thread>>
  BY DEF RecvEnd, Leave, ClientGoes, accepted, sockets
<1>2. /\ client'[c].pc = "done" /\ \A d \in Clients \ {c} : client'[d] = client[d]
      /\ client' \in [Clients -> [pc : {"off", "idle", "waiting", "done"}, n : Nat]]
  BY <1>1 DEF SocketTypes
<1>3. SocketTypes'
  BY <1>1, <1>2 DEF SocketTypes
<1>4. DescriptorsOK'
  BY <1>1 DEF SocketInv, DescriptorsOK
<1>5. ConnectionsOK'
  BY <1>1, <1>2 DEF SocketInv, ConnectionsOK, SocketTypes
<1>6. RequestsOK'
  BY <1>1, <1>2 DEF SocketInv, RequestsOK, Stmts
<1>7. \A d \in Clients : /\ ServingFor(d)' = ServingFor(d) /\ (InTouch(d)' <=> InTouch(d))
                         /\ Traces(d)' = Traces(d) /\ (Silent(d)' <=> Silent(d))
  BY <1>1 DEF ServingFor, InTouch, Traces, Silent
<1>8. Talking'
  BY <1>1, <1>2, <1>7 DEF SocketInv, Talking
<1> QED BY <1>3, <1>4, <1>5, <1>6, <1>8 DEF SocketInv

-----------------------------------------------------------------------------
(* accept() and the threads' system calls                                  *)

LEMMA LeastDescriptor ==
    ASSUME NEW S \in SUBSET Nat, S # {}
    PROVE  Min(S) \in S
<1> DEFINE R == OpToRel(<, Nat)
<1>1. IsWellFoundedOn(R, Nat)
  BY NatLessThanWellFounded
<1>2. \A a, b \in Nat : a < b => <<a, b>> \in R
  BY DEF OpToRel
<1> HIDE DEF R
<1>3. PICK m \in S : \A y \in S : <<y, m>> \notin R
  BY <1>1, WFMin
<1>4. ASSUME NEW y \in S PROVE m <= y
  <2>1. m \in Nat /\ y \in Nat
    BY <1>3
  <2>2. ~(y < m)
    BY <1>2, <1>3, <2>1
  <2> QED BY <2>1, <2>2
<1>5. \E x \in S : \A y \in S : x <= y
  BY <1>4
<1> QED BY <1>5 DEF Min

\* The first connection that waits is its client's only one.
LEMMA FirstWaiting ==
    ASSUME SocketTypes, ConnectionsOK, backlog # <<>>, NEW b, b = Tail(backlog)
    PROVE  /\ Head(backlog) \in Clients /\ b \in Seq(Clients)
           /\ Head(backlog) = backlog[1] /\ 1 \in DOMAIN backlog
           /\ \A i \in DOMAIN b : i + 1 \in DOMAIN backlog /\ b[i] = backlog[i + 1] /\ i \in Nat
                                  /\ b[i] # Head(backlog)
           /\ client[Head(backlog)].pc # "off" /\ \A f \in Fds : owner[f] # Head(backlog)
           /\ \A i, j \in DOMAIN b : b[i] = b[j] => i = j
<1>1. backlog \in Seq(Clients) /\ Len(backlog) \in Nat /\ DOMAIN backlog = 1 .. Len(backlog)
  BY DEF SocketTypes
<1>2. Len(backlog) # 0 /\ 1 \in DOMAIN backlog
  BY <1>1, EmptySeq
<1>3. Head(backlog) = backlog[1] /\ Head(backlog) \in Clients
  BY <1>1, <1>2
<1>4. b \in Seq(Clients) /\ Len(b) = Len(backlog) - 1 /\ \A i \in 1 .. Len(b) : b[i] = backlog[i + 1]
  BY <1>1, HeadTailProperties
<1>5. DOMAIN b = 1 .. Len(b)
  BY <1>4
<1>6. \A i \in DOMAIN b : i + 1 \in DOMAIN backlog /\ b[i] = backlog[i + 1] /\ i \in Nat /\ i + 1 # 1
  BY <1>1, <1>4, <1>5
<1>7. \A i \in DOMAIN b : b[i] # Head(backlog)
  BY <1>2, <1>3, <1>6 DEF ConnectionsOK
<1>8. \A i, j \in DOMAIN b : b[i] = b[j] => i = j
  <2> SUFFICES ASSUME NEW i \in DOMAIN b, NEW j \in DOMAIN b, b[i] = b[j]
               PROVE  i = j
    OBVIOUS
  <2>1. i + 1 = j + 1
    BY <1>6 DEF ConnectionsOK
  <2> QED BY <1>6, <2>1
<1>9. client[Head(backlog)].pc # "off" /\ \A f \in Fds : owner[f] # Head(backlog)
  BY <1>2, <1>3 DEF ConnectionsOK
<1> QED BY <1>2, <1>3, <1>4, <1>6, <1>7, <1>8, <1>9

\* There are as many descriptors as clients, so accept() finds a free one.
LEMMA FreeDescriptor ==
    ASSUME SocketTypes, ConnectionsOK, backlog # <<>>
    PROVE  LET free == {f \in Fds : owner[f] = None} IN Min(free) \in free
<1> DEFINE free == {f \in Fds : owner[f] = None}
<1>1. free # {}
  <2> SUFFICES ASSUME free = {} PROVE FALSE
    OBVIOUS
  <2>1. PICK c \in Clients : c = Head(backlog) /\ \A f \in Fds : owner[f] # c
    BY FirstWaiting
  <2>2. owner \in [Fds -> Clients \ {c}] /\ IsInjective(owner)
    BY <2>1 DEF SocketTypes, ConnectionsOK, IsInjective
  <2>3. owner \in Injection(Fds, Clients \ {c})
    BY <2>2 DEF Injection
  <2>4. IsFiniteSet(Clients \ {c}) /\ Cardinality(Clients \ {c}) = Cardinality(Clients) - 1
    BY <2>1, Numbers, FS_RemoveElement
  <2>5. Cardinality(Fds) <= Cardinality(Clients \ {c})
    BY <2>3, <2>4, FS_Injection
  <2> QED BY <2>4, <2>5, Numbers
<1>2. free \in SUBSET Nat
  BY Numbers
<1> HIDE DEF free
<1>3. Min(free) \in free
  BY <1>1, <1>2, LeastDescriptor
<1> QED BY <1>3 DEF free

\* accept(): the new thread has no statement, and whoever still works on one from
\* this descriptor works for a client that is gone.
LEMMA AcceptStep ==
    ASSUME SocketTypes, SocketInv, ScannerInv, Accept
    PROVE  SocketTypes' /\ SocketInv' /\ ScannerInv'
<1>1. PICK fd : fd = Min({f \in Fds : owner[f] = None})
  OBVIOUS
<1>2. PICK c : c = Head(backlog)
  OBVIOUS
<1>3. PICK n : n = started + 1
  OBVIOUS
<1>4. /\ backlog # <<>> /\ backlog' = Tail(backlog) /\ sockfd' = fd
      /\ owner' = [owner EXCEPT ![fd] = c] /\ started' = n
      /\ reused' = IF UsersOf(fd) = {} THEN reused ELSE reused \cup {c}
      /\ thread' = [thread EXCEPT ![n].pc = "start"]
      /\ UNCHANGED <<client, inbox, outbox, scanner>>
  BY <1>1, <1>2, <1>3 DEF Accept
<1>5. fd \in Fds /\ owner[fd] = None
  BY <1>1, <1>4, FreeDescriptor DEF SocketInv
<1>6. PICK b : b = Tail(backlog)
  OBVIOUS
<1>7. /\ c \in Clients /\ b \in Seq(Clients) /\ c = backlog[1] /\ 1 \in DOMAIN backlog
      /\ \A i \in DOMAIN b : /\ i + 1 \in DOMAIN backlog /\ b[i] = backlog[i + 1]
                             /\ b[i] # c
      /\ client[c].pc # "off" /\ \A f \in Fds : owner[f] # c
      /\ \A i, j \in DOMAIN b : b[i] = b[j] => i = j
  BY <1>2, <1>4, <1>6, FirstWaiting DEF SocketInv
<1>8. backlog' = b
  BY <1>4, <1>6
<1>9. owner'[fd] = c /\ (\A f \in Fds \ {fd} : owner'[f] = owner[f]) /\ owner' \in [Fds -> Clients \cup {None}]
  BY <1>4, <1>5, <1>7 DEF SocketTypes
<1>10. /\ thread \in [Threads -> ThreadRecs] /\ "start" \in Pcs /\ n \in Nat /\ started \in Nat
       /\ n \in Threads => thread[n].pc = "none"
  <2>1. started \in Nat /\ n \in Nat
    BY <1>3 DEF SocketInv, DescriptorsOK
  <2>2. n \in Threads => thread[n].pc = "none"
    BY <1>3, <2>1 DEF SocketInv, DescriptorsOK
  <2> QED BY <2>1, <2>2 DEF ScannerInv, ScannerTypes, Pcs, Serving
<1>11. /\ thread' \in [Threads -> ThreadRecs]
       /\ \A g \in Threads : /\ g # n => thread'[g] = thread[g]
                             /\ g = n => thread'[g].pc = "start" /\ thread[g].pc = "none"
  BY <1>4, <1>10 DEF ThreadRecs
<1>12. ScannerInv'
  <2>1. \A g \in Threads : \/ thread'[g] = thread[g]
                           \/ /\ thread[g].pc \notin {"parse", "exec", "delete"}
                              /\ thread'[g].pc \notin {"parse", "exec", "delete", "write"}
    BY <1>11
  <2> QED BY <1>4, <1>11, <2>1, ScannerFrame
<1>13. SocketTypes'
  BY <1>4, <1>5, <1>7, <1>8, <1>9 DEF SocketTypes
<1>14. DescriptorsOK'
  <2>1. \A g \in Threads : g <= started => g <= n
    BY <1>3, <1>10, Numbers
  <2>2. \A g \in Threads : thread'[g].pc # "none" => g <= n
    BY <1>10, <1>11, <2>1, Numbers DEF SocketInv, DescriptorsOK
  <2>3. \A g \in Threads : thread'[g].pc \in Serving \cup {"read"} => thread'[g].fd \in Fds
    BY <1>11 DEF SocketInv, DescriptorsOK, Serving
  <2> QED BY <1>4, <1>5, <1>10, <2>2, <2>3 DEF DescriptorsOK
<1>15. ConnectionsOK'
  <2>1. \A e, f \in Fds : owner'[e] = owner'[f] /\ owner'[e] # None => e = f
    BY <1>7, <1>9 DEF SocketInv, ConnectionsOK
  <2>2. \A i \in DOMAIN b : client[b[i]].pc # "off" /\ \A f \in Fds : owner'[f] # b[i]
    BY <1>7, <1>9 DEF SocketInv, ConnectionsOK
  <2>3. \A f \in Fds : owner'[f] # None => client[owner'[f]].pc # "off"
    BY <1>7, <1>9 DEF SocketInv, ConnectionsOK
  <2> QED BY <1>4, <1>7, <1>8, <2>1, <2>2, <2>3 DEF ConnectionsOK
<1>16. \A g \in Threads : thread'[g].pc \in Serving => thread'[g] = thread[g] /\ thread[g].pc \in Serving
  BY <1>11 DEF Serving
<1>17. RequestsOK'
  <2>1. ASSUME NEW g \in Threads, thread[g].pc \in Serving
        PROVE  /\ thread[g].req \in Stmts
               /\ owner'[thread[g].fd] = thread[g].req.by \/ client[thread[g].req.by].pc = "done"
               /\ owner'[thread[g].fd] \in Clients \ reused' => owner'[thread[g].fd] = thread[g].req.by
    <3>1. /\ thread[g].req \in Stmts /\ thread[g].fd \in Fds
          /\ owner[thread[g].fd] = thread[g].req.by \/ client[thread[g].req.by].pc = "done"
          /\ owner[thread[g].fd] \in Clients \ reused => owner[thread[g].fd] = thread[g].req.by
      BY <2>1 DEF SocketInv, RequestsOK, DescriptorsOK
    <3>2. CASE thread[g].fd = fd
      <4>1. client[thread[g].req.by].pc = "done"
        BY <1>5, <3>1, <3>2, Numbers DEF Stmts
      <4>2. g \in UsersOf(fd)
        BY <2>1, <3>2 DEF UsersOf, Serving
      <4>3. c \in reused'
        BY <1>4, <4>2
      <4> QED BY <1>9, <3>1, <3>2, <4>1, <4>3
    <3>3. CASE thread[g].fd # fd
      BY <1>4, <1>9, <3>1, <3>3
    <3> QED BY <3>2, <3>3
  <2> QED BY <1>4, <1>16, <2>1 DEF SocketInv, RequestsOK
<1>18. \A d \in Clients : ServingFor(d)' = ServingFor(d)
  <2>1. \A g \in Threads : thread[g].pc \in Serving => thread'[g] = thread[g]
    BY <1>11 DEF Serving
  <2> QED BY <1>16, <2>1 DEF ServingFor
<1>19. \A d \in Clients : Traces(d)' = Traces(d) /\ (Silent(d)' <=> Silent(d))
  BY <1>4, <1>18, TracesAre DEF Silent
<1>20. \A d \in Clients : InTouch(d)' => InTouch(d)
  BY <1>7, <1>8, <1>9 DEF InTouch
<1>21. Talking'
  BY <1>4, <1>19, <1>20 DEF SocketInv, Talking
<1> QED BY <1>12, <1>13, <1>14, <1>15, <1>17, <1>21 DEF SocketInv

\* The thread takes whatever descriptor sockfd is by now.
LEMMA StartThreadStep ==
    ASSUME SocketTypes, SocketInv, ScannerInv, NEW h \in Threads, StartThread(h)
    PROVE  SocketTypes' /\ SocketInv' /\ ScannerInv'
<1>1. /\ thread[h].pc = "start" /\ thread' = [thread EXCEPT ![h].fd = sockfd, ![h].pc = "read"]
      /\ UNCHANGED <<backlog, owner, inbox, outbox, client, sockfd, started, reused, scanner>>
  BY DEF StartThread, Running, accepted, sockets
<1>2. sockfd \in Fds /\ h <= started /\ thread \in [Threads -> ThreadRecs] /\ "read" \in Pcs
  BY <1>1 DEF SocketInv, DescriptorsOK, ScannerInv, ScannerTypes, Pcs
<1>3. /\ thread' \in [Threads -> ThreadRecs] /\ Others(thread, thread', h)
      /\ thread'[h].pc = "read" /\ thread'[h].fd = sockfd
  BY <1>1, <1>2 DEF ThreadRecs, Others
<1>4. ScannerInv'
  <2>1. \A g \in Threads : \/ thread'[g] = thread[g]
                           \/ /\ thread[g].pc \notin {"parse", "exec", "delete"}
                              /\ thread'[g].pc \notin {"parse", "exec", "delete", "write"}
    BY <1>1, <1>3 DEF Others
  <2> QED BY <1>1, <1>3, <2>1, ScannerFrame
<1>5. SocketTypes'
  BY <1>1 DEF SocketTypes
<1>6. DescriptorsOK'
  BY <1>1, <1>2, <1>3 DEF SocketInv, DescriptorsOK, Others
<1>7. ConnectionsOK'
  BY <1>1 DEF SocketInv, ConnectionsOK
<1>8. \A g \in Threads : \/ thread'[g] = thread[g]
                         \/ thread'[g].pc \notin Serving /\ thread[g].pc \notin Serving
  BY <1>1, <1>3 DEF Others, Serving
<1>9. RequestsOK'
  BY <1>1, <1>8 DEF SocketInv, RequestsOK
<1>10. \A d \in Clients : ServingFor(d)' = ServingFor(d)
  BY <1>8 DEF ServingFor
<1>11. \A d \in Clients : Traces(d)' = Traces(d) /\ (Silent(d)' <=> Silent(d)) /\ (InTouch(d)' <=> InTouch(d))
  BY <1>1, <1>10, TracesAre DEF Silent, InTouch
<1>12. Talking'
  BY <1>1, <1>11 DEF SocketInv, Talking
<1> QED BY <1>4, <1>5, <1>6, <1>7, <1>9, <1>12 DEF SocketInv

\* read(): the statement goes from the socket to the thread.
LEMMA ReadStep ==
    ASSUME SocketTypes, SocketInv, ScannerInv, NEW h \in Threads, Read(h)
    PROVE  SocketTypes' /\ SocketInv' /\ ScannerInv'
<1>1. PICK c : c = owner[thread[h].fd]
  OBVIOUS
<1>2. PICK stmt : stmt = Head(inbox[c])
  OBVIOUS
<1>3. /\ thread[h].pc = "read" /\ c # None /\ inbox[c] # <<>>
      /\ thread' = [thread EXCEPT ![h].req = stmt, ![h].pc = "scan"]
      /\ inbox' = [inbox EXCEPT ![c] = Tail(@)]
      /\ UNCHANGED <<backlog, owner, outbox, client, sockfd, started, reused, scanner>>
  BY <1>1, <1>2 DEF Read, Running, accepted
<1>4. /\ thread[h].fd \in Fds /\ c \in Clients /\ client[c].pc # "off"
      /\ thread \in [Threads -> ThreadRecs] /\ "scan" \in Pcs
  <2>1. thread[h].fd \in Fds
    BY <1>3 DEF SocketInv, DescriptorsOK
  <2> QED BY <1>1, <1>3, <2>1 DEF SocketInv, ConnectionsOK, SocketTypes, ScannerInv, ScannerTypes, Pcs, Serving
<1>5. /\ inbox[c] \in Seq(Stmts) /\ inbox'[c] = Tail(inbox[c])
      /\ \A d \in Clients \ {c} : inbox'[d] = inbox[d]
      /\ \A i \in DOMAIN inbox[c] : inbox[c][i].by = c
  BY <1>3, <1>4 DEF SocketTypes, SocketInv, RequestsOK
<1>6. PICK old \in Seq(Stmts) : old = inbox[c]
  BY <1>5
<1>7. /\ Len(old) \in Nat /\ DOMAIN old = 1 .. Len(old) /\ Len(old) # 0 /\ Tail(old) \in Seq(Stmts)
      /\ Len(Tail(old)) = Len(old) - 1 /\ DOMAIN Tail(old) = 1 .. Len(Tail(old))
      /\ \A i \in 1 .. Len(Tail(old)) : Tail(old)[i] = old[i + 1]
      /\ Head(old) = old[1] /\ Head(old) \in Stmts
  BY <1>3, <1>6, HeadTailProperties, EmptySeq
<1>8. stmt \in Stmts /\ stmt \in Trees /\ stmt.by = c
  BY <1>2, <1>5, <1>6, <1>7 DEF Trees
<1>9. /\ inbox'[c] \in Seq(Stmts) /\ Len(inbox'[c]) = Len(inbox[c]) - 1 /\ Len(inbox[c]) \in Nat
      /\ \A i \in DOMAIN inbox'[c] : inbox'[c][i].by = c
  <2>1. \A i \in DOMAIN Tail(old) : Tail(old)[i] = old[i + 1] /\ i + 1 \in DOMAIN old
    BY <1>7
  <2> QED BY <1>5, <1>6, <1>7, <2>1
<1>10. /\ thread' \in [Threads -> ThreadRecs] /\ Others(thread, thread', h)
       /\ thread'[h].pc = "scan" /\ thread'[h].fd = thread[h].fd /\ thread'[h].req = stmt
  BY <1>3, <1>4, <1>8 DEF ThreadRecs, Others
<1>11. ScannerInv'
  <2>1. \A g \in Threads : \/ thread'[g] = thread[g]
                           \/ /\ thread[g].pc \notin {"parse", "exec", "delete"}
                              /\ thread'[g].pc \notin {"parse", "exec", "delete", "write"}
    BY <1>3, <1>10 DEF Others
  <2> QED BY <1>3, <1>10, <2>1, ScannerFrame
<1>12. SocketTypes'
  BY <1>3, <1>4, <1>9 DEF SocketTypes
<1>13. DescriptorsOK'
  BY <1>3, <1>4, <1>10 DEF SocketInv, DescriptorsOK, Others
<1>14. ConnectionsOK'
  BY <1>3 DEF SocketInv, ConnectionsOK
<1>15. RequestsOK'
  <2>1. ASSUME NEW g \in Threads, thread'[g].pc \in Serving
        PROVE  /\ thread'[g].req \in Stmts
               /\ owner[thread'[g].fd] = thread'[g].req.by \/ client[thread'[g].req.by].pc = "done"
               /\ owner[thread'[g].fd] \in Clients \ reused => owner[thread'[g].fd] = thread'[g].req.by
    <3>1. CASE g = h
      BY <1>1, <1>8, <1>10, <3>1
    <3>2. CASE g # h
      BY <1>10, <2>1, <3>2 DEF SocketInv, RequestsOK, Others
    <3> QED BY <3>1, <3>2
  <2>2. \A d \in Clients : \A i \in DOMAIN inbox'[d] : inbox'[d][i].by = d
    BY <1>5, <1>9 DEF SocketInv, RequestsOK
  <2> QED BY <1>3, <2>1, <2>2 DEF RequestsOK
<1>16. /\ h \notin ServingFor(c) /\ ServingFor(c)' = ServingFor(c) \cup {h}
       /\ \A d \in Clients \ {c} : ServingFor(d)' = ServingFor(d)
  <2>1. \A g \in Threads \ {h} : thread'[g] = thread[g]
    BY <1>10 DEF Others
  <2>2. thread[h].pc \notin Serving /\ thread'[h].pc \in Serving /\ thread'[h].req.by = c
    BY <1>3, <1>8, <1>10 DEF Serving
  <2> QED BY <2>1, <2>2 DEF ServingFor
<1>17. \A d \in Clients \ {c} : Traces(d)' = Traces(d) /\ (Silent(d)' <=> Silent(d))
  <2> SUFFICES ASSUME NEW d \in Clients \ {c}
               PROVE  Traces(d)' = Traces(d) /\ (Silent(d)' <=> Silent(d))
    OBVIOUS
  <2>1. inbox'[d] = inbox[d] /\ outbox'[d] = outbox[d] /\ ServingFor(d)' = ServingFor(d)
    BY <1>3, <1>5, <1>16
  <2> QED BY <2>1, Untouched
<1>18. \A d \in Clients : InTouch(d)' <=> InTouch(d)
  BY <1>3 DEF InTouch
<1>19. Traces(c) \in Nat => Traces(c)' = Traces(c)
  <2>1. PICK i \in Int, o \in Int, s \in Int : i = -1 /\ o = 0 /\ s = 1
    OBVIOUS
  <2>2. Cardinality(ServingFor(c)') = Cardinality(ServingFor(c)) + s
    <3>1. PICK some : some = ServingFor(c)
      OBVIOUS
    <3>2. Cardinality(some \cup {h}) = Cardinality(some) + 1
      BY <1>16, <3>1, ServingSet, FS_AddElement
    <3> QED BY <1>16, <2>1, <3>1, <3>2
  <2>3. Len(inbox'[c]) = Len(inbox[c]) + i
    BY <1>9, <2>1
  <2>4. Len(outbox'[c]) = Len(outbox[c]) + o
    BY <1>3, <1>4, <2>1, LenProperties DEF SocketTypes
  <2>5. Traces(c)' = Traces(c) + i + o + s
    BY <1>4, <2>2, <2>3, <2>4, TracesChange
  <2> QED BY <2>1, <2>5
<1>20. Talking'
  <2>1. c \notin reused /\ InTouch(c) =>
           /\ client[c].pc = "waiting" => Traces(c)' = 1
           /\ client[c].pc = "idle" => Traces(c)' = 0
    BY <1>4, <1>19 DEF SocketInv, Talking
  <2> QED BY <1>3, <1>4, <1>17, <1>18, <2>1 DEF SocketInv, Talking
<1> QED BY <1>11, <1>12, <1>13, <1>14, <1>15, <1>20 DEF SocketInv

\* The connection's client is done: nobody minds that it is closed.
LEMMA ReadEndsStep ==
    ASSUME SocketTypes, SocketInv, ScannerInv, NEW h \in Threads, ReadEnds(h)
    PROVE  SocketTypes' /\ SocketInv' /\ ScannerInv'
<1>1. PICK fd : fd = thread[h].fd
  OBVIOUS
<1>2. PICK over : over = [NewThread EXCEPT !.pc = "ended"]
  OBVIOUS
<1>3. /\ thread[h].pc = "read" /\ owner' = [owner EXCEPT ![fd] = None]
      /\ owner[fd] # None => client[owner[fd]].pc = "done"
      /\ thread' = [thread EXCEPT ![h] = over]
      /\ UNCHANGED <<backlog, inbox, outbox, client, sockfd, started, reused, scanner>>
  BY <1>1, <1>2 DEF ReadEnds, Closed, Running, accepted
<1>4. fd \in Fds /\ thread \in [Threads -> ThreadRecs]
  BY <1>1, <1>3 DEF SocketInv, DescriptorsOK, ScannerInv, ScannerTypes
<1>5. over \in ThreadRecs /\ over.pc = "ended"
  <2>1. "ended" \in Pcs /\ 0 \in Fds \cup {0}
    BY DEF Pcs
  <2> QED BY <1>2, <2>1, NewThreadType
<1>6. /\ thread' \in [Threads -> ThreadRecs] /\ \A g \in Threads \ {h} : thread'[g] = thread[g]
      /\ thread'[h].pc = "ended"
  BY <1>3, <1>4, <1>5
<1>7. ScannerInv'
  <2>1. \A g \in Threads : \/ thread'[g] = thread[g]
                           \/ /\ thread[g].pc \notin {"parse", "exec", "delete"}
                              /\ thread'[g].pc \notin {"parse", "exec", "delete", "write"}
    BY <1>3, <1>6
  <2> QED BY <1>3, <1>6, <2>1, ScannerFrame
<1>8. /\ owner' \in [Fds -> Clients \cup {None}] /\ owner'[fd] = None
      /\ \A f \in Fds \ {fd} : owner'[f] = owner[f]
  BY <1>3, <1>4 DEF SocketTypes
<1>9. SocketTypes'
  BY <1>3, <1>8 DEF SocketTypes
<1>10. DescriptorsOK'
  BY <1>3, <1>6 DEF SocketInv, DescriptorsOK, Serving
<1>11. ConnectionsOK'
  <2>1. \A e, f \in Fds : owner'[e] = owner'[f] /\ owner'[e] # None => e = f
    BY <1>8 DEF SocketInv, ConnectionsOK
  <2>2. \A i \in DOMAIN backlog : client[backlog[i]].pc # "off" /\ \A f \in Fds : owner'[f] # backlog[i]
    <3>1. \A i \in DOMAIN backlog : backlog[i] # None
      BY Numbers DEF SocketTypes
    <3> QED BY <1>8, <3>1 DEF SocketInv, ConnectionsOK
  <2>3. \A f \in Fds : owner'[f] # None => client[owner'[f]].pc # "off"
    BY <1>8 DEF SocketInv, ConnectionsOK
  <2> QED BY <1>3, <2>1, <2>2, <2>3 DEF SocketInv, ConnectionsOK
<1>12. \A g \in Threads : \/ thread'[g] = thread[g]
                          \/ thread'[g].pc \notin Serving /\ thread[g].pc \notin Serving
  BY <1>3, <1>6 DEF Serving
<1>13. RequestsOK'
  <2>1. ASSUME NEW g \in Threads, thread[g].pc \in Serving
        PROVE  /\ thread[g].req \in Stmts
               /\ owner'[thread[g].fd] = thread[g].req.by \/ client[thread[g].req.by].pc = "done"
               /\ owner'[thread[g].fd] \in Clients \ reused => owner'[thread[g].fd] = thread[g].req.by
    <3>1. /\ thread[g].req \in Stmts /\ thread[g].fd \in Fds
          /\ owner[thread[g].fd] = thread[g].req.by \/ client[thread[g].req.by].pc = "done"
          /\ owner[thread[g].fd] \in Clients \ reused => owner[thread[g].fd] = thread[g].req.by
      BY <2>1 DEF SocketInv, RequestsOK, DescriptorsOK
    <3>2. CASE thread[g].fd = fd
      <4>1. client[thread[g].req.by].pc = "done"
        BY <1>3, <3>1, <3>2, Numbers DEF Stmts
      <4> QED BY <1>8, <3>1, <3>2, <4>1, Numbers
    <3>3. CASE thread[g].fd # fd
      BY <1>8, <3>1, <3>3
    <3> QED BY <3>2, <3>3
  <2> QED BY <1>3, <1>12, <2>1 DEF SocketInv, RequestsOK
<1>14. \A d \in Clients : ServingFor(d)' = ServingFor(d)
  BY <1>12 DEF ServingFor
<1>15. \A d \in Clients : Traces(d)' = Traces(d) /\ (Silent(d)' <=> Silent(d))
  BY <1>3, <1>14, Untouched
<1>16. \A d \in Clients : InTouch(d)' => InTouch(d)
  BY <1>3, <1>8, Numbers DEF InTouch
<1>17. Talking'
  BY <1>3, <1>15, <1>16 DEF SocketInv, Talking
<1> QED BY <1>7, <1>9, <1>10, <1>11, <1>13, <1>17 DEF SocketInv

\* The thread that has answered, or could not, has no statement any more.
LEMMA AnsweredThread ==
    ASSUME SocketInv, ScannerInv, UNCHANGED scanner, NEW h \in Threads, thread[h].pc = "write",
           NEW r \in ThreadRecs, r.pc \in {"read", "ended"}, r.pc = "read" => r.fd = thread[h].fd,
           thread' = [thread EXCEPT ![h] = r]
    PROVE  /\ ScannerInv'
           /\ thread' \in [Threads -> ThreadRecs] /\ thread'[h] = r
           /\ \A g \in Threads \ {h} : thread'[g] = thread[g]
           /\ r.pc \notin Serving /\ thread[h].pc \in Serving
           /\ thread[h].req.by \in Clients /\ thread[h].fd \in Fds
           /\ h \in ServingFor(thread[h].req.by)
           /\ \A d \in Clients : ServingFor(d)' = ServingFor(d) \ {h}
           /\ \A d \in Clients : d # thread[h].req.by => ServingFor(d)' = ServingFor(d)
           /\ UNCHANGED <<sockfd, started>> => DescriptorsOK'
<1>1. thread \in [Threads -> ThreadRecs]
  BY DEF ScannerInv, ScannerTypes
<1>2. /\ thread' \in [Threads -> ThreadRecs] /\ thread'[h] = r
      /\ \A g \in Threads \ {h} : thread'[g] = thread[g]
  BY <1>1
<1>3. r.pc \notin Serving /\ thread[h].pc \in Serving
  BY DEF Serving
<1>4. thread[h].req.by \in Clients /\ thread[h].fd \in Fds
  BY <1>3 DEF SocketInv, RequestsOK, DescriptorsOK, Stmts
<1>5. \A d \in Clients : ServingFor(d)' = ServingFor(d) \ {h}
  BY <1>2, <1>3 DEF ServingFor
<1>6. h \in ServingFor(thread[h].req.by)
  BY <1>3 DEF ServingFor
<1>7. \A d \in Clients : d # thread[h].req.by => ServingFor(d)' = ServingFor(d)
  BY <1>5 DEF ServingFor
<1>8. ScannerInv'
  <2>1. \A g \in Threads : \/ thread'[g] = thread[g]
                           \/ /\ thread[g].pc \notin {"parse", "exec", "delete"}
                              /\ thread'[g].pc \notin {"parse", "exec", "delete", "write"}
    BY <1>2
  <2> QED BY <1>2, <2>1, ScannerFrame
<1>9. UNCHANGED <<sockfd, started>> => DescriptorsOK'
  BY <1>2, <1>3, <1>4 DEF SocketInv, DescriptorsOK
<1> QED BY <1>2, <1>3, <1>4, <1>5, <1>6, <1>7, <1>8, <1>9

\* Nobody is there to read the answer.
LEMMA WriteFailsStep ==
    ASSUME SocketTypes, SocketInv, ScannerInv, NEW h \in Threads, WriteFails(h)
    PROVE  SocketTypes' /\ SocketInv' /\ ScannerInv'
<1>1. PICK r : r = [NewThread EXCEPT !.pc = "ended"]
  OBVIOUS
<1>2. /\ thread[h].pc = "write" /\ owner[thread[h].fd] = None
      /\ thread' = [thread EXCEPT ![h] = r]
      /\ UNCHANGED <<backlog, owner, inbox, outbox, client, sockfd, started, reused, scanner>>
  BY <1>1 DEF WriteFails, Running, accepted, sockets
<1>3. r \in ThreadRecs /\ r.pc = "ended"
  <2>1. "ended" \in Pcs /\ 0 \in Fds \cup {0}
    BY DEF Pcs
  <2> QED BY <1>1, <2>1, NewThreadType
<1>4. /\ ScannerInv' /\ DescriptorsOK' /\ thread'[h] = r
      /\ \A g \in Threads \ {h} : thread'[g] = thread[g]
      /\ r.pc \notin Serving /\ thread[h].pc \in Serving
      /\ thread[h].req.by \in Clients
      /\ \A d \in Clients : d # thread[h].req.by => ServingFor(d)' = ServingFor(d)
      /\ h \in ServingFor(thread[h].req.by)
  BY <1>2, <1>3, AnsweredThread
<1>5. client[thread[h].req.by].pc = "done"
  BY <1>2, <1>4, Numbers DEF SocketInv, RequestsOK
<1>6. SocketTypes'
  BY <1>2 DEF SocketTypes
<1>7. ConnectionsOK'
  BY <1>2 DEF SocketInv, ConnectionsOK
<1>8. RequestsOK'
  BY <1>2, <1>4 DEF SocketInv, RequestsOK
<1>9. \A d \in Clients : d # thread[h].req.by => Traces(d)' = Traces(d) /\ (Silent(d)' <=> Silent(d))
  BY <1>2, <1>4, Untouched
<1>10. \A d \in Clients : InTouch(d)' <=> InTouch(d)
  BY <1>2 DEF InTouch
<1>11. Talking'
  BY <1>2, <1>5, <1>9, <1>10 DEF SocketInv, Talking
<1> QED BY <1>4, <1>6, <1>7, <1>8, <1>11 DEF SocketInv

\* The answer goes to whoever has the descriptor now: to the client that waits
\* for it, unless the descriptor was given away in between.
LEMMA WriteStep ==
    ASSUME SocketTypes, SocketInv, ScannerInv, NEW h \in Threads, Write(h)
    PROVE  SocketTypes' /\ SocketInv' /\ ScannerInv'
<1>1. PICK r : r = [NewThread EXCEPT !.pc = "read", !.fd = thread[h].fd]
  OBVIOUS
<1>2. PICK c : c = owner[thread[h].fd]
  OBVIOUS
<1>3. PICK a : a = Answer(h)
  OBVIOUS
<1>4. /\ thread[h].pc = "write" /\ c # None /\ thread' = [thread EXCEPT ![h] = r]
      /\ outbox' = [outbox EXCEPT ![c] = IF client[c].pc = "done" THEN @ ELSE Append(@, a)]
      /\ UNCHANGED <<backlog, owner, inbox, client, sockfd, started, reused, scanner>>
  BY <1>1, <1>2, <1>3 DEF Write, Running, accepted
<1>5. /\ thread[h].fd \in Fds \cup {0} /\ thread[h].req \in Trees /\ thread[h].result \in Trees
      /\ thread[h].alone \in BOOLEAN /\ thread[h].ready \in BOOLEAN /\ thread[h].threw \in BOOLEAN
  BY ThreadFacts DEF ScannerInv
<1>6. r \in ThreadRecs /\ r.pc = "read" /\ r.fd = thread[h].fd
  <2>1. "read" \in Pcs
    BY DEF Pcs
  <2> QED BY <1>1, <1>5, <2>1, NewThreadType
<1>7. a \in Answers
  BY <1>3, <1>5 DEF Answer, Answers
<1>8. PICK by : by = thread[h].req.by
  OBVIOUS
<1>9. /\ ScannerInv' /\ DescriptorsOK' /\ thread'[h] = r
      /\ \A g \in Threads \ {h} : thread'[g] = thread[g]
      /\ r.pc \notin Serving /\ thread[h].pc \in Serving
      /\ by \in Clients /\ thread[h].fd \in Fds /\ h \in ServingFor(by)
      /\ \A d \in Clients : ServingFor(d)' = ServingFor(d) \ {h}
      /\ \A d \in Clients : d # by => ServingFor(d)' = ServingFor(d)
  BY <1>4, <1>6, <1>8, AnsweredThread
<1>10. c \in Clients /\ client[c].pc # "off" /\ (c # by => client[by].pc = "done" /\ c \in reused)
  BY <1>2, <1>4, <1>8, <1>9 DEF SocketInv, RequestsOK, ConnectionsOK, SocketTypes
<1>11. /\ outbox[c] \in Seq(Answers) /\ \A d \in Clients \ {c} : outbox'[d] = outbox[d]
       /\ outbox'[c] = IF client[c].pc = "done" THEN outbox[c] ELSE Append(outbox[c], a)
  BY <1>4, <1>10 DEF SocketTypes
<1>12. /\ outbox'[c] \in Seq(Answers) /\ Len(outbox[c]) \in Nat
       /\ client[c].pc # "done" => Len(outbox'[c]) = Len(outbox[c]) + 1
  BY <1>7, <1>11, AppendProperties, LenProperties
<1>13. SocketTypes'
  BY <1>4, <1>10, <1>12 DEF SocketTypes
<1>14. ConnectionsOK'
  BY <1>4 DEF SocketInv, ConnectionsOK
<1>15. RequestsOK'
  BY <1>4, <1>9 DEF SocketInv, RequestsOK
<1>16. \A d \in Clients : d # by /\ d # c => Traces(d)' = Traces(d) /\ (Silent(d)' <=> Silent(d))
  BY <1>4, <1>9, <1>11, Untouched
<1>17. \A d \in Clients : InTouch(d)' <=> InTouch(d)
  BY <1>4 DEF InTouch
<1>18. c = by /\ client[c].pc # "done" /\ Traces(c) \in Nat => Traces(c)' = Traces(c)
  <2> SUFFICES ASSUME c = by, client[c].pc # "done", Traces(c) \in Nat
               PROVE  Traces(c)' = Traces(c)
    OBVIOUS
  <2>1. PICK i \in Int, o \in Int, s \in Int : i = 0 /\ o = 1 /\ s = -1
    OBVIOUS
  <2>2. Cardinality(ServingFor(c)') = Cardinality(ServingFor(c)) + s
    <3>1. PICK some : some = ServingFor(c)
      OBVIOUS
    <3>2. h \in some /\ IsFiniteSet(some) /\ Cardinality(some) \in Nat /\ ServingFor(c)' = some \ {h}
      BY <1>9, <3>1, ServingSet
    <3>3. Cardinality(some \ {h}) = Cardinality(some) - 1
      BY <3>2, FS_RemoveElement
    <3> QED BY <2>1, <3>1, <3>2, <3>3
  <2>3. Len(outbox'[c]) = Len(outbox[c]) + o
    BY <1>12, <2>1
  <2>4. Len(inbox'[c]) = Len(inbox[c]) + i
    BY <1>4, <1>10, <2>1, LenProperties DEF SocketTypes
  <2>5. Traces(c)' = Traces(c) + i + o + s
    BY <1>10, <2>2, <2>3, <2>4, TracesChange
  <2> QED BY <2>1, <2>5
<1>19. Talking'
  <2>1. \A d \in Clients : client[d].pc = "off" => d # c /\ d # by
    BY <1>9, <1>10 DEF SocketInv, Talking, Silent
  <2>2. \A d \in Clients : client[d].pc = "off" => Silent(d)'
    BY <1>16, <2>1 DEF SocketInv, Talking
  <2>3. ASSUME NEW d \in Clients \ reused, InTouch(d)
        PROVE  /\ client[d].pc = "waiting" => Traces(d)' = 1
               /\ client[d].pc = "idle" => Traces(d)' = 0
    <3>1. /\ client[d].pc = "waiting" => Traces(d) = 1
          /\ client[d].pc = "idle" => Traces(d) = 0
      BY <2>3 DEF SocketInv, Talking
    <3>2. CASE d = c
      <4>1. c = by
        BY <1>10, <3>2
      <4> QED BY <1>18, <3>1, <3>2, <4>1
    <3>3. CASE d # c /\ d = by
      BY <1>10, <3>3
    <3>4. CASE d # c /\ d # by
      BY <1>16, <3>1, <3>4
    <3> QED BY <3>2, <3>3, <3>4
  <2> QED BY <1>4, <1>17, <2>2, <2>3 DEF Talking
<1> QED BY <1>9, <1>13, <1>14, <1>15, <1>19 DEF SocketInv

-----------------------------------------------------------------------------
(* The answers                                                             *)

OwnAnswer(a, c, given) ==
    /\ a.alone => a.result = IF Executable(a) THEN a.to ELSE NoTree
    /\ c \notin given => a.to.by = c

LEMMA AnswersFrame ==
    ASSUME AnswersAreOwn, UNCHANGED outbox, reused \subseteq reused'
    PROVE  AnswersAreOwn'
BY DEF AnswersAreOwn, Executable

LEMMA AnswersRecv ==
    ASSUME SocketTypes, AnswersAreOwn, NEW c \in Clients, Recv(c)
    PROVE  AnswersAreOwn'
<1>1. outbox[c] # <<>> /\ outbox' = [outbox EXCEPT ![c] = Tail(@)] /\ UNCHANGED reused
  BY DEF Recv, accepted
<1>2. PICK old \in Seq(Answers) : old = outbox[c]
  BY DEF SocketTypes
<1>3. /\ outbox'[c] = Tail(old) /\ \A d \in Clients \ {c} : outbox'[d] = outbox[d]
  BY <1>1, <1>2 DEF SocketTypes
<1>4. \A i \in DOMAIN Tail(old) : i + 1 \in DOMAIN old /\ Tail(old)[i] = old[i + 1]
  <2>1. /\ Tail(old) \in Seq(Answers) /\ Len(Tail(old)) = Len(old) - 1 /\ Len(old) \in Nat
        /\ \A i \in 1 .. Len(Tail(old)) : Tail(old)[i] = old[i + 1]
    BY <1>1, <1>2, HeadTailProperties, LenProperties
  <2>2. DOMAIN old = 1 .. Len(old) /\ DOMAIN Tail(old) = 1 .. Len(Tail(old))
    BY <2>1
  <2> QED BY <2>1, <2>2
<1>5. \A d \in Clients : \A i \in DOMAIN outbox[d] : OwnAnswer(outbox[d][i], d, reused)
  BY DEF AnswersAreOwn, OwnAnswer
<1>6. \A d \in Clients : \A i \in DOMAIN outbox'[d] : OwnAnswer(outbox'[d][i], d, reused)
  <2> SUFFICES ASSUME NEW d \in Clients, NEW i \in DOMAIN outbox'[d]
               PROVE  OwnAnswer(outbox'[d][i], d, reused)
    OBVIOUS
  <2>1. CASE d # c
    BY <1>3, <1>5, <2>1
  <2>2. CASE d = c
    BY <1>2, <1>3, <1>4, <1>5, <2>2
  <2> QED BY <2>1, <2>2
<1> QED BY <1>1, <1>6 DEF AnswersAreOwn, OwnAnswer, Executable

LEMMA AnswersWrite ==
    ASSUME SocketTypes, SocketInv, ScannerInv, AnswersAreOwn, NEW h \in Threads, Write(h)
    PROVE  AnswersAreOwn'
<1>1. PICK c : c = owner[thread[h].fd]
  OBVIOUS
<1>2. PICK a : a = Answer(h)
  OBVIOUS
<1>3. /\ thread[h].pc = "write" /\ c # None /\ UNCHANGED reused
      /\ outbox' = [outbox EXCEPT ![c] = IF client[c].pc = "done" THEN @ ELSE Append(@, a)]
  BY <1>1, <1>2 DEF Write, Running, accepted
<1>4. /\ thread[h].req \in Trees /\ thread[h].result \in Trees
      /\ thread[h].alone \in BOOLEAN /\ thread[h].ready \in BOOLEAN /\ thread[h].threw \in BOOLEAN
  BY ThreadFacts DEF ScannerInv
<1>5. c \in Clients /\ (c \notin reused => thread[h].req.by = c)
  <2>1. thread[h].pc \in Serving
    BY <1>3 DEF Serving
  <2>2. thread[h].fd \in Fds
    BY <2>1 DEF SocketInv, DescriptorsOK
  <2> QED BY <1>1, <1>3, <2>1, <2>2 DEF SocketInv, RequestsOK, SocketTypes
<1>6. /\ a \in Answers /\ a.to = thread[h].req /\ a.result = thread[h].result
      /\ (a.alone <=> thread[h].alone) /\ (a.ready <=> thread[h].ready) /\ (a.threw <=> thread[h].threw)
  BY <1>2, <1>4 DEF Answer, Answers
<1>7. Executable(a) <=> GoodKind(thread[h]) /\ ~thread[h].threw
  BY <1>6 DEF Executable, GoodKind
<1>8. thread[h].alone =>
        thread[h].result = IF GoodKind(thread[h]) /\ ~thread[h].threw THEN thread[h].req ELSE NoTree
  BY <1>3 DEF ScannerInv, ResultsOK
<1>9. OwnAnswer(a, c, reused)
  BY <1>5, <1>6, <1>7, <1>8 DEF OwnAnswer
<1>10. PICK old \in Seq(Answers) : old = outbox[c]
  BY <1>5 DEF SocketTypes
<1>11. /\ outbox'[c] = IF client[c].pc = "done" THEN old ELSE Append(old, a)
       /\ \A d \in Clients \ {c} : outbox'[d] = outbox[d]
  BY <1>3, <1>5, <1>10 DEF SocketTypes
<1>12. \A i \in DOMAIN Append(old, a) : \/ i \in DOMAIN old /\ Append(old, a)[i] = old[i]
                                        \/ Append(old, a)[i] = a
  BY <1>6, <1>10, AppendProperties
<1>13. \A d \in Clients : \A i \in DOMAIN outbox[d] : OwnAnswer(outbox[d][i], d, reused)
  BY DEF AnswersAreOwn, OwnAnswer
<1>14. \A d \in Clients : \A i \in DOMAIN outbox'[d] : OwnAnswer(outbox'[d][i], d, reused)
  <2> SUFFICES ASSUME NEW d \in Clients, NEW i \in DOMAIN outbox'[d]
               PROVE  OwnAnswer(outbox'[d][i], d, reused)
    OBVIOUS
  <2>1. CASE d # c
    BY <1>11, <1>13, <2>1
  <2>2. CASE d = c /\ client[c].pc = "done"
    BY <1>10, <1>11, <1>13, <2>2
  <2>3. CASE d = c /\ client[c].pc # "done"
    BY <1>9, <1>10, <1>11, <1>12, <1>13, <2>3
  <2> QED BY <2>1, <2>2, <2>3
<1> QED BY <1>3, <1>14 DEF AnswersAreOwn, OwnAnswer, Executable

-----------------------------------------------------------------------------
(* Theorems                                                                *)

LEMMA InitServer == ASSUME Init PROVE ServerInv
<1>1. NewThread \in ThreadRecs /\ NewThread.pc = "none"
  <2>1. "none" \in Pcs
    BY DEF Pcs
  <2> QED BY <2>1 DEF NewThread, ThreadRecs, Trees, Prefixes
<1>2. thread \in [Threads -> ThreadRecs] /\ \A h \in Threads : thread[h].pc = "none"
  BY <1>1 DEF Init
<1>3. SocketTypes
  BY DEF Init, SocketTypes
<1>4. ScannerInv
  <2>1. Parsing = {}
    BY <1>2 DEF Parsing
  <2> QED BY <1>2, <2>1 DEF Init, ScannerInv, ScannerTypes, CurrentBufferIsAlive, AloneOK, ResultsOK, Trees
<1>5. \A h \in Threads : thread[h].pc \notin Serving
  BY <1>2 DEF Serving
<1>6. DescriptorsOK
  BY <1>2, <1>5 DEF Init, DescriptorsOK
<1>7. ConnectionsOK
  BY DEF Init, ConnectionsOK
<1>8. RequestsOK
  BY <1>5 DEF Init, RequestsOK
<1>9. \A c \in Clients : ServingFor(c) = {}
  BY <1>5 DEF ServingFor
<1>10. \A c \in Clients : client[c].pc = "off"
  BY DEF Init
<1>11. Talking
  BY <1>9, <1>10 DEF Init, Talking, Silent
<1>12. AnswersAreOwn
  BY DEF Init, AnswersAreOwn
<1> QED BY <1>3, <1>4, <1>6, <1>7, <1>8, <1>11, <1>12 DEF ServerInv, SocketInv

\* A step of a thread between two system calls.
LEMMA ScannerStepFrame ==
    ASSUME ServerInv, ScannerInv', UNCHANGED <<sockets, client, accepted>>, NEW h \in Threads,
           thread[h].pc \in Serving, thread'[h].pc \in Serving,
           \A g \in Threads : thread'[g].fd = thread[g].fd /\ thread'[g].req = thread[g].req,
           \A g \in Threads \ {h} : thread'[g].pc = thread[g].pc
    PROVE  ServerInv'
<1>1. \A g \in Threads : /\ thread'[g].fd = thread[g].fd /\ thread'[g].req = thread[g].req
                         /\ thread'[g].pc \in Serving <=> thread[g].pc \in Serving
                         /\ thread'[g].pc = "read" <=> thread[g].pc = "read"
                         /\ thread'[g].pc = "none" <=> thread[g].pc = "none"
  BY DEF Serving
<1>2. SocketTypes' /\ SocketInv'
  BY <1>1, SocketFrame DEF ServerInv
<1>3. AnswersAreOwn'
  BY AnswersFrame DEF ServerInv, sockets, accepted
<1> QED BY <1>2, <1>3 DEF ServerInv

LEMMA ServerStep == ASSUME ServerInv, [Next]_vars PROVE ServerInv'
<1>1. SocketTypes /\ SocketInv /\ ScannerInv /\ AnswersAreOwn
  BY DEF ServerInv
<1>2. ASSUME UNCHANGED <<accepted, thread, scanner, client, sockets>>
      PROVE  ServerInv'
  <2>1. SocketTypes' /\ SocketInv'
    BY <1>1, <1>2, SocketFrame
  <2>2. ScannerInv'
    BY <1>1, <1>2, ScannerFrame DEF ScannerInv, ScannerTypes
  <2>3. AnswersAreOwn'
    BY <1>1, <1>2, AnswersFrame DEF sockets, accepted
  <2> QED BY <2>1, <2>2, <2>3 DEF ServerInv
<1>3. ASSUME NEW c \in Clients, UNCHANGED <<thread, scanner, accepted>>
      PROVE  ScannerInv' /\ (UNCHANGED outbox => AnswersAreOwn')
  <2>1. ScannerInv'
    BY <1>1, <1>3, ScannerFrame DEF ScannerInv, ScannerTypes
  <2>2. UNCHANGED outbox => AnswersAreOwn'
    BY <1>1, <1>3, AnswersFrame DEF accepted
  <2> QED BY <2>1, <2>2
<1>4. ASSUME NEW c \in Clients, Connect(c) PROVE ServerInv'
  BY <1>1, <1>3, <1>4, ConnectStep DEF Connect, ServerInv
<1>5. ASSUME NEW c \in Clients, NEW kind \in Kinds, Send(c, kind) PROVE ServerInv'
  BY <1>1, <1>3, <1>5, SendStep DEF Send, ServerInv
<1>6. ASSUME NEW c \in Clients, Recv(c) PROVE ServerInv'
  <2>1. ScannerInv'
    BY <1>3, <1>6 DEF Recv
  <2> QED BY <1>1, <1>6, <2>1, RecvStep, AnswersRecv DEF ServerInv
<1>7. ASSUME NEW c \in Clients, RecvEnd(c) \/ Leave(c) PROVE ServerInv'
  <2>1. UNCHANGED <<thread, scanner, accepted, outbox>>
    BY <1>7 DEF RecvEnd, Leave, sockets
  <2>2. ScannerInv' /\ AnswersAreOwn'
    BY <1>3, <1>7, <2>1
  <2> QED BY <1>1, <1>7, <2>2, DoneStep DEF ServerInv
<1>8. CASE Accept
  <2>1. UNCHANGED outbox /\ reused \subseteq reused'
    BY <1>8 DEF Accept
  <2> QED BY <1>1, <1>8, <2>1, AcceptStep, AnswersFrame DEF ServerInv
<1>9. CASE Sigint \/ Exit
  BY <1>2, <1>9 DEF Sigint, Exit
<1>10. ASSUME NEW h \in Threads, Handler(h) PROVE ServerInv'
  <2>1. ASSUME UNCHANGED <<outbox, accepted>> PROVE AnswersAreOwn'
    BY <1>1, <2>1, AnswersFrame DEF accepted
  <2>2. CASE StartThread(h)
    BY <1>1, <2>1, <2>2, StartThreadStep DEF StartThread, ServerInv, sockets
  <2>3. CASE Read(h)
    BY <1>1, <2>1, <2>3, ReadStep DEF Read, ServerInv
  <2>4. CASE ReadEnds(h)
    BY <1>1, <2>1, <2>4, ReadEndsStep DEF ReadEnds, ServerInv
  <2>5. CASE yy_scan_string(h)
    <3>1. /\ ScannerInv' /\ thread[h].pc \in Serving /\ thread'[h].pc \in Serving
          /\ \A g \in Threads : thread'[g].fd = thread[g].fd /\ thread'[g].req = thread[g].req
          /\ \A g \in Threads \ {h} : thread'[g].pc = thread[g].pc
      BY <1>1, <2>5, ScanStringStep DEF Serving
    <3>2. UNCHANGED <<sockets, client, accepted>>
      BY <2>5 DEF yy_scan_string
    <3> QED BY <3>1, <3>2, ScannerStepFrame
  <2>6. ASSUME ScannerInv', Others(thread, thread', h), SameStatement(thread[h], thread'[h]),
               thread[h].pc \in {"parse", "exec", "delete"},
               thread'[h].pc \in {"parse", "exec", "delete", "write"},
               UNCHANGED <<sockets, client, accepted>>
        PROVE  ServerInv'
    <3>1. /\ thread[h].pc \in Serving /\ thread'[h].pc \in Serving
          /\ \A g \in Threads : thread'[g].fd = thread[g].fd /\ thread'[g].req = thread[g].req
          /\ \A g \in Threads \ {h} : thread'[g].pc = thread[g].pc
      BY <2>6 DEF Serving, Others, SameStatement
    <3> QED BY <2>6, <3>1, ScannerStepFrame
  <2>7. CASE Lex(h)
    <3>1. thread[h].req \in Stmts
      BY <1>1, <2>7 DEF Lex, Running, SocketInv, RequestsOK, Serving
    <3> QED BY <1>1, <2>6, <2>7, <3>1, LexStep DEF Lex
  <2>8. CASE LexFreed(h)
    BY <1>1, <2>6, <2>8, LexFreedStep DEF LexFreed
  <2>9. CASE LexCrashes(h)
    BY <1>2, <2>9 DEF LexCrashes
  <2>10. ASSUME NEW throws \in BOOLEAN, interp_sql(h, throws) PROVE ServerInv'
    BY <1>1, <2>6, <2>10, InterpStep DEF interp_sql
  <2>11. CASE DeleteBuffer(h)
    BY <1>1, <2>6, <2>11, DeleteStep DEF DeleteBuffer
  <2>12. CASE Write(h)
    BY <1>1, <2>12, WriteStep, AnswersWrite DEF ServerInv
  <2>13. CASE WriteFails(h)
    BY <1>1, <2>1, <2>13, WriteFailsStep DEF WriteFails, ServerInv, sockets
  <2> QED BY <1>10, <2>2, <2>3, <2>4, <2>5, <2>7, <2>8, <2>9, <2>10, <2>11, <2>12, <2>13 DEF Handler
<1>11. CASE UNCHANGED vars
  BY <1>2, <1>11 DEF vars
<1> QED BY <1>4, <1>5, <1>6, <1>7, <1>8, <1>9, <1>10, <1>11 DEF Next, Client

\* The sockets, the threads and the scanner keep their invariant, for any number
\* of clients and however their threads are interleaved.
THEOREM ServerCorrect == Spec => []ServerInv
<1>1. Init => ServerInv
  BY InitServer
<1>2. ServerInv /\ [Next]_vars => ServerInv'
  BY ServerStep
<1> QED BY <1>1, <1>2, PTL DEF Spec

\* yylex never reads from a buffer its thread has deleted while that is the
\* current one: yy_delete_buffer takes it out of use first.
THEOREM BufferAlive == Spec => []CurrentBufferIsAlive
<1>1. ServerInv => CurrentBufferIsAlive
  BY DEF ServerInv, ScannerInv
<1> QED BY <1>1, ServerCorrect, PTL

\* A statement parsed while no other thread was parsing gets its own result, and
\* the answer goes to the client that sent it, unless accept() gave its
\* descriptor to another client in between.
THEOREM AnswersOwn == Spec => []AnswersAreOwn
<1>1. ServerInv => AnswersAreOwn
  BY DEF ServerInv
<1> QED BY <1>1, ServerCorrect, PTL

\* A client that waits has exactly one statement or answer under way, and one
\* that does not has none, unless it was given a descriptor still in use.
THEOREM ConversationCorrect == Spec => []ConversationInStep
<1>1. ServerInv => ConversationInStep
  BY DEF ServerInv, SocketInv, Talking, ConversationInStep, Connected, InTouch
<1> QED BY <1>1, ServerCorrect, PTL

=============================================================================
