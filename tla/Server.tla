------------------------------- MODULE Server -------------------------------
(***************************************************************************)
(* The server (rmdb.cpp) and its clients (rmdb_client/main.cpp): the main  *)
(* thread accepts connections and starts a thread for each of them, which  *)
(* reads statements, has them scanned, parsed and executed, and writes the *)
(* answers.  The scanner's current buffer and start condition              *)
(* (parser/lex.yy.cpp) and ast::parse_tree are globals that all threads    *)
(* use without a lock.  A step ends where another thread can come between: *)
(* at each system call, after setting up the buffer, at each token, before *)
(* the tree is taken, and before the buffer is deleted.                    *)
(*                                                                         *)
(* A statement is a short text of token kinds; what it does when it is     *)
(* executed is in Transactions, Executors and SmCatalog.  Statements and   *)
(* answers are shorter than BUFFER_LENGTH and arrive in one piece.         *)
(***************************************************************************)
EXTENDS Integers, Sequences, FiniteSets, FiniteSetsExt

CONSTANTS
    Clients,        \* client programs; each connects once
    MaxStatements,  \* bound: MaxStatements[c] statements are sent by client c
    Kinds           \* the kinds of statements they send, a subset of DOMAIN Text

\* "word" stands for everything before the semicolon, "semi".
Text == [sql     |-> <<"word", "semi">>,
         comment |-> <<"/*">>,
         ended   |-> <<"*/", "word", "semi">>]

None == "none"

ASSUME ServerAssumption ==
    /\ IsFiniteSet(Clients) /\ None \notin Clients
    /\ MaxStatements \in [Clients -> Nat]
    /\ Kinds \subseteq DOMAIN Text

Fds == 1 .. Cardinality(Clients)
Threads == Fds  \* in the order of their creation
NoThread == 0

VARIABLES
    status,      \* "up", "closed" after close_db, "down" after exit or a crash
    sockfd,      \* the local variable of start_server the threads get the address of
    backlog,     \* connections that wait for accept()
    owner,       \* owner[fd]: the client whose connection it is, or None
    started,     \* threads created so far
    reused,      \* history: clients whose descriptor a thread of another one still has
    thread,      \* per thread: pc, fd, the statement read, its answer
    cur,         \* YY_CURRENT_BUFFER: the thread whose buffer it is, or NoThread
    pos,         \* yy_c_buf_p: the next token in that buffer
    yy_start,    \* "INITIAL" or "COMMENT"
    parse_tree,  \* ast::parse_tree: the statement it is the tree of, or NoTree
    client,      \* per client: pc and the number of statements sent
    inbox,       \* inbox[c]: statements the server has not read yet
    outbox       \* outbox[c]: answers the client has not read yet

scanner == <<cur, pos, yy_start, parse_tree>>
sockets == <<backlog, owner, inbox, outbox>>
accepted == <<sockfd, started, reused>>
vars == <<status, accepted, thread, scanner, client, sockets>>

\* A statement is known by its client (by), its number (n) and its kind.
NoTree == [by |-> None, n |-> 0, kind |-> None]

\* alone, ready and threw are history about the statement being answered: no other
\* thread was parsing meanwhile, the scanner was in its initial start condition,
\* and interp_sql threw.
NewThread == [pc |-> "none", fd |-> 0, req |-> NoTree, got |-> <<>>, word |-> NoTree,
              result |-> NoTree, alone |-> TRUE, ready |-> TRUE, threw |-> FALSE]

Init ==
    /\ status = "up"
    /\ sockfd = 0
    /\ backlog = <<>>
    /\ owner = [fd \in Fds |-> None]
    /\ started = 0 /\ reused = {}
    /\ thread = [h \in Threads |-> NewThread]
    /\ cur = NoThread /\ pos = 1 /\ yy_start = "INITIAL"
    /\ parse_tree = NoTree
    /\ client = [c \in Clients |-> [pc |-> "off", n |-> 0]]
    /\ inbox = [c \in Clients |-> <<>>]
    /\ outbox = [c \in Clients |-> <<>>]

-----------------------------------------------------------------------------
(* The client program                                                      *)

ClientGoes(c, pc) == client' = [client EXCEPT ![c].pc = pc]

\* connect() succeeds as soon as the connection is in the queue of listen().
Connect(c) ==
    /\ status = "up"
    /\ client[c].pc = "off"
    /\ ClientGoes(c, "idle")
    /\ backlog' = Append(backlog, c)
    /\ UNCHANGED <<status, accepted, thread, scanner, owner, inbox, outbox>>

\* A line is sent; the client waits for the answer.
Send(c, kind) ==
    /\ client[c].pc = "idle"
    /\ client[c].n < MaxStatements[c]
    /\ client' = [client EXCEPT ![c] = [pc |-> "waiting", n |-> @.n + 1]]
    /\ inbox' = [inbox EXCEPT ![c] =
                    Append(@, [by |-> c, n |-> client[c].n + 1, kind |-> kind])]
    /\ UNCHANGED <<status, accepted, thread, scanner, backlog, owner, outbox>>

\* The connection is there until the server has closed its descriptor.
Connected(c) ==
    status # "down" /\ ((\E i \in DOMAIN backlog : backlog[i] = c) \/ \E fd \in Fds : owner[fd] = c)

\* recv: an answer, or the end of the connection.
Recv(c) ==
    /\ client[c].pc = "waiting"
    /\ outbox[c] # <<>>
    /\ ClientGoes(c, "idle")
    /\ outbox' = [outbox EXCEPT ![c] = Tail(@)]
    /\ UNCHANGED <<status, accepted, thread, scanner, backlog, owner, inbox>>
RecvEnd(c) ==
    /\ client[c].pc = "waiting"
    /\ outbox[c] = <<>>
    /\ ~Connected(c)
    /\ ClientGoes(c, "done")
    /\ UNCHANGED <<status, accepted, thread, scanner, sockets>>

\* exit, bye or the end of the input; or the program is killed while it waits.
Leave(c) ==
    /\ client[c].pc \in {"idle", "waiting"}
    /\ ClientGoes(c, "done")
    /\ UNCHANGED <<status, accepted, thread, scanner, sockets>>

-----------------------------------------------------------------------------
(* The main thread                                                         *)

\* Threads that read from or write to descriptor fd.
UsersOf(fd) == {h \in Threads : thread[h].fd = fd /\ thread[h].pc \notin {"start", "ended"}}

\* accept and pthread_create: the thread is given the address of sockfd.
Accept ==
    /\ status = "up"
    /\ backlog # <<>>
    /\ backlog' = Tail(backlog)
    /\ LET fd == Min({f \in Fds : owner[f] = None})
       IN /\ sockfd' = fd
          /\ owner' = [owner EXCEPT ![fd] = Head(backlog)]
          /\ reused' = IF UsersOf(fd) = {} THEN reused ELSE reused \cup {Head(backlog)}
    /\ started' = started + 1
    /\ thread' = [thread EXCEPT ![started + 1].pc = "start"]
    /\ UNCHANGED <<status, scanner, client, inbox, outbox>>

\* SIGINT reaches the main thread in accept: it leaves the loop and closes the
\* database; then main returns and ends all threads.
Sigint ==
    /\ status = "up"
    /\ status' = "closed"
    /\ UNCHANGED <<accepted, thread, scanner, client, sockets>>
Exit ==
    /\ status = "closed"
    /\ status' = "down"
    /\ UNCHANGED <<accepted, thread, scanner, client, sockets>>

-----------------------------------------------------------------------------
(* The scanner                                                             *)

\* Threads that have a buffer.
Parsing == {h \in Threads : thread[h].pc \in {"parse", "exec", "delete"}}

\* yylex reads the current buffer from pos on in start condition start: the kind
\* of the token, the position behind it and the start condition then.  Outside
\* of a comment "*/" is an operator (and a character the scanner skips).
Where(text, p, kind) == {i \in p .. Len(text) : text[i] = kind}

yylex(text, p, start) ==
    LET from == IF start = "INITIAL" THEN p
                ELSE IF Where(text, p, "*/") = {} THEN Len(text) + 1
                ELSE Min(Where(text, p, "*/")) + 1
    IN IF from > Len(text)
       THEN [kind |-> "EOF", pos |-> from,
             start |-> IF p <= Len(text) /\ text[Len(text)] = "*/" THEN "INITIAL" ELSE start]
       ELSE IF text[from] = "/*"
       THEN [kind |-> "EOF", pos |-> Len(text) + 1, start |-> "COMMENT"]
       ELSE [kind |-> text[from], pos |-> from + 1, start |-> "INITIAL"]

-----------------------------------------------------------------------------
(* The thread of a connection: client_handler                              *)

Running(h, pc) == status # "down" /\ thread[h].pc = pc
Goes(h, pc) == thread' = [thread EXCEPT ![h].pc = pc]

\* int fd = *((int *)sock_fd): what sockfd is now.
StartThread(h) ==
    /\ Running(h, "start")
    /\ thread' = [thread EXCEPT ![h].fd = sockfd, ![h].pc = "read"]
    /\ UNCHANGED <<status, accepted, scanner, client, sockets>>

\* read() returns a statement ...
Read(h) ==
    /\ Running(h, "read")
    /\ LET c == owner[thread[h].fd]
       IN /\ c # None
          /\ inbox[c] # <<>>
          /\ thread' = [thread EXCEPT ![h].req = Head(inbox[c]), ![h].pc = "scan"]
          /\ inbox' = [inbox EXCEPT ![c] = Tail(@)]
    /\ UNCHANGED <<status, accepted, scanner, client, backlog, owner, outbox>>

\* ... or 0 when the client has closed the connection, or -1 when the descriptor
\* was closed by another thread.  The thread closes it and ends; a transaction it
\* has open stays open.
Closed(h) ==
    LET c == owner[thread[h].fd]
    IN c # None => client[c].pc = "done" /\ inbox[c] = <<>>
ReadEnds(h) ==
    /\ Running(h, "read")
    /\ Closed(h)
    /\ owner' = [owner EXCEPT ![thread[h].fd] = None]
    /\ thread' = [thread EXCEPT ![h] = [NewThread EXCEPT !.pc = "ended"]]
    /\ UNCHANGED <<status, accepted, scanner, client, backlog, inbox, outbox>>

\* The thread's buffer becomes the current one, whoever reads from another, and
\* the scanner's position is at its start.
yy_switch_to_buffer(h) == cur' = h /\ pos' = 1

yy_scan_string(h) ==
    /\ Running(h, "scan")
    /\ yy_switch_to_buffer(h)
    /\ thread' = [g \in Threads |->
         IF g = h THEN [thread[h] EXCEPT !.pc = "parse", !.got = <<>>, !.word = NoTree,
                                         !.result = NoTree, !.alone = (Parsing = {}),
                                         !.ready = (yy_start = "INITIAL")]
         ELSE IF g \in Parsing THEN [thread[g] EXCEPT !.alone = FALSE] ELSE thread[g]]
    /\ UNCHANGED <<status, accepted, yy_start, parse_tree, client, sockets>>

\* Mutants: an error in the statement is not answered; the end of the text leaves
\* parse_tree alone.
ShiftSilent(h, kind, word) ==
    LET got == Append(thread[h].got, kind)
        first == IF kind = "word" THEN word ELSE thread[h].word
    IN \/ /\ got = <<"word">>
          /\ thread' = [thread EXCEPT ![h].got = got, ![h].word = first]
          /\ UNCHANGED parse_tree
       \/ /\ got \in {<<"word", "semi">>, <<"EOF">>}
          /\ parse_tree' = IF kind = "EOF" THEN NoTree ELSE first
          /\ Goes(h, "exec")
       \/ /\ got \notin {<<"word">>, <<"word", "semi">>, <<"EOF">>}
          /\ Goes(h, "read")
          /\ UNCHANGED parse_tree

ShiftKeepsTree(h, kind, word) ==
    LET got == Append(thread[h].got, kind)
        first == IF kind = "word" THEN word ELSE thread[h].word
    IN \/ /\ got = <<"word">>
          /\ thread' = [thread EXCEPT ![h].got = got, ![h].word = first]
          /\ UNCHANGED parse_tree
       \/ /\ got \in {<<"word", "semi">>, <<"EOF">>}
          /\ parse_tree' = IF kind = "EOF" THEN parse_tree ELSE first
          /\ Goes(h, "exec")
       \/ /\ got \notin {<<"word">>, <<"word", "semi">>, <<"EOF">>}
          /\ Goes(h, "delete")
          /\ UNCHANGED parse_tree

\* yyparse asks for a token and shifts it.  It accepts "word semi", setting
\* parse_tree, and the end of the text, setting it to nullptr; any other sequence
\* is an error as soon as it is none of their prefixes.
Shift(h, kind, word) ==
    LET got == Append(thread[h].got, kind)
        first == IF kind = "word" THEN word ELSE thread[h].word
    IN \/ /\ got = <<"word">>
          /\ thread' = [thread EXCEPT ![h].got = got, ![h].word = first]
          /\ UNCHANGED parse_tree
       \/ /\ got \in {<<"word", "semi">>, <<"EOF">>}
          /\ parse_tree' = IF kind = "EOF" THEN NoTree ELSE first
          /\ Goes(h, "exec")
       \/ /\ got \notin {<<"word">>, <<"word", "semi">>, <<"EOF">>}
          /\ Goes(h, "delete")
          /\ UNCHANGED parse_tree

Lex(h) ==
    /\ Running(h, "parse")
    /\ cur # NoThread
    /\ LET tok == yylex(Text[thread[cur].req.kind], pos, yy_start)
       IN /\ pos' = tok.pos
          /\ yy_start' = tok.start
          /\ Shift(h, tok.kind, thread[cur].req)
    /\ UNCHANGED <<status, accepted, cur, client, sockets>>

\* Another thread has deleted the current buffer: yylex goes on in memory that
\* was freed, and through a null pointer at the end of the buffer.
LexFreed(h) ==
    /\ Running(h, "parse")
    /\ cur = NoThread
    /\ \E kind \in {"word", "semi", "EOF", "*/"} : \E w \in {thread[h].req, NoTree} :
          Shift(h, kind, w)
    /\ UNCHANGED <<status, accepted, cur, pos, yy_start, client, sockets>>
LexCrashes(h) ==
    /\ Running(h, "parse")
    /\ cur = NoThread
    /\ status' = "down"
    /\ UNCHANGED <<accepted, thread, scanner, client, sockets>>

\* Mutant: the catch block sends the error by itself.
interp_sqlReports(h, throws) ==
    /\ Running(h, "exec")
    /\ thread' = [thread EXCEPT ![h].pc = "delete", ![h].threw = throws,
                                ![h].result = IF throws THEN NoTree ELSE parse_tree]
    /\ throws => parse_tree # NoTree
    /\ LET c == owner[thread[h].fd]
       IN outbox' = IF throws /\ c # None
                    THEN [outbox EXCEPT ![c] = Append(@, [result |-> NoTree])] ELSE outbox
    /\ UNCHANGED <<status, accepted, scanner, client, backlog, owner, inbox>>

\* interp_sql of whatever parse_tree is now.  When the statement throws, and when
\* the database is closed, the answer is empty.
interp_sql(h, throws) ==
    /\ Running(h, "exec")
    /\ thread' = [thread EXCEPT ![h].pc = "delete",
                                ![h].result = IF throws THEN NoTree ELSE parse_tree,
                                ![h].threw = throws]
    /\ throws => parse_tree # NoTree
    /\ status = "closed" /\ parse_tree # NoTree => throws
    /\ UNCHANGED <<status, accepted, scanner, client, sockets>>

\* Mutant: the deleted buffer stays the current one.
CurAfterDeleteKept(h) == cur

\* yy_delete_buffer
CurAfterDelete(h) == IF cur = h THEN NoThread ELSE cur

DeleteBuffer(h) ==
    /\ Running(h, "delete")
    /\ cur' = CurAfterDelete(h)
    /\ pos' = IF cur' = NoThread THEN 1 ELSE pos  \* no position without a buffer
    /\ thread' = [thread EXCEPT ![h].pc = "write", ![h].got = <<>>, ![h].word = NoTree]
    /\ UNCHANGED <<status, accepted, yy_start, parse_tree, client, sockets>>

\* write(): nobody sees it if the connection is gone.
Answer(h) == [result |-> thread[h].result, to |-> thread[h].req,
              alone |-> thread[h].alone, ready |-> thread[h].ready, threw |-> thread[h].threw]
Write(h) ==
    /\ Running(h, "write")
    /\ owner[thread[h].fd] # None
    /\ LET c == owner[thread[h].fd]
       IN outbox' = [outbox EXCEPT ![c] = IF client[c].pc = "done" THEN @ ELSE Append(@, Answer(h))]
    /\ thread' = [thread EXCEPT ![h] = [NewThread EXCEPT !.pc = "read", !.fd = thread[h].fd]]
    /\ UNCHANGED <<status, accepted, scanner, client, backlog, owner, inbox>>
WriteFails(h) ==
    /\ Running(h, "write")
    /\ owner[thread[h].fd] = None
    /\ thread' = [thread EXCEPT ![h] = [NewThread EXCEPT !.pc = "ended"]]
    /\ UNCHANGED <<status, accepted, scanner, client, sockets>>

-----------------------------------------------------------------------------

Client(c) ==
    \/ Connect(c)
    \/ \E kind \in Kinds : Send(c, kind)
    \/ Leave(c)

Handler(h) ==
    \/ StartThread(h)
    \/ Read(h)
    \/ ReadEnds(h)
    \/ yy_scan_string(h)
    \/ Lex(h)
    \/ LexFreed(h)
    \/ LexCrashes(h)
    \/ \E throws \in BOOLEAN : interp_sql(h, throws)
    \/ DeleteBuffer(h)
    \/ Write(h)
    \/ WriteFails(h)

Next ==
    \/ \E c \in Clients : Client(c) \/ Recv(c) \/ RecvEnd(c)
    \/ Accept
    \/ Sigint
    \/ Exit
    \/ \E h \in Threads : Handler(h)

\* The operating system runs every thread and the main thread; what users and
\* SIGINT do is not fair.
Fairness ==
    /\ \A h \in Threads : WF_vars(Handler(h))
    /\ WF_vars(Accept) /\ WF_vars(Exit)
    /\ \A c \in Clients : WF_vars(Recv(c) \/ RecvEnd(c))

Spec == Init /\ [][Next]_vars /\ Fairness

-----------------------------------------------------------------------------
(* Properties                                                              *)

\* Client_handler's conversation stays in step: of a statement a client waits for
\* there is exactly one trace, in a socket or in one thread, whatever threads
\* share the connection; nothing is answered twice and no answer is left over
\* for the next statement.  (Not so on a descriptor that accept() gives away
\* while a thread of its earlier connection, which another thread has closed,
\* still has an answer to write.)
Traces(c) ==
    Len(inbox[c]) + Len(outbox[c])
        + Cardinality({h \in Threads : thread[h].pc \in {"scan", "parse", "exec", "delete", "write"}
                                          /\ thread[h].req.by = c})
ConversationInStep ==
    \A c \in Clients \ reused : status # "down" /\ Connected(c) =>
        /\ client[c].pc = "waiting" => Traces(c) = 1
        /\ client[c].pc = "idle" => Traces(c) = 0

\* A statement parsed while no other thread was parsing is answered by its own
\* result, also after other threads have met in the scanner before.  There is no
\* result if it throws, if it is no SQL, or if an earlier text, of any client,
\* left the scanner in a comment that this one does not end.  And it is answered
\* to the client that sent it.
Executable(a) == a.to.kind = (IF a.ready THEN "sql" ELSE "ended") /\ ~a.threw
AnswersAreOwn ==
    \A c \in Clients : \A i \in DOMAIN outbox[c] :
        LET a == outbox[c][i]
        IN /\ a.alone => a.result = IF Executable(a) THEN a.to ELSE NoTree
           /\ c \notin reused => a.to.by = c

\* The scanner's current buffer has not been freed, however threads are
\* interleaved: it belongs to a thread that has not deleted it.
CurrentBufferIsAlive == cur # NoThread => cur \in Parsing

\* No statement stays without an answer: if a connection got a thread, its client
\* gets an answer or sees the connection or the server end.  (Of two connections
\* accepted before a thread has started, one may get no thread at all: the two
\* threads read the same sockfd.)
Served(c) ==
    \E h \in Threads : /\ thread[h].pc \notin {"none", "start", "ended"}
                       /\ owner[thread[h].fd] = c
EveryStatementIsAnswered ==
    \A c \in Clients :
        client[c].pc = "waiting" /\ Served(c) ~> client[c].pc # "waiting"

=============================================================================
