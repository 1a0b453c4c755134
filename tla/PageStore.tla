----------------------------- MODULE PageStore -----------------------------
(***************************************************************************)
(* What the storage layer promises its callers, with no cache in sight: a  *)
(* page is a cell that keeps the value last written to it, whatever other  *)
(* pages are fetched, flushed or evicted in between.                       *)
(*                                                                         *)
(* A client is one use of one page: it opens the page, may overwrite it    *)
(* through the pointer it was given, and closes it.                        *)
(***************************************************************************)
CONSTANTS Clients,     \* uses of a page, each with at most one page open
          Pages,       \* page identifiers
          Data,        \* what a page may hold
          Zero,        \* the contents of a page just created
          NoPage       \* "no page is open"

VARIABLES content,     \* content[p]: what a reader of p sees
          open,        \* open[c]: the page client c uses, or NoPage
          allocated    \* the pages that were ever handed out

vars == <<content, open, allocated>>

Init ==
    /\ allocated \in SUBSET Pages
    /\ content \in [Pages -> Data]
    /\ open = [c \in Clients |-> NoPage]

Open(c, p) ==
    /\ open[c] = NoPage
    /\ p \in allocated
    /\ open' = [open EXCEPT ![c] = p]
    /\ UNCHANGED <<content, allocated>>

\* A created page is one nobody was given before, and it reads as zeroes.
Create(c, p) ==
    /\ open[c] = NoPage
    /\ p \notin allocated
    /\ allocated' = allocated \cup {p}
    /\ content' = [content EXCEPT ![p] = Zero]
    /\ open' = [open EXCEPT ![c] = p]

Write(c, v) ==
    /\ open[c] # NoPage
    /\ content' = [content EXCEPT ![open[c]] = v]
    /\ UNCHANGED <<open, allocated>>

Close(c) ==
    /\ open[c] # NoPage
    /\ open' = [open EXCEPT ![c] = NoPage]
    /\ UNCHANGED <<content, allocated>>

\* Only a page that nobody uses is deleted; its contents are given up.
Delete(p) ==
    /\ \A c \in Clients : open[c] # p
    /\ content' = [content EXCEPT ![p] = Zero]
    /\ UNCHANGED <<open, allocated>>

\* An attempt to create a page that failed may still use up its identifier.
Burn(p) ==
    /\ p \notin allocated
    /\ allocated' = allocated \cup {p}
    /\ UNCHANGED <<content, open>>

Next ==
    \/ \E c \in Clients, p \in Pages : Open(c, p) \/ Create(c, p)
    \/ \E c \in Clients, v \in Data : Write(c, v)
    \/ \E c \in Clients : Close(c)
    \/ \E p \in Pages : Delete(p) \/ Burn(p)

Spec == Init /\ [][Next]_vars

=============================================================================
