----------------------------- MODULE BiModalLayout -----------------------------
(***************************************************************************)
(* How the nodes of a BiModalText lie one behind the other: the inductive  *)
(* invariant of BiModalProofs.  The order of the nodes and the text behind *)
(* each of them are no variables of the program; the invariant says that a *)
(* rank r and texts w exist that fit the links, the characters and the     *)
(* spans.                                                                  *)
(***************************************************************************)
EXTENDS BiModalStructure

(* The linked nodes: they have a rank, and it falls along the lists.        *)
On(r) == {n \in Node : r[n] > 0}

(* The cells whose links count; clear() has freed what the head leads to.   *)
Cells(r) == On(r) \cup (IF Whole THEN {head} ELSE {})

OnLevel(r, c, i) == c \in Cells(r) /\ i < level[c]

(* The link of c leads to the first node behind c that has level i.         *)
FirstBehind(r, c, i) ==
  /\ next[c][i] # Nil => /\ next[c][i] \in On(r)
                         /\ level[next[c][i]] > i
                         /\ r[next[c][i]] < r[c]
  /\ \A n \in On(r) : level[n] > i /\ r[n] < r[c] =>
       next[c][i] # Nil /\ r[n] <= r[next[c][i]]

Ordered(r) ==
  /\ r \in [Cell -> Nat]
  /\ \A n \in Node : r[n] < r[head]
  /\ \A m, n \in On(r) : r[m] = r[n] => m = n
  /\ \A n \in On(r) : level[n] > 0
  /\ ~AllocMayFail => Allocated \subseteq On(r)
  /\ \A n \in Node \ On(r), i \in Levels : next[n][i] = Nil /\ span[n][i] = 0
  /\ \A c \in Cell, i \in Levels : OnLevel(r, c, i) => FirstBehind(r, c, i)

(* w[c] is the text behind c.                                               *)
Texts(w) ==
  /\ w \in [Cell -> Seq(Char)]
  /\ \A c \in Cell :
       w[c] = IF next[c][0] = Nil THEN << >>
                                  ELSE data[next[c][0]] \o w[next[c][0]]

After(w, m) == IF m = Nil THEN 0 ELSE Len(w[m])

Spanned(r, w) ==
  \A c \in Cell, i \in Levels :
    OnLevel(r, c, i) => span[c][i] = Len(w[c]) - After(w, next[c][i])

(* The reported size and the bound on the text.                             *)
Sized(w) ==
  /\ total_size <= Len(w[head])
  /\ ~AllocMayFail => total_size = Len(w[head])
  /\ Len(w[head]) <= MaxText

(* Only the sole node may be empty.                                         *)
NoneEmpty(r) == \/ \A n \in On(r) : data[n] # << >>
                \/ \A m, n \in On(r) : m = n

(* Requests: where the call is and what is known of its arguments there.    *)
(* An erase whose length made pos + len wrap is left uncut.                 *)
Served(w) ==
  /\ pc \in {"find", "found"} => req.op \in {"insert", "erase"}
  /\ pc = "loop" => req.op = "erase"
  /\ pc = "optimize" => req.op = "keep"
  /\ pc = "clear" => req.op = "clear"
  /\ req.op = "insert" =>
       /\ req.str \in Inputs
       /\ Len(w[head]) + Len(req.str) <= MaxText
       /\ pc # "entry" => req.pos <= total_size
  /\ req.op = "erase" /\ pc = "entry" => req.len \in EraseLens
  /\ req.op = "erase" /\ pc # "entry" =>
       /\ req.pos <= total_size
       /\ \/ req.pos + req.len <= total_size
          \/ req.pos > 0 /\ ~AllocMayFail
       /\ pc # "loop" => req.len > 0

(* u is the last cell with level i that is not behind p.                    *)
LastBefore(r, u, p, i) ==
  /\ OnLevel(r, u, i)
  /\ r[p] <= r[u]
  /\ \A n \in On(r) : level[n] > i /\ r[p] <= r[n] => r[u] <= r[n]

(* Where u ends.                                                            *)
EndOf(w, u) == Len(w[head]) - Len(w[u])

(* The search: what it has passed ends before the position, and above the   *)
(* level it is on, the link of update[i] reaches the position.              *)
Finding(r, w) ==
  /\ OnLevel(r, x, lvl)
  /\ acc = EndOf(w, x)
  /\ x = head \/ acc < req.pos
  /\ \A i \in Levels : i > lvl =>
       /\ OnLevel(r, update[i], i)
       /\ r[x] <= r[update[i]]
       /\ \A n \in On(r) : level[n] > i /\ r[n] < r[update[i]] =>
            req.pos <= EndOf(w, n)

Targeting(r, w) ==
  /\ x = next[update[0]][0]
  /\ x = Nil => On(r) = {}
  /\ acc = EndOf(w, update[0])
  /\ acc <= req.pos
  /\ \A i \in Levels : LastBefore(r, update[i], update[0], i)

Packing(r) ==
  /\ x # Nil => x \in On(r)
  /\ \A n \in On(r) : x = Nil \/ r[x] < r[n] => mode[n] = "compact"

Clearing(r) ==
  /\ x # Nil => x \in On(r)
  /\ \A n \in On(r) : x # Nil /\ r[n] <= r[x]

Held(r, w) == Texts(w) /\ Spanned(r, w) /\ Sized(w) /\ NoneEmpty(r)

Good(r, w) ==
  /\ Ordered(r)
  /\ Whole => Held(r, w)
  /\ Served(w)
  /\ pc = "find" => Finding(r, w)
  /\ pc = "found" => Targeting(r, w)
  /\ pc = "optimize" => Packing(r)
  /\ pc = "clear" => Clearing(r)

IInv == TypeOK /\ \E r, w : Good(r, w)

===============================================================================
