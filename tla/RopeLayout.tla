------------------------------- MODULE RopeLayout -------------------------------
(***************************************************************************)
(* How the nodes of a rope lie one behind the other: the inductive         *)
(* invariant of RopeProofs.  The order of the nodes and the text from each *)
(* of them on are no variables of the program; the invariant says that a   *)
(* rank r and texts w exist that fit the links, the characters and the     *)
(* skips.  The lists are parameters (ht heights, nx links, sk skips, dt    *)
(* characters), as an action takes them through states that are no states  *)
(* of the model: the head has grown and the node is not linked yet.        *)
(***************************************************************************)
EXTENDS Rope

(* The link of c leads to the first node behind c that has level i.         *)
FirstBehind(ht, nx, r, c, i) ==
  /\ nx[c][i] # Nil => /\ nx[c][i] \in Node
                       /\ i < ht[nx[c][i]]
                       /\ r[nx[c][i]] < r[c]
  /\ \A n \in Node : i < ht[n] /\ r[n] < r[c] =>
       nx[c][i] # Nil /\ r[n] <= r[nx[c][i]]

Shaped(ht, nx, sk, dt) ==
  /\ ht \in [Cell -> 0 .. MaxHeight] /\ ht[head] > 0
  /\ nx \in [Cell -> [Levels -> Pointer]]
  /\ sk \in [Cell -> [Levels -> Nat]]
  /\ dt \in [Cell -> Seq(Char)]

(* Nothing is left in the memory of a node that is not allocated.           *)
Cleared(ht, nx, dt) ==
  \A n \in Node : ht[n] = 0 => nx[n][0] = Nil /\ dt[n] = << >>

Ranked(ht, r) ==
  /\ r \in [Cell -> Nat]
  /\ \A n \in Node : ht[n] > 0 => r[n] < r[head]
  /\ \A m, n \in Node : ht[m] > 0 /\ ht[n] > 0 /\ r[m] = r[n] => m = n

Ordered(ht, nx, r) ==
  /\ Ranked(ht, r)
  /\ \A n \in Node : ht[n] < ht[head]
  /\ \A c \in Cell, i \in Levels : i < ht[c] => FirstBehind(ht, nx, r, c, i)

(* w[c] is the text from the start of c on; After(w, m) where m may be null.*)
After(w, m) == IF m = Nil THEN << >> ELSE w[m]

Texts(nx, dt, w) ==
  /\ w \in [Cell -> Seq(Char)]
  /\ \A c \in Cell : w[c] = dt[c] \o After(w, nx[c][0])

Spanned(ht, nx, sk, w) ==
  \A c \in Cell, i \in Levels :
    i < ht[c] => sk[c][i] = Len(w[c]) - Len(After(w, nx[c][i]))

Lists(ht, nx, sk, dt, r, w) ==
  /\ Shaped(ht, nx, sk, dt) /\ Cleared(ht, nx, dt)
  /\ Ordered(ht, nx, r) /\ Texts(nx, dt, w) /\ Spanned(ht, nx, sk, w)

Filled(ht, dt) == /\ \A n \in Node : ht[n] > 0 => dt[n] # << >>
                  /\ \A c \in Cell : Bytes(dt[c]) <= NodeStrSize

-----------------------------------------------------------------------------
(* c is the last cell with level i that is not behind u.                    *)
LastBefore(ht, r, c, u, i) ==
  /\ c \in Cell /\ i < ht[c] /\ r[u] <= r[c]
  /\ \A n \in Node : i < ht[n] /\ r[u] <= r[n] => r[c] <= r[n]

(* The iterator it stands on u, before the last k characters.               *)
Along(ht, r, w, it, u, k) ==
  /\ u \in Cell /\ ht[u] > 0 /\ it[0].node = u
  /\ \A i \in Levels : i < ht[head] =>
       /\ LastBefore(ht, r, it[i].node, u, i)
       /\ it[i].skip = Len(w[it[i].node]) - k

(* The characters behind the position of the call.                          *)
Behindhand(w) == Len(w[head]) - MinOf(req.pos, Len(w[head]))

(* The search: the position lies in what follows e, and above the level it  *)
(* is on every node beyond the link of the iterator starts behind it.       *)
Finding(r, w) ==
  LET k == Behindhand(w)
  IN  /\ e \in Cell /\ lvl < height[e] /\ lvl < height[head]
      /\ offset = Len(w[e]) - k
      /\ e = head \/ offset > 0
      /\ \A i \in Levels : lvl < i /\ i < height[head] =>
           /\ iter[i].node \in Cell /\ i < height[iter[i].node]
           /\ r[e] <= r[iter[i].node]
           /\ iter[i].skip = Len(w[iter[i].node]) - k
           /\ \A n \in Node : i < height[n] /\ r[n] < r[iter[i].node] =>
                Len(w[n]) <= k

(* It stands in u or at its end, at the start only of the head.             *)
Inside(u) == /\ iter[0].skip <= Len(data[u])
             /\ u = head \/ iter[0].skip > 0

AtEndOf(u) == iter[0].skip = Len(data[u])

Standing(r, w, k) == /\ Along(height, r, w, iter, iter[0].node, k)
                     /\ Inside(iter[0].node)

(* What an insertion has put into new nodes, and where it began.            *)
Done == Len(req.str) - Len(rest)

Began(w) == MinOf(req.pos, Len(w[head]) + Len(tail) - Done)

Piecing(r, w) ==
  LET u == iter[0].node
  IN  /\ Standing(r, w, Len(w[u]) - iter[0].skip) /\ AtEndOf(u)
      /\ Bytes(tail) <= NodeStrSize
      /\ Done \in 0 .. Len(w[head]) /\ rest = SubSeq(req.str, Done + 1, Len(req.str))
      /\ Began(w) + Done <= Len(w[head])
      /\ SubSeq(w[head], Began(w) + 1, Began(w) + Done) = SubSeq(req.str, 1, Done)
      /\ rest # << >> \/ tail # << >> =>
           Len(w[u]) - iter[0].skip = Len(w[head]) - Began(w) - Done

Deleting(r, w) ==
  LET u == iter[0].node
  IN  /\ Standing(r, w, Behindhand(w))
      /\ \/ e = u /\ offset = iter[0].skip
         \/ e = next[u][0] /\ offset = 0 /\ AtEndOf(u)

(* rope_free: e is the first of the nodes that are left.                    *)
Freeing(r) ==
  /\ Ranked(height, r)
  /\ e # Nil => e \in Allocated
  /\ \A n \in Allocated : /\ e # Nil /\ r[n] <= r[e]
                          /\ FirstBehind(height, next, r, n, 0)

(* Where the call is and what is known of its arguments there.              *)
Served(w) ==
  /\ pc = "idle" => req = NoRequest
  /\ pc = "entry" => req.op # "none"
  /\ pc \in {"find", "found"} => req.op \in {"insert", "erase"}
  /\ pc = "pieces" => req.op = "insert" /\ Valid(req.str)
  /\ pc = "del" => req.op = "erase"
  /\ pc = "free" => req.op = "clear"
  /\ pc \in {"find", "found", "del"} => req.len <= Behindhand(w)

Counted(w) ==
  /\ num_chars = Len(w[head]) - (IF pc = "del" THEN req.len ELSE 0)
  /\ num_bytes = Bytes(w[head])

Held(r, w) == /\ Lists(height, next, skip, data, r, w)
              /\ Filled(height, data)
              /\ Counted(w)
              /\ Served(w)

Good(r, w) ==
  /\ Cleared(height, next, data)
  /\ IF Whole THEN Held(r, w) ELSE Freeing(r) /\ req.op = "clear"
  /\ pc = "find" => Finding(r, w)
  /\ pc = "found" => /\ Standing(r, w, Behindhand(w))
                     /\ e = iter[0].node /\ offset = iter[0].skip
  /\ pc = "pieces" => Piecing(r, w)
  /\ pc = "del" => Deleting(r, w)

IInv == TypeOK /\ \E r, w : Good(r, w)
===============================================================================
