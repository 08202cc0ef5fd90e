---------------------------------- MODULE Json ----------------------------------
(***************************************************************************)
(* src/espgoodies/json.c: the parser, token by token, and the functions    *)
(* that change, copy, write out and free what it returns, down to the      *)
(* blocks of memory they take and give back.                               *)
(*                                                                         *)
(* A block is a node, with the arrays and the string it points to, or the  *)
(* copy of a key.  White space, which is skipped, and the digits of        *)
(* numbers are left out; an input has at least one token.                  *)
(***************************************************************************)
EXTENDS JsonText, FiniteSets, TLC

CONSTANTS
  Tokens,              \* of inputs in no particular order
  Dumps,               \* values whose texts are inputs as well
  Names,               \* keys that the caller uses
  MaxTokens,           \* bound: tokens of an input in no particular order
  MaxHandles, MaxBlocks,  \* bounds: values that the caller holds, and their size
  MaxCalls             \* bound: calls in a row, other than those that free a value

VARIABLES
  heap,       \* the blocks that are allocated, by address
  stack,      \* ctx->stack: nodes and the keys of their next children, root first
  waiting_elem, root,   \* locals of json_parse
  parsing,    \* "parsing", "returned" or, when the caller goes on, "over"
  meant,      \* the value whose text the input is, or Anything
  rest,       \* what is left to read of it
  count,      \* tokens read of an input that means nothing, then calls in a row
  handles,    \* the pointers that the caller holds
  overlooked, \* history: pointers that were dropped and not freed
  misfreed    \* history: a block was freed that was not allocated
parser_vars == <<stack, waiting_elem, root, parsing, meant, rest, count>>
heap_vars == <<heap, handles, misfreed>>
json_vars == <<parser_vars, heap_vars, overlooked>>

NULL == 0

Anything == Freed

JsonInit ==
  /\ heap = << >> /\ stack = << >>
  /\ waiting_elem = TRUE /\ root = NULL
  /\ parsing = "over" /\ meant = Anything /\ rest = << >> /\ count = 0
  /\ handles = << >> /\ overlooked = << >> /\ misfreed = FALSE

--------------------------------------------------------------------------------
(* Memory. *)

Unused(h) == CHOOSE a \in 1 .. Cardinality(DOMAIN h) + 1 : a \notin DOMAIN h

New(h, block) == h @@ (Unused(h) :> block)

\* Those of these pointers that are not NULL.
NotNull(pointers) == SelectSeq(pointers, LAMBDA a : a # NULL)

TypeIn(h, a) == IF a = NULL THEN "NULL" ELSE h[a].type

\* The blocks that json_free gives back, in its order.
RECURSIVE json_free(_, _)
json_free(h, a) ==
  IF a \notin DOMAIN h THEN IF a = NULL THEN << >> ELSE <<a>>
  ELSE FlattenSeq([i \in DOMAIN h[a].children |->
         (IF h[a].type = "object" THEN <<h[a].keys[i]>> ELSE << >>)
         \o json_free(h, h[a].children[i])]) \o <<a>>

\* The heap without these blocks.
Without(h, blocks) == [a \in DOMAIN h \ ToSet(blocks) |-> h[a]]

Misfree(h, blocks) == ~(IsInjective(blocks) /\ ToSet(blocks) \subseteq DOMAIN h)

RECURSIVE Tree(_, _)
Tree(h, a) ==
  IF a = NULL THEN Missing
  ELSE IF a \notin DOMAIN h THEN Node("dangling", << >>, << >>, << >>)
  ELSE [h[a] EXCEPT !.keys = [i \in DOMAIN @ |-> Tree(h, @[i]).text],
                    !.children = [i \in DOMAIN @ |-> Tree(h, @[i])]]

json_list_append(h, a, child) == [h EXCEPT ![a].children = Append(@, child)]

json_obj_append(h, a, key, child) ==
  [New(h, Node("key", key, << >>, << >>)) EXCEPT
    ![a].keys = Append(@, Unused(h)), ![a].children = Append(@, child)]

--------------------------------------------------------------------------------
(* The parser's stack, with the heap: p is [heap, stack]. *)

ctx_get_current(p) == IF p.stack = << >> THEN NULL ELSE Last(p.stack).json

ctx_get_key(p) == IF p.stack = << >> THEN NULL ELSE Last(p.stack).key

ctx_has_key(p) == ctx_get_key(p) # NULL

\* mutant: the key is forgotten and not freed
ctx_clear_nothing(p) == [p EXCEPT !.stack[Len(p.stack)].key = NULL]

ctx_clear_key(p) ==
  [heap |-> Without(p.heap, <<ctx_get_key(p)>>),
   stack |-> [p.stack EXCEPT ![Len(p.stack)].key = NULL]]

\* Called when there is no key.
ctx_set_key(p, key) ==
  [heap |-> New(p.heap, Node("key", key, << >>, << >>)),
   stack |-> [p.stack EXCEPT ![Len(p.stack)].key = Unused(p.heap)]]

ctx_push(p, a) == [p EXCEPT !.stack = Append(@, [json |-> a, key |-> NULL])]

\* Refused by a list with a key and by an object without one, and by the rest.
ctx_add(p, a) ==
  LET current == ctx_get_current(p)
      type    == TypeIn(p.heap, current)
  IN  CASE p.stack = << >> -> ctx_push(p, a)
        [] type = "list" /\ ~ctx_has_key(p) ->
             [p EXCEPT !.heap = json_list_append(@, current, a)]
        [] type = "object" /\ ctx_has_key(p) ->
             ctx_clear_key([p EXCEPT !.heap =
               json_obj_append(@, current, @[ctx_get_key(p)].text, a)])
        [] OTHER -> p

\* The root is not added to anything.
ctx_pop(p) ==
  IF Len(p.stack) = 1 THEN [p EXCEPT !.stack = << >>]
  ELSE ctx_add([p EXCEPT !.stack = Front(@)], ctx_get_current(p))

\* mutant: the first entry holds all the others
RootOnly(p) ==
  (IF p.stack = << >> THEN << >> ELSE json_free(p.heap, Head(p.stack).json))
  \o NotNull([i \in DOMAIN p.stack |-> p.stack[i].key])

\* The first entry, the last one, and all keys.
ctx_free(p) ==
  (IF p.stack = << >> THEN << >> ELSE json_free(p.heap, Head(p.stack).json))
  \o (IF Len(p.stack) > 1 THEN json_free(p.heap, ctx_get_current(p)) ELSE << >>)
  \o NotNull([i \in DOMAIN p.stack |-> p.stack[i].key])

--------------------------------------------------------------------------------
(* json_parse. *)

\* Whether a token may come here.
Acceptable(t) ==
  LET p       == [heap |-> heap, stack |-> stack]
      current == ctx_get_current(p)
      type    == TypeIn(heap, current)
      Empty   == heap[current].children = << >>
  IN  /\ root = NULL
      /\ CASE t.kind \in {"{", "["} -> waiting_elem
           [] t.kind = "}" ->
                type = "object" /\ (waiting_elem => Empty) /\ ~ctx_has_key(p)
           [] t.kind = "]" -> type = "list" /\ (waiting_elem => Empty)
           [] t.kind = "," -> type # "NULL" /\ ~waiting_elem
           [] t.kind = ":" -> type = "object" /\ ctx_has_key(p) /\ ~waiting_elem
           [] t.kind = "string" ->
                IF type = "object" THEN ctx_has_key(p) = waiting_elem ELSE waiting_elem
           [] t.kind = "scalar" -> waiting_elem /\ (type = "object" => ctx_has_key(p))
           [] t.kind \in {"unterminated", "junk"} -> FALSE

Empties(kind) == Node(IF kind = "{" THEN "object" ELSE "list", << >>, << >>, << >>)

\* What it does to the stack.
Effect(t) ==
  LET p    == [heap |-> heap, stack |-> stack]
      type == TypeIn(heap, ctx_get_current(p))
      With(block) == [p EXCEPT !.heap = New(@, block)]
  IN  CASE t.kind \in {"{", "["} -> ctx_push(With(Empties(t.kind)), Unused(heap))
        [] t.kind \in {"}", "]"} -> ctx_pop(p)
        [] t.kind \in {",", ":"} -> p
        [] t.kind = "string" ->
             LET s == Truncated(Unescaped(t.chars))
             IN  IF type = "object" /\ ~ctx_has_key(p) THEN ctx_set_key(p, s)
                 ELSE ctx_add(With(Node("string", s, << >>, << >>)), Unused(heap))
        [] t.kind = "scalar" ->
             ctx_add(With(Node("scalar", t.chars, << >>, << >>)), Unused(heap))

Waiting(t) ==
  CASE t.kind = "[" -> waiting_elem
    [] t.kind = ":" -> TRUE
    [] t.kind = "," -> heap[Last(stack).json].type = "list"
    [] OTHER -> FALSE

\* json_parse returns a, or NULL; the blocks are freed before.  The nodes
\* between the first and the last of the stack are forgotten.
Return(a, blocks) ==
  /\ heap' = Without(heap, blocks)
  /\ misfreed' = (misfreed \/ Misfree(heap, blocks))
  /\ overlooked' = [n \in 1 .. Len(stack) - 2 |-> stack[n + 1].json]
  /\ handles' = IF a = NULL THEN << >> ELSE <<a>>
  /\ stack' = << >> /\ root' = NULL /\ waiting_elem' = TRUE
  /\ parsing' = "returned" /\ rest' = << >> /\ count' = 0
  /\ UNCHANGED meant

ReadToken(t) ==
  IF Acceptable(t)
  THEN /\ heap' = Effect(t).heap
       /\ stack' = Effect(t).stack
       /\ waiting_elem' = Waiting(t)
       /\ root' = IF t.kind \in {"}", "]"} /\ Len(stack) = 1
                  THEN Last(stack).json ELSE NULL
       /\ IF meant = Anything THEN count' = count + 1 /\ UNCHANGED rest
                              ELSE rest' = Tail(rest) /\ UNCHANGED count
       /\ UNCHANGED <<parsing, meant, handles, overlooked, misfreed>>
  ELSE Return(NULL, json_free(heap, root) \o ctx_free([heap |-> heap, stack |-> stack]))

json_parse(v) ==
  /\ parsing # "parsing" /\ handles = << >> /\ overlooked = << >>
  /\ parsing' = "parsing" /\ meant' = v
  /\ rest' = IF v = Anything THEN << >> ELSE json_dump_rec(v)
  /\ UNCHANGED <<stack, waiting_elem, root, count, heap_vars, overlooked>>

Read ==
  /\ parsing = "parsing"
  /\ IF meant # Anything THEN rest # << >> /\ ReadToken(Head(rest))
     ELSE count < MaxTokens /\ \E t \in Tokens : ReadToken(t)

EndOfInput ==
  LET p       == [heap |-> heap, stack |-> stack]
      current == ctx_get_current(p)
  IN  /\ parsing = "parsing"
      /\ IF meant = Anything THEN count > 0 ELSE rest = << >>
      /\ CASE root # NULL -> Return(root, << >>)
           [] root = NULL /\ Len(stack) # 1 -> Return(NULL, ctx_free(p))
           [] OTHER ->
                IF heap[current].type \in {"list", "object"}
                THEN Return(NULL, json_free(heap, current)
                                  \o NotNull(<<ctx_get_key(p)>>))
                ELSE Return(current, << >>)

--------------------------------------------------------------------------------
(* The caller and its values. *)

\* What a call does: the heap before its blocks are freed, the blocks, the pointers.
Call(h, blocks, new) ==
  /\ parsing # "parsing"
  /\ heap' = Without(h, blocks)
  /\ misfreed' = (misfreed \/ Misfree(h, blocks))
  /\ handles' = new
  /\ parsing' = "over" /\ meant' = Anything
  /\ IF Len(new) < Len(handles) THEN count' = IF new = << >> THEN 0 ELSE count
     ELSE count < MaxCalls /\ count' = count + 1
  /\ UNCHANGED <<stack, waiting_elem, root, rest, overlooked>>

\* mutant: the copy has the same children
ShallowCopy(h, a) == [heap |-> New(h, h[a]), node |-> Unused(h)]

\* Every block of a copied, keys included, with NULL for the nodes whose members are
\* freed.
Copy(h, a) ==
  LET blocks == ToSet(json_free(h, a))
      to     == [b \in blocks |-> IF h[b] = Freed THEN NULL ELSE b + Max(DOMAIN h)]
      copies == [b \in blocks |->
                   [h[b] EXCEPT !.keys = [i \in DOMAIN @ |-> to[@[i]]],
                                !.children = [i \in DOMAIN @ |-> to[@[i]]]]]
  IN  [heap |-> h @@ [b \in Range(to) \ {NULL} |-> copies[b - Max(DOMAIN h)]],
       node |-> to[a]]

\* The fatal exception of json_dup and json_dump_rec, which look at the type of every
\* child, when a child is NULL: the device starts again.
ReadThroughNull(i) ==
  /\ parsing # "parsing" /\ Incomplete(Tree(heap, handles[i]))
  /\ heap' = << >> /\ handles' = << >> /\ overlooked' = << >>
  /\ parsing' = "over" /\ meant' = Anything /\ count' = 0
  /\ UNCHANGED <<stack, waiting_elem, root, rest, misfreed>>

json_dup(i) ==
  IF Incomplete(Tree(heap, handles[i])) THEN ReadThroughNull(i)
  ELSE LET c == Copy(heap, handles[i])
       IN  /\ Len(handles) < MaxHandles /\ Cardinality(DOMAIN c.heap) <= MaxBlocks
           /\ Call(c.heap, << >>, handles \o NotNull(<<c.node>>))

Free(i) == Call(heap, json_free(heap, handles[i]), RemoveAt(handles, i))

\* What json_dump_rec frees of a node besides itself: keys and children, one by one.
Members(a) == Front(json_free(heap, a))

\* A node whose members are freed.
Strip(a, block) == [heap EXCEPT ![a] = block]

json_dump(i, free_mode) ==
  LET a == handles[i]
  IN  IF Incomplete(Tree(heap, a)) THEN ReadThroughNull(i)
      ELSE \/ /\ free_mode = "JSON_FREE_NOTHING"
              /\ Call(heap, << >>, handles)
           \/ /\ free_mode = "JSON_FREE_MEMBERS"
              /\ Call(Strip(a, Freed), Members(a), handles)
           \/ /\ free_mode = "JSON_FREE_EVERYTHING"
              /\ Call(heap, Members(a) \o <<a>>, RemoveAt(handles, i))

\* Of objects and strings, whose pointers are NULL when their members are freed; the
\* chunks of other nodes would be taken from what their memory holds.
json_stringify(i) ==
  LET a    == handles[i]
      v    == Tree(heap, a)
  IN  /\ heap[a].type \in {"object", "string"}
      /\ IF Incomplete(v) THEN ReadThroughNull(i)
         ELSE Call(Strip(a, Node("stringified", json_dump_rec(v), << >>, << >>)),
                   Members(a), handles)

\* The caller is given the child, or NULL.
json_list_pop_at(i, n) ==
  LET a == handles[i]
  IN  /\ heap[a].type = "list" /\ Len(handles) < MaxHandles
      /\ Call([heap EXCEPT ![a].children = RemoveAt(@, n)], << >>,
              handles \o NotNull(<<heap[a].children[n]>>))

\* The position of a key in the object at a, the first if it is there twice.
KeyAt(a, key) ==
  SelectInSeq(heap[a].keys, LAMBDA k : heap[k].text = key)

json_obj_pop_key(i, key) ==
  LET a == handles[i]
      n == KeyAt(a, key)
  IN  /\ heap[a].type = "object" /\ Len(handles) < MaxHandles
      /\ IF n = 0 THEN Call(heap, << >>, handles)
         ELSE Call([heap EXCEPT ![a].children = RemoveAt(@, n), ![a].keys = RemoveAt(@, n)],
                   <<heap[a].keys[n]>>, handles \o NotNull(<<heap[a].children[n]>>))

json_obj_pop_at(i, n) == json_obj_pop_key(i, heap[heap[handles[i]].keys[n]].text)

Give(i, j) ==
  /\ j # i
  /\ \/ /\ heap[handles[i]].type = "list"
        /\ Call(json_list_append(heap, handles[i], handles[j]), << >>, RemoveAt(handles, j))
     \/ /\ heap[handles[i]].type = "object"
        /\ \E key \in Names :
             Call(json_obj_append(heap, handles[i], key, handles[j]), << >>,
                  RemoveAt(handles, j))

FreeModes == {"JSON_FREE_NOTHING", "JSON_FREE_MEMBERS", "JSON_FREE_EVERYTHING"}

JsonNext ==
  \/ \E v \in Dumps \cup {Anything} : json_parse(v)
  \/ Read \/ EndOfInput
  \/ \E i \in DOMAIN handles :
       \/ json_dup(i) \/ Free(i) \/ json_stringify(i)
       \/ \E mode \in FreeModes : json_dump(i, mode)
       \/ \E n \in DOMAIN heap[handles[i]].children :
            json_list_pop_at(i, n) \/ json_obj_pop_at(i, n)
       \/ \E key \in Names : json_obj_pop_key(i, key)
       \/ \E j \in DOMAIN handles : Give(i, j)

JsonSpec == JsonInit /\ [][JsonNext]_json_vars

--------------------------------------------------------------------------------
(* Properties. *)

\* All pointers there are: the parser's, the caller's, those in nodes, and those
\* that ctx_free passes over.
Pointers ==
  LET In(a) == IF a \in DOMAIN heap THEN heap[a].keys \o heap[a].children ELSE << >>
  IN  NotNull(FlattenSeq([n \in DOMAIN stack |-> <<stack[n].json, stack[n].key>>])
              \o <<root>> \o handles \o overlooked
              \o FlattenSeq([a \in 1 .. Max(DOMAIN heap \cup {1}) |-> In(a)]))

\* Every block has one owner, from which it is freed once: nothing is freed twice or
\* used after it, and nothing is lost, however the input is malformed, except nodes
\* of a rejected input between the outermost open one and the innermost.
OneOwner ==
  /\ ~misfreed
  /\ IsInjective(Pointers) /\ ToSet(Pointers) = DOMAIN heap

\* json.c:1139, "Will free all JSON elements in hierarchy": when an input is rejected
\* nothing of what was read of it is kept.
NothingForgotten == overlooked = << >>

\* The text that json_dump writes for a value is read as that value, with its
\* strings cut.
RECURSIVE CutTree(_)
CutTree(v) ==
  [v EXCEPT !.text = IF v.type = "string" THEN Truncated(@) ELSE @,
            !.children = [n \in DOMAIN @ |-> CutTree(@[n])]]

DumpsParse ==
  parsing = "returned" /\ meant # Anything
    => /\ Len(handles) = 1
       /\ Tree(heap, handles[1]) = CutTree(meant)

\* To the caller, the values are apart: what it does with one, or with a part of
\* one, leaves the others and their texts as they are, whatever parts were freed
\* before; only a copy that lacks such a part takes the others with it, when it is
\* written or copied in turn.
Values ==
  INSTANCE JsonValues WITH values <- [i \in DOMAIN handles |-> Tree(heap, handles[i])]
ValuesApart == Values!ValuesSpec

================================================================================
