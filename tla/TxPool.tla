------------------------------- MODULE TxPool -------------------------------
(***************************************************************************)
(* The transaction pool of core/tx_pool.go with the lists of               *)
(* core/tx_list.go and the journal of core/tx_journal.go.  Every operation *)
(* runs under pool.mu, so an operation is one action: a function from the  *)
(* pool before to the pool after it.  What interleaves is the operations   *)
(* themselves: submissions, new chain heads, the change of the minimum     *)
(* price that follows a head in a critical section of its own, the         *)
(* eviction and journal tickers, and a restart.                            *)
(*                                                                         *)
(* A transaction is its sender, nonce and gas price; its cost is its price *)
(* and stands for cost and gas alike (both are compared with a limit of    *)
(* the head).  A join transaction is one of price 0.  A loop over the      *)
(* transactions of a list treats different nonces and is a step on sets.   *)
(* The heap of prices is the set of transactions ordered by price here;    *)
(* module PricedList has the heap itself.                                  *)
(***************************************************************************)
EXTENDS Integers, Sequences, FiniteSets, SequencesExt

CONSTANTS
    Accounts,       \* senders
    Prices,         \* gas prices a transaction can have
    MaxNonce,       \* bound: nonces are 0..MaxNonce
    PriceLimit,     \* config.PriceLimit: the minimum price at the start
    MinPrices,      \* minimum prices that the otprn of a block can set
    Balances,       \* balances an account can have at a head
    Spenders,       \* bound: accounts whose balance changes
    MaxBlocks,      \* bound: length of the chain
    MaxReorg,       \* bound: blocks a new head may abandon
    BlockTxs,       \* bound: transactions of a block
    AccountSlots, GlobalSlots, AccountQueue, GlobalQueue, PriceBump,
    LocalSets,      \* sets of accounts that config.Locals can be
    LateLocals,     \* other accounts whose transactions come by AddLocal
    Faults          \* subset of {"restart", "evict"}

ASSUME BoundsAssumption ==
    /\ {MaxNonce, MaxBlocks, MaxReorg, BlockTxs, AccountQueue, GlobalQueue, PriceBump, PriceLimit} \subseteq Nat
    /\ {AccountSlots, GlobalSlots} \subseteq Nat \ {0}
    /\ MinPrices # {} /\ Balances # {}

Tx == [from: Accounts, nonce: 0..MaxNonce, price: Prices]

VARIABLES
    ConfigLocals, \* config.Locals, the same for ever
    pool,       \* the TxPool
    chain,      \* the canonical chain: the sets of transactions of its blocks
    balance,    \* balances in pool.currentState
    gasPrice,   \* pool.gasPrice
    due,        \* price UpdateGasPrice will set; -1 between two heads
    journal     \* transactions in the journal file

vars == <<pool, chain, balance, gasPrice, due, journal>>

\* Go walks maps, and heaps and sorts break ties, in no particular order: a
\* permutation of the accounts, drawn per operation.
Orders == SetToSeqs(Accounts)

rank(ord, a) == CHOOSE i \in 1..Len(ord) : ord[i] = a

of(S, a) == {t \in S : t.from = a}

-----------------------------------------------------------------------------
(* The lists of pool.pending and pool.queue, as sets of transactions with  *)
(* at most one per account and nonce.  Module TxList has their heap, cache *)
(* and cost cap.                                                           *)
same(t, u) == t.from = u.from /\ t.nonce = u.nonce

Overlaps(L, t) == \E u \in L : same(t, u)

Inserts(L, t) ==
    \A old \in L : same(t, old) =>
        /\ t.price > old.price
        /\ t.price >= (old.price * (100 + PriceBump)) \div 100

Replaced(L, S) == {old \in L : Overlaps(S, old)}

\* The run of nonces from the lowest one of a, if that is not above start.
Ready(L, a, start) ==
    LET nonces == {t.nonce : t \in of(L, a)}
    IN {t \in of(L, a) : /\ \E n \in nonces : n <= start
                         /\ Min(nonces) .. t.nonce \subseteq nonces}

\* Cap(threshold): the transactions of the highest nonces of a.
Cap(L, a, threshold) ==
    {t \in of(L, a) : Cardinality({u \in of(L, a) : u.nonce < t.nonce}) >= threshold}

-----------------------------------------------------------------------------
(* The chain as the pool sees it, and the state of a head.                 *)
StateNonce(c, a) == Cardinality(of(UNION Range(c), a))

Status(c, b) == [nonce |-> [a \in Accounts |-> StateNonce(c, a)], balance |-> b]

\* What a head makes useless: too old, or unpayable.
Old(L, s) == {t \in L : t.nonce < s.nonce[t.from]}
Unpayable(L, s) == {t \in L : t.price > s.balance[t.from]}

\* The blocks that can follow c.
Blocks(c) ==
    LET next(a) == StateNonce(c, a)
        near == {t \in Tx : t.nonce \in next(t.from) .. next(t.from) + BlockTxs - 1}
    IN {b \in UNION {kSubset(k, near) : k \in 0..BlockTxs} :
          \A a \in Accounts :
             {t.nonce : t \in of(b, a)} = next(a) .. next(a) + Cardinality(of(b, a)) - 1}

-----------------------------------------------------------------------------
(* Helpers of the pool p.                                                  *)
beat(p, a) ==
    [p EXCEPT !.beats = Append(SelectSeq(@, LAMBDA b : b # a), a), !.aged = @ \ {a}]

\* An account without pending transactions has no heartbeat.
unbeat(p) ==
    LET busy == {t.from : t \in p.pending}
    IN [p EXCEPT !.beats = SelectSeq(@, LAMBDA b : b \in busy), !.aged = @ \cap busy]

\* Variant: the transaction that is replaced stays in the lookup table.
enqueueTxLeak(p, S) ==
    LET in == {t \in S : Inserts(p.queue, t)}
    IN [p EXCEPT !.queue = (@ \ Replaced(@, in)) \cup in, !.all = @ \cup in]

\* Transactions of different nonces go to the queue; one that the queue has a
\* better one for stays in the lookup table alone.
enqueueTx(p, S) ==
    LET in == {t \in S : Inserts(p.queue, t)}
    IN [p EXCEPT !.queue = (@ \ Replaced(@, in)) \cup in,
                 !.all = (@ \ Replaced(p.queue, in)) \cup in]

\* promoteTx for a run of nonces of a, the lowest first.
promoteTx(p, a, run) ==
    LET in  == {t \in run : Inserts(p.pending, t)}
        old == Replaced(p.pending, in)
        q   == [p EXCEPT !.pending = (@ \ old) \cup in, !.all = (@ \ (run \cup old)) \cup in]
    IN IF in = {} THEN q
       ELSE [beat(q, a) EXCEPT !.nonce[a] = Max({t.nonce : t \in in}) + 1]

\* Variant: what stood above a removed transaction stays pending.
removeTxGap(p, S) ==
    [p EXCEPT !.pending = @ \ S, !.all = @ \ S, !.queue = @ \ S]

\* removeTx for every transaction of S: the pending ones above the lowest
\* removed one of an account go back to the queue.
removeTx(p, S) ==
    LET hit  == {t \in S : Overlaps(p.pending, t)}
        cut  == {t \in p.pending : \E u \in hit : u.from = t.from /\ u.nonce <= t.nonce}
        q    == [p EXCEPT !.pending = @ \ cut, !.all = @ \ S, !.queue = @ \ S,
                          !.nonce = [a \in Accounts |-> Min({@[a]} \cup {t.nonce : t \in of(hit, a)})]]
    IN IF hit = {} THEN [p EXCEPT !.all = @ \ S, !.queue = @ \ S]
       ELSE enqueueTx(unbeat(q), cut \ S)

-----------------------------------------------------------------------------
(* promoteExecutables: first every account, then the two global limits.    *)
promoteAccount(p, s, a) ==
    LET gone == of(Old(p.queue, s) \cup Unpayable(p.queue, s), a)
        run  == Ready(p.queue \ gone, a, p.nonce[a])
        over == IF a \in p.locals THEN {} ELSE Cap(p.queue \ (gone \cup run), a, AccountQueue)
    IN promoteTx([p EXCEPT !.queue = @ \ (gone \cup run \cup over), !.all = @ \ (gone \cup over)], a, run)

size(L, a) == Cardinality(of(L, a))

\* Take one from each offender until the limit holds or the last is at floor.
RECURSIVE shrink(_, _, _)
shrink(L, offenders, floor) ==
    IF Cardinality(L) > GlobalSlots /\ size(L, Last(offenders)) > floor
      THEN shrink(L \ UNION {Cap(L, a, size(L, a) - 1) : a \in Range(offenders)}, offenders, floor)
      ELSE L

\* Pending after the spammers, largest first, are cut.
RECURSIVE equalize(_, _, _)
equalize(L, offenders, spammers) ==
    IF Cardinality(L) > GlobalSlots /\ spammers # <<>>
      THEN equalize(IF offenders = <<>> THEN L ELSE shrink(L, offenders, size(L, Head(spammers))),
                    Append(offenders, Head(spammers)), Tail(spammers))
      ELSE IF offenders = <<>> THEN L ELSE shrink(L, offenders, AccountSlots)

\* The accounts of S by decreasing key, ties in the order ord.
byKey(S, key, ord) ==
    LET ahead(a) == {b \in S : key[b] > key[a] \/ (key[b] = key[a] /\ rank(ord, b) < rank(ord, a))}
    IN [i \in 1..Cardinality(S) |-> CHOOSE a \in S : Cardinality(ahead(a)) = i - 1]

limitPending(p, ord) ==
    LET spammers == {a \in Accounts \ p.locals : size(p.pending, a) > AccountSlots}
        kept == equalize(p.pending, <<>>, byKey(spammers, [a \in spammers |-> size(p.pending, a)], ord))
        gone == p.pending \ kept
    IN IF gone = {} THEN p
       ELSE [p EXCEPT !.pending = kept, !.all = @ \ gone,
                      !.nonce = [a \in Accounts |-> Min({@[a]} \cup {t.nonce : t \in of(gone, a)})]]

\* The account with the most recent heartbeat loses first; one without any has
\* the zero time.
limitQueue(p, ord) ==
    LET time == [a \in Accounts |-> Max({0} \cup {i \in DOMAIN p.beats : p.beats[i] = a})]
        line == byKey(Accounts \ p.locals, time, ord)
        ahead(i) == Cardinality({t \in p.queue : t.from \in {line[j] : j \in 1..(i - 1)}})
        left(i) == Cardinality(p.queue) - GlobalQueue - ahead(i)
        drop(i) == IF left(i) <= 0 THEN {} ELSE Cap(p.queue, line[i], Max({0, size(p.queue, line[i]) - left(i)}))
    IN IF Cardinality(p.queue) <= GlobalQueue THEN p
       ELSE removeTx(p, UNION {drop(i) : i \in DOMAIN line})

promoteExecutables(p, s, ord, accounts) ==
    LET busy == SelectSeq(ord, LAMBDA a : a \in accounts /\ of(p.queue, a) # {})
        q[i \in 0..Len(busy)] == IF i = 0 THEN p ELSE promoteAccount(q[i - 1], s, busy[i])
    IN limitQueue(limitPending(q[Len(busy)], ord), ord)

-----------------------------------------------------------------------------
(* add, and addTxsLocked.                                                  *)
validateTx(t, s, minPrice) ==
    /\ s.balance[t.from] >= t.price
    /\ s.nonce[t.from] <= t.nonce
    /\ t.price = 0 \/ t.price >= minPrice

worse(t, u, ord) ==
    \/ t.price < u.price
    \/ t.price = u.price /\ t.nonce > u.nonce
    \/ t.price = u.price /\ t.nonce = u.nonce /\ rank(ord, t.from) < rank(ord, u.from)

Underpriced(p, t) ==
    t.from \notin p.locals /\ \A u \in p.all : u.price >= t.price

\* Variant: the accounts that are local are not spared.
DiscardAny(p, count, ord) ==
    {t \in p.all : Cardinality({u \in p.all : worse(u, t, ord)}) < count}

\* The count worst transactions of accounts that are not local.
Discard(p, count, ord) ==
    LET remote == {t \in p.all : t.from \notin p.locals}
    IN {t \in remote : Cardinality({u \in remote : worse(u, t, ord)}) < count}

\* Variant: one too few is discarded.
makeRoomLess(p, ord) ==
    removeTx(p, Discard(p, Cardinality(p.all) - (GlobalSlots + GlobalQueue), ord))

makeRoom(p, ord) ==
    removeTx(p, Discard(p, Cardinality(p.all) - (GlobalSlots + GlobalQueue - 1), ord))

\* Variant: a replacement of a pending transaction is not journaled.
insertUnlogged(p, t, local) ==
    LET direct == Overlaps(p.pending, t)
        list   == IF direct THEN p.pending ELSE p.queue
        old    == Replaced(list, {t})
        locals == IF local /\ ~ direct THEN p.locals \cup {t.from} ELSE p.locals
    IN IF ~ Inserts(list, t) THEN [pool |-> p, new |-> FALSE, journaled |-> FALSE]
       ELSE [pool |-> IF direct THEN [p EXCEPT !.pending = (@ \ old) \cup {t}, !.all = (@ \ old) \cup {t}]
                      ELSE [enqueueTx(p, {t}) EXCEPT !.locals = locals],
             new |-> old = {}, journaled |-> ~ direct /\ t.from \in locals]

\* Into the pending list if it replaces one there, else into the queue.
insert(p, t, local) ==
    LET direct == Overlaps(p.pending, t)
        list   == IF direct THEN p.pending ELSE p.queue
        old    == Replaced(list, {t})
        locals == IF local /\ ~ direct THEN p.locals \cup {t.from} ELSE p.locals
    IN IF ~ Inserts(list, t) THEN [pool |-> p, new |-> FALSE, journaled |-> FALSE]
       ELSE [pool |-> IF direct THEN [p EXCEPT !.pending = (@ \ old) \cup {t}, !.all = (@ \ old) \cup {t}]
                      ELSE [enqueueTx(p, {t}) EXCEPT !.locals = locals],
             new |-> old = {}, journaled |-> t.from \in locals]

add(p, t, local, s, minPrice, ord) ==
    LET full == Cardinality(p.all) >= GlobalSlots + GlobalQueue
    IN IF t \in p.all \/ ~ validateTx(t, s, minPrice) \/ (full /\ Underpriced(p, t))
         THEN [pool |-> p, new |-> FALSE, journaled |-> FALSE]
         ELSE insert(IF full THEN makeRoom(p, ord) ELSE p, t, local)

\* The pool and the journal after txs are added one by one, and then the
\* accounts that got something new are promoted.
RECURSIVE addTxsLocked(_, _, _, _, _, _, _, _)
addTxsLocked(p, file, dirty, txs, local, s, minPrice, ord) ==
    IF txs = <<>>
      THEN [pool |-> IF dirty = {} THEN p ELSE promoteExecutables(p, s, ord, dirty), journal |-> file]
      ELSE LET t == Head(txs)
               r == add(p, t, local, s, minPrice, ord)
           IN addTxsLocked(r.pool, IF r.journaled THEN file \cup {t} ELSE file,
                           IF r.new THEN dirty \cup {t.from} ELSE dirty,
                           Tail(txs), local, s, minPrice, ord)

addTxs(p, file, txs, local, s, minPrice, ord) ==
    addTxsLocked(p, file, {}, txs, local, s, minPrice, ord)

-----------------------------------------------------------------------------
(* reset: the state of the new head, the transactions of abandoned blocks, *)
(* then the pending and the queued transactions.                           *)
demoteUnexecutables(p, s) ==
    LET old  == Old(p.pending, s)
        poor == Unpayable(p.pending, s) \ old
        inv  == {t \in p.pending \ (old \cup poor) : \E r \in poor : r.from = t.from /\ r.nonce < t.nonce}
        rest == p.pending \ (old \cup poor \cup inv)
        gap  == {t \in rest : \A u \in rest : ~ (u.from = t.from /\ u.nonce = s.nonce[t.from])}
    IN enqueueTx(unbeat([p EXCEPT !.pending = rest \ gap, !.all = @ \ (old \cup poor)]), inv \cup gap)

nextNonces(p) ==
    [p EXCEPT !.nonce = [a \in Accounts |-> IF of(p.pending, a) = {} THEN @[a]
                           ELSE Max({t.nonce : t \in of(p.pending, a)}) + 1]]

reset(p, file, s, reinject, minPrice, ord) ==
    LET r == addTxs([p EXCEPT !.nonce = s.nonce], file, reinject, FALSE, s, minPrice, ord)
    IN [pool |-> promoteExecutables(nextNonces(demoteUnexecutables(r.pool, s)), s, ord, Accounts),
        journal |-> r.journal]

-----------------------------------------------------------------------------
newPool(s) ==
    [pending |-> {}, queue |-> {}, all |-> {}, nonce |-> s.nonce, locals |-> ConfigLocals, beats |-> <<>>, aged |-> {}]

\* local(): the transactions of local accounts.
localTxs(p) == {t \in p.pending \cup p.queue : t.from \in p.locals}

Init ==
    /\ ConfigLocals \in LocalSets
    /\ chain = <<>>
    /\ balance = [a \in Accounts |-> Max(Balances)]
    /\ gasPrice = PriceLimit
    /\ pool = newPool(Status(<<>>, balance))
    /\ due = -1
    /\ journal = {}

\* AddLocal and AddRemote.
Submit(t, local, ord) ==
    LET r == addTxs(pool, journal, <<t>>, local, Status(chain, balance), gasPrice, ord) IN
    /\ t \notin pool.all
    /\ pool' = r.pool
    /\ journal' = r.journal
    /\ UNCHANGED <<chain, balance, gasPrice, due>>

\* Abandoned transactions, newest block first, that the new block lacks.
Reinject(depth, block, ord) ==
    LET part(i, a) == of(chain[Len(chain) + 1 - i] \ block, a)
        nonces(i, a) == [n \in 1..Cardinality(part(i, a)) |->
                           CHOOSE t \in part(i, a) : Cardinality({u \in part(i, a) : u.nonce < t.nonce}) = n - 1]
    IN FlattenSeq([i \in 1..depth |-> FlattenSeq([j \in DOMAIN ord |-> nonces(i, ord[j])])])

\* A ChainHeadEvent: the head gives up depth blocks for block.
NewHead(depth, block, bal, price, ord) ==
    LET new == Append(SubSeq(chain, 1, Len(chain) - depth), block)
        r   == reset(pool, journal, Status(new, bal), Reinject(depth, block, ord), gasPrice, ord)
    IN
    /\ due = -1
    /\ chain' = new
    /\ balance' = bal
    /\ pool' = r.pool
    /\ journal' = r.journal
    /\ due' = price
    /\ UNCHANGED gasPrice

\* UpdateGasPrice after the event, under the lock again.
SetGasPrice ==
    /\ due # -1
    /\ gasPrice' = due
    /\ due' = -1
    /\ pool' = removeTx(pool, {t \in pool.all : t.price < due /\ t.from \notin pool.locals})
    /\ UNCHANGED <<chain, balance, journal>>

\* The oldest k heartbeats become older than config.Lifetime.
Age(k) ==
    /\ "evict" \in Faults
    /\ pool' = [pool EXCEPT !.aged = Range(SubSeq(pool.beats, 1, k))]
    /\ UNCHANGED <<chain, balance, gasPrice, due, journal>>

\* The eviction ticker.  An account without heartbeat has the zero time.
Evict ==
    LET idle == {a \in Accounts \ pool.locals : a \in pool.aged \/ a \notin Range(pool.beats)} IN
    /\ "evict" \in Faults
    /\ pool' = removeTx(pool, {t \in pool.queue : t.from \in idle})
    /\ UNCHANGED <<chain, balance, gasPrice, due, journal>>

\* The journal ticker.
Rotate ==
    /\ "restart" \in Faults
    /\ journal' = localTxs(pool)
    /\ UNCHANGED <<pool, chain, balance, gasPrice, due>>

\* The process stops anywhere; NewTxPool loads the journal, where a replacement
\* stands behind what it replaced, by AddLocals and rotates it.
Restart(ord) ==
    LET s == Status(chain, balance)
        ahead(t) == {u \in journal : u.price < t.price \/ (u.price = t.price /\ worse(u, t, ord))}
        file == [i \in 1..Cardinality(journal) |-> CHOOSE t \in journal : Cardinality(ahead(t)) = i - 1]
        r == addTxs(newPool(s), journal, file, TRUE, s, PriceLimit, ord)
    IN
    /\ "restart" \in Faults
    /\ pool' = r.pool
    /\ journal' = localTxs(r.pool)
    /\ gasPrice' = PriceLimit
    /\ due' = -1
    /\ UNCHANGED <<chain, balance>>

Next ==
    \/ \E t \in Tx, ord \in Orders : t.from \in ConfigLocals \cup LateLocals /\ Submit(t, TRUE, ord)
    \/ \E t \in Tx, ord \in Orders : t.from \notin ConfigLocals /\ Submit(t, FALSE, ord)
    \/ \E depth \in 0..MaxReorg :
          /\ due = -1 /\ depth <= Len(chain) /\ Len(chain) - depth < MaxBlocks
          /\ \E block \in Blocks(SubSeq(chain, 1, Len(chain) - depth)), price \in MinPrices, ord \in Orders,
                bal \in {f \in [Accounts -> Balances] : \A a \in Accounts \ Spenders : f[a] = balance[a]} :
                NewHead(depth, block, bal, price, ord)
    \/ SetGasPrice
    \/ \E k \in 0..Len(pool.beats) : Age(k)
    \/ Evict
    \/ Rotate
    \/ \E ord \in Orders : Restart(ord)

Spec == Init /\ [][Next /\ UNCHANGED ConfigLocals]_<<vars, ConfigLocals>>

-----------------------------------------------------------------------------
Nonces(L, a) == {t.nonce : t \in of(L, a)}

\* The lookup table holds exactly the pending and the queued transactions, and
\* no nonce of an account is in both lists (Status and removeTx tell the lists
\* apart by nonce), although every operation moves transactions between lists
\* and updates the table on the way.
Consistent ==
    /\ pool.all = pool.pending \cup pool.queue
    /\ \A t \in pool.pending, u \in pool.queue : ~ same(t, u)

\* Pending are transactions that can be processed: per account one for every
\* nonce from the state's to the next nonce handed out, each payable at the head.
Executable ==
    \A a \in Accounts :
        /\ Nonces(pool.pending, a) = StateNonce(chain, a) .. (pool.nonce[a] - 1)
        /\ \A t \in of(pool.pending, a) : t.price <= balance[a]

\* A transaction of a local account leaves the pool only when it is too old or
\* unpayable at the head, or another of its nonce took its place: no limit,
\* price or eviction removes it, and a restart only if it came before its account
\* was local and is not in the journal.
LocalKept ==
    [][\A t \in pool.all \ pool'.all :
          \/ t.from \notin pool.locals
          \/ t \notin journal /\ \E ord \in Orders : Restart(ord)
          \/ t.nonce < StateNonce(chain', t.from)
          \/ t.price > balance'[t.from]
          \/ \E u \in pool'.all : u.from = t.from /\ u.nonce = t.nonce]_vars

\* Every transaction of a configured local account that is in the pool is in the
\* journal, so that a restart loads it again.
Journaled ==
    \A t \in pool.all : t.from \in ConfigLocals => t \in journal

\* The pool never holds more transactions of other than local accounts than its
\* two global limits together, although the minimum allowance of the accounts
\* keeps pending transactions beyond the first of them.
Bounded ==
    Cardinality({t \in pool.all : t.from \notin pool.locals}) <= GlobalSlots + GlobalQueue

=============================================================================
