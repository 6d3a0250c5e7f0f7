------------------------------ MODULE MemoryRanges ------------------------------
(***************************************************************************)
(* beskar-core's MemoryRanges: the free memory of the frame allocator, of the *)
(* page allocators and of the bootloader, as a fixed array of inclusive       *)
(* ranges, of which the first `used' count: a sequence of [start, end].        *)
(***************************************************************************)
EXTENDS Integers, Sequences, FiniteSets, SequencesExt

CONSTANTS MaxAddr      \* u64::MAX

SatInc(a) == IF a < MaxAddr THEN a + 1 ELSE a

Lesser(a, b) == IF a < b THEN a ELSE b
Greater(a, b) == IF a > b THEN a ELSE b

NewRange(start, end) == [start |-> start, end |-> end]

\* delete: the last range takes the place of the deleted one.
Delete(rs, i) ==
    LET last == Len(rs)
    IN  SubSeq([rs EXCEPT ![i] = rs[last]], 1, last - 1)

\* create: dropped when the array of N is full.
Create(rs, r, N) == IF Len(rs) < N THEN Append(rs, r) ELSE rs

Adjoin(r, c) == r.start <= SatInc(c.end) /\ c.start <= SatInc(r.end)

\* insert: merges with every range it touches; each round deletes one or moves on.
Insert(rs, range, N) ==
    LET f[k \in 0..Len(rs)] ==
          IF k = 0 THEN [rs |-> rs, r |-> range, i |-> 1]
          ELSE LET s == f[k - 1]
                   c == s.rs[s.i]
               IN  IF Adjoin(s.r, c)
                   THEN [rs |-> Delete(s.rs, s.i), i |-> s.i,
                         r |-> NewRange(Lesser(s.r.start, c.start), Greater(s.r.end, c.end))]
                   ELSE [s EXCEPT !.i = @ + 1]
        done == f[Len(rs)]
    IN  IF range.start > range.end THEN rs ELSE Create(done.rs, done.r, N)

\* trim_remove: the second half of a split is lost when the array is full.
TrimRemove(rs, i, t, N) ==
    LET r == rs[i]
    IN  CASE t.start <= r.start /\ t.end >= r.end -> Delete(rs, i)
          [] t.start <= r.start /\ t.end < r.end -> [rs EXCEPT ![i].start = t.end + 1]
          [] t.start > r.start /\ t.end >= r.end -> [rs EXCEPT ![i].end = t.start - 1]
          [] OTHER -> Create([rs EXCEPT ![i].end = t.start - 1], NewRange(t.end + 1, r.end), N)

NoAddr == -1

AlignOffset(a, align) == (align - (a % align)) % align

\* The places the requested size fits in, one per range and requested range; a
\* request (strict) must overlap the range in more than one byte.
Fits(rs, size, align, req, strict) ==
    LET from(i, j) == Greater(rs[i].start, req[j].start)
        to(i, j) == Lesser(rs[i].end, req[j].end)
        start(i, j) == from(i, j) + AlignOffset(from(i, j), align)
        end(i, j) == start(i, j) + size - 1
    IN  {[index |-> i, req |-> j, start |-> start(i, j), end |-> end(i, j),
          waste |-> AlignOffset(from(i, j), align) + (rs[i].end - end(i, j))] :
           <<i, j>> \in {<<k, l>> \in (DOMAIN rs) \X (DOMAIN req) :
                         end(k, l) <= to(k, l) /\ (strict => from(k, l) < to(k, l))}}

\* The first, in the order of the loops, of the places that waste least; the range is
\* trimmed there.
TakeBestFit(rs, fits, N) ==
    LET best == CHOOSE f \in fits : \A g \in fits :
                  \/ f.waste < g.waste
                  \/ f.waste = g.waste /\ f.index < g.index
                  \/ f.waste = g.waste /\ f.index = g.index /\ f.req <= g.req
    IN  IF fits = {} THEN [addr |-> NoAddr, rs |-> rs]
        ELSE [addr |-> best.start,
              rs |-> TrimRemove(rs, best.index, NewRange(best.start, best.end), N)]

Allocate(rs, size, align, N) ==
    IF size = 0 THEN [addr |-> NoAddr, rs |-> rs]
    ELSE TakeBestFit(rs, Fits(rs, size, align, <<NewRange(0, MaxAddr)>>, FALSE), N)

AllocateReq(rs, size, align, req, N) ==
    IF size = 0 THEN [addr |-> NoAddr, rs |-> rs]
    ELSE TakeBestFit(rs, Fits(rs, size, align, req, TRUE), N)

Addrs(rs) == UNION {rs[i].start .. rs[i].end : i \in DOMAIN rs}

\* What insert keeps: no two ranges overlap or touch.
Canonical(rs) ==
    /\ \A i \in DOMAIN rs : rs[i].start <= rs[i].end
    /\ \A i, j \in DOMAIN rs : i # j => ~Adjoin(rs[i], rs[j])
=================================================================================
