--------------------------- MODULE VmmInvariants ----------------------------
(***************************************************************************)
(* The invariants of Vmm are inductive: the shape of its tables (IInv), that *)
(* they form one tree for each space (TInv), and where the call in progress *)
(* is (WInv).                                                              *)
(***************************************************************************)
EXTENDS VmmBase

-----------------------------------------------------------------------------
(***************************************************************************)
(* Steps that leave the tables alone                                       *)
(***************************************************************************)

\* Before any call there are no tables.
LEMMA InitIInv == Init => IInv
<1> SUFFICES ASSUME Init PROVE IInv
  OBVIOUS
<1>1. TypeInv
  BY VmmAssumption DEF Init, TypeInv, TypeOK, NoCall
<1>2. Shape([f \in Frames |-> 1])
  BY VmmAssumption DEF Init, Shape, LevelsOK, LinksOK, OneLink, UserOK, Tables
<1>3. [f \in Frames |-> 1] \in [Frames -> 0 .. 4]
  OBVIOUS
<1> QED BY <1>1, <1>2, <1>3 DEF IInv

\* The shape does not depend on the call, except for the level it is at: it
\* survives a return, and the start of a walk at a root.
LEMMA SameTables ==
    ASSUME NEW lv \in [Frames -> 0 .. 4], Shape(lv),
           UNCHANGED <<mem, free, pml4>>,
           level' = 0 \/ (level' = 1 /\ lv[at'] = 1)
    PROVE  Shape(lv)'
<1> USE DEF Tables
<1>1. LevelsOK(lv)'
  BY DEF Shape, LevelsOK
<1>2. LinksOK(lv)' /\ OneLink(lv)'
  BY DEF Shape, LinksOK, OneLink, IsLink, Target
<1>3. UserOK(lv)'
  <2> SUFFICES ASSUME NEW t \in Tables, NEW ix \in Index, IsLink(lv, t, ix)
               PROVE  /\ \A jx \in Index :
                            GrantsUser(Target(t, ix), jx) => "User" \in mem[t][ix].flags
                      /\ ~ (level' # 0 /\ Target(t, ix) = at')
    BY DEF UserOK, IsLink, Target, GrantsUser
  <2>1. lv[t] \in 1 .. 4 /\ lv[Target(t, ix)] = lv[t] + 1
    BY DEF Shape, LevelsOK, LinksOK
  <2>2. lv[Target(t, ix)] # 1
    BY <2>1
  <2> QED BY <2>2, SMTT(30) DEF Shape, UserOK
<1> QED BY <1>1, <1>2, <1>3 DEF Shape

\* A call that returns leaves the tables alone.
LEMMA ReturnStep ==
    ASSUME IInv, NEW status \in {"ok", "fail"}, Return(status), UNCHANGED <<mem, free, pml4>>,
           call.status = "running"
    PROVE  IInv'
<1>1. TypeInv'
  BY Running DEF IInv, TypeInv, TypeOK, Return, CallType, NoCall
<1>2. PICK lv \in [Frames -> 0 .. 4] : Shape(lv)
  BY DEF IInv
<1>3. Shape(lv)'
  BY <1>2, SameTables DEF Return
<1> QED BY <1>1, <1>3 DEF IInv

\* The checks of map_page and the start of its walk at the root.
LEMMA EnterStep == ASSUME IInv, enter_page PROVE IInv'
<1>1. call.status = "running" /\ UNCHANGED <<mem, free, pml4>>
  BY DEF enter_page
<1>2. CASE ~ PageOK
  BY <1>1, <1>2, ReturnStep DEF enter_page
<1>3. CASE PageOK
  <2>1. level' = 1 /\ at' = pml4[call.space] /\ call' = call /\ at' # NoTable
    BY <1>3 DEF enter_page, PageOK
  <2>2. call \in CallType /\ LeafLevel \in {3, 4}
    BY <1>1, Running DEF IInv
  <2>3. call.space \in Space
    BY <2>2 DEF CallType
  <2>4. TypeInv'
    BY <1>1, <2>1, <2>2, <2>3 DEF IInv, TypeInv, TypeOK, LeafLevel
  <2>5. PICK lv \in [Frames -> 0 .. 4] : Shape(lv)
    BY DEF IInv
  <2>6. lv[at'] = 1
    BY <2>1, <2>3, <2>5 DEF Shape, LevelsOK
  <2>7. Shape(lv)'
    BY <1>1, <2>1, <2>5, <2>6, SameTables
  <2> QED BY <2>4, <2>7 DEF IInv
<1> QED BY <1>2, <1>3

\* A call starts, or is refused, from a state in which none is running.
LEMMA StartStep ==
    ASSUME IInv, Idle, UNCHANGED <<mem, free, pml4, level, at>>,
           call' = NoCall \/ call' \in CallType
    PROVE  IInv'
<1>1. level = 0
  BY DEF IInv, TypeInv, Idle
<1>2. TypeInv'
  BY <1>1 DEF IInv, TypeInv, TypeOK, CallType, NoCall
<1>3. PICK lv \in [Frames -> 0 .. 4] : Shape(lv)
  BY DEF IInv
<1>4. Shape(lv)'
  BY <1>1, <1>3, SameTables
<1> QED BY <1>2, <1>4 DEF IInv

\* The calls of map_page, map_range and their large forms.
LEMMA CallStep ==
    ASSUME IInv, NEW s \in Space, NEW page \in {kPageSize, kLargePageSize},
           \/ \E a \in PageArgs \cup LargeArgs : CallPage(s, page, a)
           \/ \E a \in RangeArgs \cup LargeRangeArgs : CallRange(s, page, a)
    PROVE  IInv'
<1>1. page \in Nat
  BY PagingAssumption DEF kLargePageSize, Span
<1>2. ASSUME NEW a \in PageArgs \cup LargeArgs, CallPage(s, page, a)
      PROVE  IInv'
  <2>1. call' \in CallType
    BY <1>1, <1>2, ArgsAssumption DEF CallPage, Start, CallType
  <2> QED BY <1>2, <2>1, StartStep DEF CallPage
<1>3. ASSUME NEW a \in RangeArgs \cup LargeRangeArgs, CallRange(s, page, a)
      PROVE  IInv'
  <2>1. call' = NoCall \/ call' \in CallType
    BY <1>3, ArgsAssumption DEF CallRange, Start, CallType
  <2> QED BY <1>3, <2>1, StartStep DEF CallRange
<1> QED BY <1>2, <1>3

-----------------------------------------------------------------------------
(***************************************************************************)
(* Steps that change the tables                                            *)
(***************************************************************************)

\* Giving a frame a level keeps the type of an assignment.
LEMMA LevelGiven ==
    ASSUME NEW lv \in [Frames -> 0 .. 4], NEW n, NEW k \in 0 .. 4
    PROVE  [lv EXCEPT ![n] = k] \in [Frames -> 0 .. 4]
BY Zenon

\* A table that is zeroed for a new root has no links and is the target of none.
LEMMA RootShape ==
    ASSUME NEW lv \in [Frames -> 0 .. 4], Shape(lv), TypeInv, level = 0, level' = 0,
           NEW n \in free, n \in Frames, n \in Pool,
           mem' = [mem EXCEPT ![n] = ZeroTable], free' = free \ {n},
           NEW s \in Space, pml4' = [pml4 EXCEPT ![s] = n]
    PROVE  Shape([lv EXCEPT ![n] = 1])'
<1> DEFINE lw == [lv EXCEPT ![n] = 1]
<1>1. /\ Tables' = Tables \cup {n} /\ n \notin Tables
      /\ Tables \subseteq Frames
  BY VmmAssumption DEF Tables, TypeInv, TypeOK
<1>2. /\ \A t \in Tables : lw[t] = lv[t]
      /\ lw[n] = 1
  BY <1>1
<1>3. \A t \in Tables : mem'[t] = mem[t]
  BY <1>1 DEF TypeInv, TypeOK
<1>4. \A ix \in Index : ~ IsPresent(mem'[n][ix]) /\ ~ IsHuge(mem'[n][ix])
  BY DEF TypeInv, TypeOK, ZeroTable, NoEntry, IsPresent, IsHuge
<1>5. \A r \in Space : pml4'[r] # NoTable =>
          pml4'[r] = n \/ (pml4'[r] = pml4[r] /\ pml4[r] \in Tables)
  BY DEF TypeInv, TypeOK, Tables
<1> HIDE DEF lw
<1>6. ASSUME NEW t \in Tables', NEW ix \in Index, IsLink(lw, t, ix)'
      PROVE  /\ t \in Tables /\ IsLink(lv, t, ix) /\ Target(t, ix)' = Target(t, ix)
             /\ Target(t, ix) \in Tables /\ mem'[t] = mem[t]
             /\ mem'[Target(t, ix)] = mem[Target(t, ix)]
  <2>1. t \in Tables
    BY <1>1, <1>4, <1>6 DEF IsLink
  <2>2. IsLink(lv, t, ix) /\ Target(t, ix)' = Target(t, ix) /\ mem'[t] = mem[t]
    BY <1>2, <1>3, <1>6, <2>1 DEF IsLink, Target
  <2>3. Target(t, ix) \in Tables
    BY <2>1, <2>2 DEF Shape, LinksOK
  <2> QED BY <1>3, <2>1, <2>2, <2>3
<1>7. LevelsOK(lw)'
  BY <1>1, <1>2, <1>5 DEF Shape, LevelsOK
<1>8. LinksOK(lw)'
  <2> SUFFICES ASSUME NEW t \in Tables', NEW ix \in Index
               PROVE  /\ lw[t] < 3 => ~ IsHuge(mem'[t][ix])
                      /\ IsLink(lw, t, ix)' =>
                            /\ Target(t, ix)' \in Tables'
                            /\ lw[Target(t, ix)'] = lw[t] + 1
                            /\ "Writable" \in mem'[t][ix].flags
                            /\ "NoExecute" \notin mem'[t][ix].flags
    BY DEF LinksOK
  <2>1. lw[t] < 3 => ~ IsHuge(mem'[t][ix])
    BY <1>1, <1>2, <1>3, <1>4 DEF Shape, LinksOK
  <2>2. ASSUME IsLink(lw, t, ix)'
        PROVE  /\ Target(t, ix)' \in Tables' /\ lw[Target(t, ix)'] = lw[t] + 1
               /\ "Writable" \in mem'[t][ix].flags /\ "NoExecute" \notin mem'[t][ix].flags
    BY <1>1, <1>2, <1>6, <2>2 DEF Shape, LinksOK
  <2> QED BY <2>1, <2>2
<1>9. OneLink(lw)'
  BY <1>6 DEF Shape, OneLink
<1>10. UserOK(lw)'
  BY <1>6 DEF Shape, UserOK, GrantsUser
<1> QED BY <1>7, <1>8, <1>9, <1>10 DEF Shape, lw

\* create_address_space, with a frame left.
LEMMA CreateStep ==
    ASSUME IInv, Allocates, NEW s \in Space, create_address_space(s)
    PROVE  IInv'
<1>1. level = 0 /\ level' = 0 /\ at' = at /\ call' = NoCall
  BY DEF IInv, TypeInv, Idle, create_address_space
<1>2. CASE ~ TableAllocated
  BY <1>1, <1>2, StartStep DEF create_address_space
<1>3. CASE TableAllocated
  <2>1. PICK n \in free : n = NewTable /\ n \in Frames /\ n \in Pool
    BY NewTableFree DEF IInv
  <2>2. /\ mem' = [mem EXCEPT ![n] = ZeroTable] /\ free' = free \ {n}
        /\ pml4' = [pml4 EXCEPT ![s] = n]
    BY <1>3, <2>1 DEF create_address_space, WithNewTable
  <2>3. PICK lv \in [Frames -> 0 .. 4] : Shape(lv)
    BY DEF IInv
  <2>4. Shape([lv EXCEPT ![n] = 1])'
    BY <1>1, <2>1, <2>2, <2>3, RootShape, Zenon DEF IInv
  <2>6. TypeInv'
    BY <1>1, <2>1, <2>2, ZeroTableType DEF IInv, TypeInv, TypeOK, NoCall
  <2>7. [lv EXCEPT ![n] = 1] \in [Frames -> 0 .. 4]
    BY LevelGiven
  <2> QED BY <2>4, <2>6, <2>7, ZenonT(30) DEF IInv
<1> QED BY <1>2, <1>3

\* ensure_table, where there is no table: the new one gets the level below,
\* and one link.
LEMMA NewLinkShape ==
    ASSUME NEW lv \in [Frames -> 0 .. 4], Shape(lv), TypeInv,
           NEW k \in 1 .. 3, NEW a \in Tables, NEW i \in Index,
           NEW n \in free, n \in Frames, n \in Pool, Linked(k, a, i, n)
    PROVE  Shape([lv EXCEPT ![n] = k + 1])'
<1> DEFINE lw == [lv EXCEPT ![n] = k + 1]
           Here(t, ix) == t = a /\ ix = i
<1>0. lv[a] = k /\ level' = k + 1 /\ at' = n /\ pml4' = pml4 /\ call' = call
  BY DEF Linked, Shape, LevelsOK
<1>1. /\ Tables' = Tables \cup {n} /\ n \notin Tables
      /\ Tables \subseteq Frames
  BY VmmAssumption DEF Linked, Tables, TypeInv, TypeOK
<1>2. /\ \A t \in Tables : lw[t] = lv[t]
      /\ lw[n] = k + 1
  BY <1>1
<1>3. \A t \in Tables, ix \in Index : ~ Here(t, ix) => mem'[t][ix] = mem[t][ix]
  BY DEF Linked, ChangesOnly
<1>4. \A ix \in Index : ~ IsPresent(mem'[n][ix]) /\ ~ IsHuge(mem'[n][ix])
  BY DEF Linked, NoEntry, IsPresent, IsHuge
<1>5. /\ IsPresent(mem'[a][i]) /\ ~ IsHuge(mem'[a][i])
      /\ "Writable" \in mem'[a][i].flags /\ "NoExecute" \notin mem'[a][i].flags
      /\ "User" \in mem'[a][i].flags <=> "User" \in call.flags
  BY DEF Linked, intermediate_flags, IsPresent, IsHuge
<1>6. Target(a, i)' = n
  BY DEF Linked
<1> HIDE DEF lw
\* The links after the step are those before it and the new one.
<1>7. ASSUME NEW t \in Tables', NEW ix \in Index, IsLink(lw, t, ix)', ~ Here(t, ix)
      PROVE  /\ t \in Tables /\ IsLink(lv, t, ix) /\ Target(t, ix)' = Target(t, ix)
             /\ Target(t, ix) \in Tables /\ mem'[t][ix] = mem[t][ix]
             /\ lv[Target(t, ix)] = lv[t] + 1
             /\ "Writable" \in mem[t][ix].flags /\ "NoExecute" \notin mem[t][ix].flags
  <2>1. t \in Tables
    BY <1>1, <1>4, <1>7 DEF IsLink
  <2>2. IsLink(lv, t, ix) /\ Target(t, ix)' = Target(t, ix) /\ mem'[t][ix] = mem[t][ix]
    BY <1>2, <1>3, <1>7, <2>1 DEF IsLink, Target
  <2> QED BY <2>1, <2>2 DEF Shape, LinksOK
<1>8. LevelsOK(lw)'
  <2>1. \A s \in Space : pml4'[s] # NoTable => pml4'[s] \in Tables /\ pml4'[s] = pml4[s]
    BY <1>0 DEF TypeInv, TypeOK, Tables
  <2> QED BY <1>0, <1>1, <1>2, <2>1 DEF Shape, LevelsOK
<1>9. LinksOK(lw)'
  <2> SUFFICES ASSUME NEW t \in Tables', NEW ix \in Index
               PROVE  /\ lw[t] < 3 => ~ IsHuge(mem'[t][ix])
                      /\ IsLink(lw, t, ix)' =>
                            /\ Target(t, ix)' \in Tables'
                            /\ lw[Target(t, ix)'] = lw[t] + 1
                            /\ "Writable" \in mem'[t][ix].flags
                            /\ "NoExecute" \notin mem'[t][ix].flags
    BY DEF LinksOK
  <2>1. lw[t] < 3 => ~ IsHuge(mem'[t][ix])
    BY <1>1, <1>2, <1>3, <1>4, <1>5 DEF Shape, LinksOK
  <2>2. CASE Here(t, ix)
    BY <1>0, <1>1, <1>2, <1>5, <1>6, <2>1, <2>2
  <2>3. CASE ~ Here(t, ix)
    BY <1>1, <1>2, <1>7, <2>1, <2>3
  <2> QED BY <2>2, <2>3
<1>10. OneLink(lw)'
  <2> SUFFICES ASSUME NEW t \in Tables', NEW u \in Tables', NEW ix \in Index, NEW jx \in Index,
                      IsLink(lw, t, ix)', IsLink(lw, u, jx)', Target(t, ix)' = Target(u, jx)'
               PROVE  t = u /\ ix = jx
    BY DEF OneLink
  <2>1. CASE Here(t, ix) \/ Here(u, jx)
    BY <1>1, <1>6, <1>7, <2>1
  <2>2. CASE ~ Here(t, ix) /\ ~ Here(u, jx)
    BY <1>7, <2>2 DEF Shape, OneLink
  <2> QED BY <2>1, <2>2
<1>11. UserOK(lw)'
  <2> SUFFICES ASSUME NEW t \in Tables', NEW ix \in Index, IsLink(lw, t, ix)'
               PROVE  /\ \A jx \in Index :
                            GrantsUser(Target(t, ix), jx)' => "User" \in mem'[t][ix].flags
                      /\ Target(t, ix)' = n /\ "User" \in call.flags => "User" \in mem'[t][ix].flags
    BY <1>0 DEF UserOK
  <2>1. CASE Here(t, ix)
    BY <1>4, <1>5, <1>6, <2>1 DEF GrantsUser
  <2>2. CASE ~ Here(t, ix)
    <3>1. Target(t, ix)' # n
      BY <1>1, <1>7, <2>2
    <3>2. ASSUME NEW jx \in Index, GrantsUser(Target(t, ix), jx)'
          PROVE  "User" \in mem'[t][ix].flags
      <4>0. /\ t \in Tables /\ IsLink(lv, t, ix) /\ Target(t, ix)' = Target(t, ix)
            /\ Target(t, ix) \in Tables /\ mem'[t][ix] = mem[t][ix]
        BY <1>7, <2>2
      <4>1. CASE Here(Target(t, ix), jx)
        <5>1. "User" \in call.flags
          BY <1>5, <3>2, <4>0, <4>1 DEF GrantsUser
        <5> QED BY <4>0, <4>1, <5>1 DEF Linked, Shape, UserOK
      <4>2. CASE ~ Here(Target(t, ix), jx)
        <5>1. GrantsUser(Target(t, ix), jx)
          BY <1>3, <3>2, <4>0, <4>2 DEF GrantsUser
        <5> QED BY <4>0, <5>1 DEF Shape, UserOK
      <4> QED BY <4>1, <4>2
    <3> QED BY <3>1, <3>2
  <2> QED BY <2>1, <2>2
<1> QED BY <1>8, <1>9, <1>10, <1>11 DEF Shape, lw

\* ensure_table, where there is a table: its one link is widened, and the link
\* above that one has User already if the call asks for it.
LEMMA WidenShape ==
    ASSUME NEW lv \in [Frames -> 0 .. 4], Shape(lv), TypeInv,
           NEW k \in 1 .. 3, NEW a \in Tables, NEW i \in Index, Widened(k, a, i)
    PROVE  Shape(lv)'
<1> DEFINE Here(t, ix) == t = a /\ ix = i
<1>0. /\ lv[a] = k /\ IsLink(lv, a, i)
      /\ level' = k + 1 /\ at' = Target(a, i) /\ pml4' = pml4 /\ call' = call
  BY DEF Widened, Shape, LevelsOK, IsLink
<1>1. Tables' = Tables
  BY DEF Widened, Tables
<1>2. \A t \in Tables, ix \in Index : ~ Here(t, ix) => mem'[t][ix] = mem[t][ix]
  BY DEF Widened, ChangesOnly
<1>3. /\ IsPresent(mem[a][i]) /\ IsPresent(mem'[a][i]) /\ ~ IsHuge(mem'[a][i])
      /\ "Writable" \in mem'[a][i].flags
      /\ "NoExecute" \in mem'[a][i].flags <=> "NoExecute" \in mem[a][i].flags
      /\ "User" \in mem'[a][i].flags <=> "User" \in mem[a][i].flags \/ "User" \in call.flags
  BY DEF Widened, intermediate_flags, IsPresent, IsHuge
<1>4. \A t \in Tables, ix \in Index :
          /\ IsLink(lv, t, ix)' <=> IsLink(lv, t, ix)
          /\ Target(t, ix)' = Target(t, ix)
          /\ IsHuge(mem'[t][ix]) <=> IsHuge(mem[t][ix])
          /\ "User" \in mem[t][ix].flags => "User" \in mem'[t][ix].flags
  <2>1. mem'[a][i].addr = mem[a][i].addr /\ IsPresent(mem[a][i]) /\ ~ IsHuge(mem[a][i])
    BY DEF Widened
  <2> QED BY <1>2, <1>3, <2>1 DEF IsLink, Target
<1>5. \A t \in Tables, ix \in Index : IsLink(lv, t, ix) =>
          /\ Target(t, ix) \in Tables /\ lv[Target(t, ix)] = lv[t] + 1
          /\ "Writable" \in mem[t][ix].flags /\ "NoExecute" \notin mem[t][ix].flags
  BY DEF Shape, LinksOK
<1>6. LevelsOK(lv)'
  BY <1>0, <1>1, <1>5 DEF Shape, LevelsOK
<1>7. LinksOK(lv)'
  <2> SUFFICES ASSUME NEW t \in Tables, NEW ix \in Index
               PROVE  /\ lv[t] < 3 => ~ IsHuge(mem'[t][ix])
                      /\ IsLink(lv, t, ix)' =>
                            /\ Target(t, ix)' \in Tables'
                            /\ lv[Target(t, ix)'] = lv[t] + 1
                            /\ "Writable" \in mem'[t][ix].flags
                            /\ "NoExecute" \notin mem'[t][ix].flags
    BY <1>1 DEF LinksOK
  <2>1. lv[t] < 3 => ~ IsHuge(mem'[t][ix])
    BY <1>4 DEF Shape, LinksOK
  <2>2. CASE Here(t, ix)
    BY <1>0, <1>1, <1>3, <1>4, <1>5, <2>1, <2>2
  <2>3. CASE ~ Here(t, ix)
    BY <1>1, <1>2, <1>4, <1>5, <2>1, <2>3
  <2> QED BY <2>2, <2>3
<1>8. OneLink(lv)'
  BY <1>1, <1>4 DEF Shape, OneLink
<1>9. UserOK(lv)'
  <2> SUFFICES ASSUME NEW t \in Tables, NEW ix \in Index, IsLink(lv, t, ix)
               PROVE  /\ \A jx \in Index :
                            GrantsUser(Target(t, ix), jx)' => "User" \in mem'[t][ix].flags
                      /\ Target(t, ix) = Target(a, i) /\ "User" \in call.flags
                            => "User" \in mem'[t][ix].flags
    BY <1>0, <1>1, <1>4 DEF UserOK
  <2>1. Target(t, ix)' = Target(t, ix) /\ Target(t, ix) \in Tables
    BY <1>4, <1>5
  <2>2. ASSUME Target(t, ix) = Target(a, i), "User" \in call.flags
        PROVE  "User" \in mem'[t][ix].flags
    <3>1. t = a /\ ix = i
      BY <1>0, <2>2 DEF Shape, OneLink
    <3> QED BY <1>3, <2>2, <3>1
  <2>3. ASSUME NEW jx \in Index, GrantsUser(Target(t, ix), jx)'
        PROVE  "User" \in mem'[t][ix].flags
    <3>1. CASE Here(Target(t, ix), jx) /\ "User" \in call.flags
      <4>1. "User" \in mem[t][ix].flags
        <5>1. level # 0 /\ at = a
          BY DEF Widened
        <5> QED BY <3>1, <5>1 DEF Shape, UserOK
      <4> QED BY <1>4, <4>1
    <3>2. CASE ~ (Here(Target(t, ix), jx) /\ "User" \in call.flags)
      <4>1. GrantsUser(Target(t, ix), jx)
        BY <1>2, <1>3, <2>1, <2>3, <3>2 DEF GrantsUser
      <4>2. "User" \in mem[t][ix].flags
        BY <4>1 DEF Shape, UserOK
      <4> QED BY <1>4, <4>2
    <3> QED BY <3>1, <3>2
  <2> QED BY <2>2, <2>3
<1> QED BY <1>6, <1>7, <1>8, <1>9 DEF Shape

\* A leaf is not a link: in a PT nothing is, and in a PD it is Huge.
LEMMA LeafShape ==
    ASSUME NEW lv \in [Frames -> 0 .. 4], Shape(lv), TypeInv,
           NEW k \in {3, 4}, NEW a \in Tables, NEW i \in Index, Mapped(k, a, i)
    PROVE  Shape(lv)'
<1> DEFINE Here(t, ix) == t = a /\ ix = i
<1>0. /\ lv[a] = k /\ level' = 0 /\ pml4' = pml4
      /\ k = 3 => IsHuge(mem'[a][i])
  BY DEF Mapped, Shape, LevelsOK
<1>1. Tables' = Tables
  BY DEF Mapped, Tables
<1>2. \A t \in Tables, ix \in Index : ~ Here(t, ix) => mem'[t][ix] = mem[t][ix]
  BY DEF Mapped, ChangesOnly
<1>3. ASSUME NEW t \in Tables, NEW ix \in Index, IsLink(lv, t, ix)'
      PROVE  /\ IsLink(lv, t, ix) /\ Target(t, ix)' = Target(t, ix)
             /\ mem'[t][ix] = mem[t][ix]
             /\ Target(t, ix) \in Tables /\ lv[Target(t, ix)] = lv[t] + 1
             /\ "Writable" \in mem[t][ix].flags /\ "NoExecute" \notin mem[t][ix].flags
  <2>1. ~ Here(t, ix)
    BY <1>0, <1>3 DEF IsLink
  <2>2. IsLink(lv, t, ix) /\ Target(t, ix)' = Target(t, ix) /\ mem'[t][ix] = mem[t][ix]
    BY <1>2, <1>3, <2>1 DEF IsLink, Target
  <2> QED BY <2>2 DEF Shape, LinksOK
<1>4. LevelsOK(lv)'
  BY <1>0, <1>1 DEF Shape, LevelsOK
<1>5. LinksOK(lv)'
  <2>1. \A t \in Tables, ix \in Index : lv[t] < 3 => ~ IsHuge(mem'[t][ix])
    BY <1>0, <1>2 DEF Shape, LinksOK
  <2> QED BY <1>1, <1>3, <2>1 DEF LinksOK
<1>6. OneLink(lv)'
  BY <1>1, <1>3 DEF Shape, OneLink
<1>7. UserOK(lv)'
  <2> SUFFICES ASSUME NEW t \in Tables, NEW ix \in Index, IsLink(lv, t, ix)',
                      NEW jx \in Index, GrantsUser(Target(t, ix), jx)'
               PROVE  "User" \in mem'[t][ix].flags
    BY <1>0, <1>1 DEF UserOK
  <2>1. CASE Here(Target(t, ix), jx)
    <3>1. "User" \in call.flags
      BY <1>3, <2>1 DEF Mapped, GrantsUser
    <3> QED BY <1>3, <2>1, <3>1 DEF Mapped, Shape, UserOK
  <2>2. CASE ~ Here(Target(t, ix), jx)
    <3>1. GrantsUser(Target(t, ix), jx)
      BY <1>2, <1>3, <2>2 DEF GrantsUser
    <3> QED BY <1>3, <3>1 DEF Shape, UserOK
  <2> QED BY <2>1, <2>2
<1> QED BY <1>4, <1>5, <1>6, <1>7 DEF Shape

\* ensure_table keeps the invariant, with a frame left.
LEMMA EnsureStep == ASSUME IInv, Allocates, ensure_table PROVE IInv'
<1>1. /\ TypeInv /\ call.status = "running" /\ level \in 1 .. LeafLevel - 1
      /\ LeafLevel \in {3, 4}
  BY EnsureCases, Running DEF IInv
<1>2. PICK lv \in [Frames -> 0 .. 4] : Shape(lv)
  BY DEF IInv
<1>3. PICK k \in 1 .. 3 : level = k
  BY <1>1
<1>4. PICK a \in Tables : at = a
  BY <1>1, AtEntry
<1>5. PICK i \in Index : slot = i
  BY <1>1, AtEntry
<1>6. lv[a] = k
  BY <1>2, <1>3, <1>4 DEF Shape, LevelsOK
<1>7. CASE EnsureFails
  BY <1>1, <1>7, ReturnStep DEF EnsureFails
<1>8. CASE EnsureNew
  <2>1. PICK n \in free : n = NewTable /\ n \in Frames /\ n \in Pool
    BY <1>1, NewTableFree
  <2>2. mem' \in [Frames -> [Index -> Entry]] /\ Linked(k, a, i, n)
    BY <1>1, <1>3, <1>4, <1>5, <1>8, <2>1, NewLinkEffect
  <2>3. Shape([lv EXCEPT ![n] = k + 1])'
    BY <1>1, <1>2, <2>1, <2>2, NewLinkShape, Zenon
  <2>4. UNCHANGED <<call, pml4>> /\ level' = k + 1 /\ free' = free \ {n} /\ at' = n
    BY <2>2 DEF Linked
  <2>5. TypeInv'
    BY <1>1, <1>3, <2>1, <2>2, <2>4 DEF TypeInv, TypeOK, LeafLevel
  <2>6. [lv EXCEPT ![n] = k + 1] \in [Frames -> 0 .. 4]
    BY LevelGiven
  <2> QED BY <2>3, <2>5, <2>6, ZenonT(30) DEF IInv
<1>9. CASE EnsureOld
  <2>1. mem' \in [Frames -> [Index -> Entry]] /\ Widened(k, a, i)
    BY <1>1, <1>3, <1>4, <1>5, <1>9, WidenEffect
  <2>2. Shape(lv)'
    BY <1>1, <1>2, <2>1, WidenShape
  <2>3. UNCHANGED <<free, call, pml4>> /\ level' = k + 1 /\ at' = Target(a, i)
    BY <2>1 DEF Widened
  <2>4. Target(a, i) \in Tables
    BY <1>2, <1>6, <2>1 DEF Widened, Shape, LinksOK, IsLink
  <2>5. TypeInv'
    BY <1>1, <1>3, <2>1, <2>3, <2>4 DEF TypeInv, TypeOK, LeafLevel, Tables
  <2> QED BY <2>2, <2>5 DEF IInv
<1> QED BY <1>7, <1>8, <1>9, EnsureCases

\* write_leaf keeps the invariant.
LEMMA LeafStep == ASSUME IInv, write_leaf PROVE IInv'
<1>1. TypeInv /\ call.status = "running" /\ level = LeafLevel /\ call \in CallType
  BY LeafCases, Running DEF IInv
<1>2. PICK lv \in [Frames -> 0 .. 4] : Shape(lv)
  BY DEF IInv
<1>3. PICK k \in {3, 4} : level = k
  BY <1>1, Running
<1>4. PICK a \in Tables : at = a
  BY <1>3, AtEntry, <1>1
<1>5. PICK i \in Index : slot = i
  BY <1>3, AtEntry, <1>1
<1>6. CASE EnsureFails
  BY <1>1, <1>6, ReturnStep DEF EnsureFails
<1>7. CASE LeafWritten
  <2>1. mem' \in [Frames -> [Index -> Entry]] /\ Mapped(k, a, i)
    BY <1>1, <1>3, <1>4, <1>5, <1>7, LeafEffect
  <2>4. Shape(lv)'
    BY <1>1, <1>2, <2>1, LeafShape
  <2>5. call' \in CallType
    <3>1. call.done + call.page \in Nat
      BY <1>1, PagingAssumption DEF CallType, kLargePageSize, Span
    <3> QED BY <1>1, <1>7, <3>1, ZenonT(30) DEF LeafWritten, CallType
  <2>6. TypeInv'
    BY <1>1, <1>7, <2>1, <2>5 DEF TypeInv, TypeOK, LeafWritten, CallType
  <2> QED BY <2>4, <2>6 DEF IInv
<1> QED BY <1>6, <1>7, LeafCases

-----------------------------------------------------------------------------
(***************************************************************************)
(* The shape of the tables                                                 *)
(***************************************************************************)

\* Every step keeps the invariant, one case for each action.
LEMMA StepKeepsIInv == IInv /\ Allocates /\ [Next]_vars => IInv'
<1> SUFFICES ASSUME IInv, Allocates, [Next]_vars PROVE IInv'
  OBVIOUS
<1>1. CASE enter_page
  BY <1>1, EnterStep
<1>2. CASE ensure_table
  BY <1>2, EnsureStep
<1>3. CASE write_leaf
  BY <1>3, LeafStep
<1>4. ASSUME NEW s \in Space, create_address_space(s) PROVE IInv'
  BY <1>4, CreateStep
<1>5. ASSUME NEW s \in Space, NEW a \in PageArgs, CallPage(s, kPageSize, a) PROVE IInv'
  BY <1>5, CallStep
<1>6. ASSUME NEW s \in Space, NEW a \in LargeArgs, CallPage(s, kLargePageSize, a) PROVE IInv'
  BY <1>6, CallStep
<1>7. ASSUME NEW s \in Space, NEW a \in RangeArgs, CallRange(s, kPageSize, a) PROVE IInv'
  BY <1>7, CallStep
<1>8. ASSUME NEW s \in Space, NEW a \in LargeRangeArgs, CallRange(s, kLargePageSize, a) PROVE IInv'
  BY <1>8, CallStep
<1>9. CASE UNCHANGED vars
  <2>0. /\ mem' = mem /\ free' = free /\ pml4' = pml4 /\ call' = call
        /\ level' = level /\ at' = at /\ Tables' = Tables
    BY <1>9 DEF vars, Tables
  <2>1. TypeInv'
    BY <2>0 DEF IInv, TypeInv, TypeOK, LeafLevel
  <2>2. PICK lv \in [Frames -> 0 .. 4] : Shape(lv)
    BY DEF IInv
  <2>3. LevelsOK(lv)' /\ LinksOK(lv)'
    BY <2>0, <2>2 DEF Shape, LevelsOK, LinksOK, IsLink, Target
  <2>4. OneLink(lv)'
    BY <2>0, <2>2, SMTT(30) DEF Shape, OneLink, IsLink, Target
  <2>5. UserOK(lv)'
    BY <2>0, <2>2, ZenonT(30) DEF Shape, UserOK, IsLink, Target, GrantsUser
  <2> QED BY <2>1, <2>3, <2>4, <2>5 DEF IInv, Shape
<1> QED BY <1>1, <1>2, <1>3, <1>4, <1>5, <1>6, <1>7, <1>8, <1>9 DEF Next, MapStep

-----------------------------------------------------------------------------
(***************************************************************************)
(* Trees                                                                   *)
(***************************************************************************)

\* A set of tables of one level.
OfLevel(lv, k, S) == S \subseteq {t \in Tables : lv[t] = k}

\* The roots are tables of level 1.
LEMMA RootsLevel ==
    ASSUME TypeInv, NEW lv, Shape(lv)
    PROVE  OfLevel(lv, 1, Roots)
BY DEF OfLevel, Roots, TypeInv, TypeOK, Tables, Shape, LevelsOK

\* The tables below tables of a level have the next level.
LEMMA BelowLevel ==
    ASSUME NEW lv, Shape(lv), NEW k \in 1 .. 3, NEW S, OfLevel(lv, k, S)
    PROVE  OfLevel(lv, k + 1, Below(S))
<1> SUFFICES ASSUME NEW u \in Below(S)
             PROVE  u \in Tables /\ lv[u] = k + 1
  BY DEF OfLevel
<1>1. PICK l \in Links(S) : u = mem[l[1]][l[2]].addr \div kPageSize
  BY DEF Below
<1>2. /\ l[1] \in S /\ l[2] \in Index
      /\ IsPresent(mem[l[1]][l[2]]) /\ ~ IsHuge(mem[l[1]][l[2]])
  BY DEF Links
<1>3. l[1] \in Tables /\ lv[l[1]] = k
  BY <1>2 DEF OfLevel
<1>4. IsLink(lv, l[1], l[2]) /\ u = Target(l[1], l[2])
  BY <1>1, <1>2, <1>3 DEF IsLink, Target
<1> QED BY <1>2, <1>3, <1>4 DEF Shape, LinksOK

\* The four levels.
LEMMA Levels ==
    ASSUME TypeInv, NEW lv, Shape(lv)
    PROVE  /\ OfLevel(lv, 1, Roots) /\ OfLevel(lv, 2, Pdpts)
           /\ OfLevel(lv, 3, Pds) /\ OfLevel(lv, 4, Pts)
<1>1. OfLevel(lv, 1, Roots)
  BY RootsLevel
<1>2. OfLevel(lv, 1 + 1, Pdpts)
  BY <1>1, BelowLevel DEF Pdpts
<1>3. OfLevel(lv, 2 + 1, Pds)
  BY <1>2, BelowLevel DEF Pds
<1>4. OfLevel(lv, 3 + 1, Pts)
  BY <1>3, BelowLevel DEF Pts
<1> QED BY <1>1, <1>2, <1>3, <1>4

\* What a link of a set of tables leads to is below them, before and after a step.
LEMMA InBelow ==
    ASSUME NEW S, NEW t \in S, NEW ix \in Index
    PROVE  /\ IsPresent(mem[t][ix]) /\ ~ IsHuge(mem[t][ix]) => Target(t, ix) \in Below(S)
           /\ IsPresent(mem'[t][ix]) /\ ~ IsHuge(mem'[t][ix]) => Target(t, ix)' \in Below(S)'
<1>1. ASSUME IsPresent(mem[t][ix]), ~ IsHuge(mem[t][ix])
      PROVE  Target(t, ix) \in Below(S)
  <2>1. <<t, ix>> \in Links(S)
    BY <1>1 DEF Links
  <2> QED BY <2>1 DEF Below, Target
<1>2. ASSUME IsPresent(mem'[t][ix]), ~ IsHuge(mem'[t][ix])
      PROVE  Target(t, ix)' \in Below(S)'
  <2>1. <<t, ix>> \in Links(S)'
    BY <1>2 DEF Links
  <2> QED BY <2>1 DEF Below, Target
<1> QED BY <1>1, <1>2

\* A step that keeps what is mapped keeps what is below tables.
LEMMA BelowGrows ==
    ASSUME NEW lv, Keeps(lv), NEW S \in SUBSET Tables, NEW T, S \subseteq T
    PROVE  Below(S) \subseteq Below(T)'
<1> SUFFICES ASSUME NEW u \in Below(S) PROVE u \in Below(T)'
  OBVIOUS
<1>1. PICK l \in Links(S) : u = mem[l[1]][l[2]].addr \div kPageSize
  BY DEF Below
<1>2. /\ l \in S \X Index /\ l[1] \in Tables /\ l[2] \in Index
      /\ IsPresent(mem[l[1]][l[2]]) /\ ~ IsHuge(mem[l[1]][l[2]])
  BY DEF Links
<1>3. /\ IsPresent(mem'[l[1]][l[2]]) /\ ~ IsHuge(mem'[l[1]][l[2]])
      /\ mem'[l[1]][l[2]].addr = mem[l[1]][l[2]].addr
  BY <1>2 DEF Keeps
<1>4. l \in T \X Index
  BY <1>2
<1>5. l \in Links(T)'
  BY <1>3, <1>4 DEF Links
<1> QED BY <1>1, <1>3, <1>5 DEF Below

\* So the tables of each level stay tables of that level.
LEMMA LevelsGrow ==
    ASSUME TypeInv, NEW lv, Shape(lv), Keeps(lv)
    PROVE  /\ Roots \subseteq Roots' /\ Pdpts \subseteq Pdpts'
           /\ Pds \subseteq Pds' /\ Pts \subseteq Pts'
<1>0. Roots \subseteq Tables /\ Pdpts \subseteq Tables /\ Pds \subseteq Tables
  BY Levels DEF OfLevel
<1>1. Roots \subseteq Roots'
  BY DEF Roots, Keeps
<1>2. PICK R : R = Roots'
  OBVIOUS
<1>3. Pdpts \subseteq Pdpts'
  <2>1. Below(Roots) \subseteq Below(R)'
    BY <1>0, <1>1, <1>2, BelowGrows
  <2> QED BY <1>2, <2>1 DEF Pdpts, Below, Links
<1>4. PICK D : D = Pdpts'
  OBVIOUS
<1>5. Pds \subseteq Pds'
  <2>1. Below(Pdpts) \subseteq Below(D)'
    BY <1>0, <1>3, <1>4, BelowGrows
  <2> QED BY <1>4, <2>1 DEF Pds, Below, Links
<1>6. PICK E : E = Pds'
  OBVIOUS
<1>7. Pts \subseteq Pts'
  <2>1. Below(Pds) \subseteq Below(E)'
    BY <1>0, <1>5, <1>6, BelowGrows
  <2> QED BY <1>6, <2>1 DEF Pts, Below, Links
<1> QED BY <1>1, <1>3, <1>5, <1>7

\* A step that allocates no table loses none.
LEMMA SameTablesNoneLost ==
    ASSUME TypeInv, NoneLost, NEW lv, Shape(lv), Keeps(lv), free' = free
    PROVE  NoneLost'
BY LevelsGrow DEF NoneLost, Tables

\* create_address_space makes the new table a root, and the root of no other space.
LEMMA CreateTree ==
    ASSUME TInv, Allocates, NEW s \in Space, create_address_space(s)
    PROVE  RootsDistinct' /\ NoneLost'
<1>1. PICK lv \in [Frames -> 0 .. 4] : Shape(lv)
  BY DEF TInv, IInv
<1>2. TypeInv /\ Keeps(lv)
  BY CreateKeeps DEF TInv, IInv
<1>3. CASE ~ TableAllocated
  <2>1. UNCHANGED <<mem, free, pml4>>
    BY <1>3 DEF create_address_space
  <2>2. RootsDistinct'
    BY <2>1 DEF TInv, RootsDistinct
  <2> QED BY <1>1, <1>2, <2>1, <2>2, SameTablesNoneLost DEF TInv
<1>4. CASE TableAllocated
  <2>1. PICK n \in free : n = NewTable /\ n # NoTable
    BY <1>2, NewTableFree
  <2>2. pml4' = [pml4 EXCEPT ![s] = n] /\ free' = free \ {n}
    BY <1>4, <2>1 DEF create_address_space
  <2>3. pml4 \in [Space -> Tables \cup {NoTable}] /\ n \notin Tables /\ Tables' = Tables \cup {n}
    BY <1>2, <2>2 DEF TypeInv, TypeOK, Tables
  <2>4. pml4'[s] = n /\ \A r \in Space : r # s => pml4'[r] = pml4[r] /\ pml4'[r] # n
    BY <2>1, <2>2, <2>3
  <2>5. RootsDistinct'
    BY <2>4 DEF TInv, RootsDistinct
  <2>6. n \in Roots'
    BY <2>1, <2>4 DEF Roots
  <2>7. NoneLost'
    BY <1>1, <1>2, <2>3, <2>6, LevelsGrow DEF TInv, NoneLost
  <2> QED BY <2>5, <2>7
<1> QED BY <1>3, <1>4

\* ensure_table hangs the new table below one that is reached already.
LEMMA LinkTree ==
    ASSUME TypeInv, NoneLost, NEW lv \in [Frames -> 0 .. 4], Shape(lv), Keeps(lv),
           NEW k \in 1 .. 3, NEW a \in Tables, NEW i \in Index, NEW n \in free,
           Linked(k, a, i, n)
    PROVE  NoneLost'
<1>1. /\ free' = free \ {n} /\ Target(a, i)' = n /\ mem'[a][i].flags = intermediate_flags
      /\ at = a /\ level = k
  BY DEF Linked
<1>2. IsPresent(mem'[a][i]) /\ ~ IsHuge(mem'[a][i])
  BY <1>1 DEF intermediate_flags, IsPresent, IsHuge
<1>3. lv[a] = k
  BY <1>1 DEF Shape, LevelsOK
<1>4. a \in Roots \cup Pdpts \cup Pds
  <2>1. lv[a] # 4
    BY <1>3
  <2>2. a \notin Pts
    BY <2>1, Levels DEF OfLevel
  <2> QED BY <2>2 DEF NoneLost
<1>5. /\ Roots \subseteq Roots' /\ Pdpts \subseteq Pdpts' /\ Pds \subseteq Pds' /\ Pts \subseteq Pts'
  BY LevelsGrow
<1>6. PICK R, D, E : R = Roots' /\ D = Pdpts' /\ E = Pds'
  OBVIOUS
<1>7. n \in Below(R)' \/ n \in Below(D)' \/ n \in Below(E)'
  <2>1. a \in R \/ a \in D \/ a \in E
    BY <1>4, <1>5, <1>6
  <2> QED BY <1>1, <1>2, <2>1, InBelow
<1>8. Below(R)' = Pdpts' /\ Below(D)' = Pds' /\ Below(E)' = Pts'
  BY <1>6, ZenonT(30) DEF Pdpts, Pds, Pts, Below, Links
<1>9. Tables' \subseteq Tables \cup {n}
  BY <1>1 DEF Tables
<1> QED BY <1>5, <1>7, <1>8, <1>9 DEF NoneLost

\* ensure_table.
LEMMA EnsureTree ==
    ASSUME TInv, Allocates, ensure_table
    PROVE  NoneLost'
<1>1. PICK lv \in [Frames -> 0 .. 4] : Shape(lv)
  BY DEF TInv, IInv
<1>2. TypeInv /\ Keeps(lv)
  BY <1>1, EnsureKeeps DEF TInv, IInv
<1>3. /\ call.status = "running" /\ level \in 1 .. LeafLevel - 1 /\ LeafLevel \in {3, 4}
      /\ EnsureFails \/ EnsureNew \/ EnsureOld
  BY <1>2, EnsureCases, Running
<1>4. CASE EnsureFails \/ EnsureOld
  <2>1. free' = free
    BY <1>4 DEF EnsureFails, EnsureOld
  <2> QED BY <1>1, <1>2, <2>1, SameTablesNoneLost DEF TInv
<1>5. CASE EnsureNew
  <2>1. PICK k \in 1 .. 3 : level = k
    BY <1>3
  <2>2. PICK a \in Tables : at = a
    BY <1>2, <1>3, AtEntry
  <2>3. PICK i \in Index : slot = i
    BY <1>2, <1>3, AtEntry
  <2>4. PICK n \in free : n = NewTable
    BY <1>2, NewTableFree
  <2>5. Linked(k, a, i, n)
    BY <1>2, <1>3, <1>5, <2>1, <2>2, <2>3, <2>4, NewLinkEffect
  <2> QED BY <1>1, <1>2, <2>5, LinkTree DEF TInv
<1> QED BY <1>3, <1>4, <1>5

\* Before any call there are no tables.
LEMMA InitTInv == Init => TInv
<1> SUFFICES ASSUME Init PROVE TInv
  OBVIOUS
<1>1. RootsDistinct
  BY DEF Init, RootsDistinct
<1>2. NoneLost
  BY DEF Init, NoneLost, Tables
<1> QED BY <1>1, <1>2, InitIInv DEF TInv

\* Every step keeps the trees, one case for each action.
LEMMA StepKeepsTInv == TInv /\ Allocates /\ [Next]_vars => TInv'
<1> SUFFICES ASSUME TInv, Allocates, [Next]_vars PROVE RootsDistinct' /\ NoneLost'
  BY StepKeepsIInv DEF TInv
<1>1. PICK lv \in [Frames -> 0 .. 4] : Shape(lv)
  BY DEF TInv, IInv
<1>2. ASSUME UNCHANGED <<mem, free, pml4>> PROVE RootsDistinct' /\ NoneLost'
  <2>1. Keeps(lv)
    BY <1>2, SameKeeps
  <2>2. RootsDistinct'
    BY <1>2 DEF TInv, RootsDistinct
  <2> QED BY <1>1, <1>2, <2>1, <2>2, SameTablesNoneLost DEF TInv, IInv
<1>3. CASE enter_page
  BY <1>2, <1>3 DEF enter_page
<1>4. CASE ensure_table
  <2>1. pml4' = pml4
    BY <1>4 DEF ensure_table
  <2>2. RootsDistinct'
    BY <2>1 DEF TInv, RootsDistinct
  <2> QED BY <1>4, <2>2, EnsureTree
<1>5. CASE write_leaf
  <2>1. Keeps(lv)
    BY <1>5, LeafKeeps DEF TInv, IInv
  <2>2. free' = free /\ pml4' = pml4
    BY <1>5 DEF write_leaf
  <2>3. RootsDistinct'
    BY <2>2 DEF TInv, RootsDistinct
  <2> QED BY <1>1, <2>1, <2>2, <2>3, SameTablesNoneLost DEF TInv, IInv
<1>6. ASSUME NEW s \in Space, create_address_space(s) PROVE RootsDistinct' /\ NoneLost'
  BY <1>6, CreateTree
<1>7. ASSUME NEW s \in Space, NEW page, NEW a, CallPage(s, page, a) \/ CallRange(s, page, a)
      PROVE  RootsDistinct' /\ NoneLost'
  BY <1>2, <1>7 DEF CallPage, CallRange
<1>8. CASE UNCHANGED vars
  BY <1>2, <1>8 DEF vars
<1> QED BY <1>3, <1>4, <1>5, <1>6, <1>7, <1>8 DEF Next, MapStep

-----------------------------------------------------------------------------
(***************************************************************************)
(* The call in progress                                                    *)
(***************************************************************************)

\* The way of a walk grows by the table it goes to.
LEMMA DescentGrows ==
    ASSUME TypeInv, NEW lv, Keeps(lv), NEW t \in [1 .. 4 -> Frames], Descent(t),
           NEW k \in 1 .. 3, level = k, level' = k + 1, UNCHANGED <<call, pml4>>,
           Tables \subseteq Tables',
           NEW a \in Tables, at = a, NEW i \in Index, slot = i, NEW n \in Frames, at' = n,
           IsPresent(mem'[a][i]), ~ IsHuge(mem'[a][i]), Target(a, i)' = n,
           call.status = "running"
    PROVE  \E u \in [1 .. 4 -> Frames] : Descent(u)'
<1> DEFINE u == [t EXCEPT ![k + 1] = n]
<1>1. u \in [1 .. 4 -> Frames] /\ u[k + 1] = n /\ \A j \in 1 .. k : u[j] = t[j]
  OBVIOUS
<1>2. virt' = virt /\ virt \in Nat /\ call.space' = call.space
  BY Running DEF virt
<1>3. t[1] = pml4[call.space] /\ t[k] = a /\ IndexAt(k, virt) = i
  BY DEF Descent, slot
<1>4. u[1] = (pml4[call.space])' /\ u[level'] = at'
  BY <1>1, <1>2, <1>3
<1>5. ASSUME NEW j \in 1 .. k - 1
      PROVE  /\ u[j] \in Tables'
             /\ IsPresent(mem'[u[j]][IndexAt(j, virt)]) /\ ~ IsHuge(mem'[u[j]][IndexAt(j, virt)])
             /\ u[j + 1] = Target(u[j], IndexAt(j, virt))'
  <2>1. /\ t[j] \in Tables
        /\ IsPresent(mem[t[j]][IndexAt(j, virt)]) /\ ~ IsHuge(mem[t[j]][IndexAt(j, virt)])
        /\ t[j + 1] = Target(t[j], IndexAt(j, virt))
    BY DEF Descent
  <2>2. PICK ix \in Index : ix = IndexAt(j, virt)
    BY <1>2, IndexInTable
  <2>3. /\ IsPresent(mem'[t[j]][ix]) /\ ~ IsHuge(mem'[t[j]][ix])
        /\ mem'[t[j]][ix].addr = mem[t[j]][ix].addr
    BY <2>1, <2>2, ZenonT(30) DEF Keeps
  <2>4. u[j] = t[j] /\ u[j + 1] = t[j + 1]
    BY <1>1
  <2> QED BY <1>2, <2>1, <2>2, <2>3, <2>4, ZenonT(30) DEF Target
<1>6. /\ u[k] \in Tables'
      /\ IsPresent(mem'[u[k]][IndexAt(k, virt)]) /\ ~ IsHuge(mem'[u[k]][IndexAt(k, virt)])
      /\ u[k + 1] = Target(u[k], IndexAt(k, virt))'
  BY <1>1, <1>2, <1>3 DEF Target
<1> HIDE DEF u
<1>7. \A j \in 1 .. level' - 1 :
          /\ u[j] \in Tables'
          /\ IsPresent(mem'[u[j]][IndexAt(j, virt')]) /\ ~ IsHuge(mem'[u[j]][IndexAt(j, virt')])
          /\ u[j + 1] = Target(u[j], IndexAt(j, virt))'
  <2> SUFFICES ASSUME NEW j \in 1 .. k
               PROVE  /\ u[j] \in Tables'
                      /\ IsPresent(mem'[u[j]][IndexAt(j, virt)]) /\ ~ IsHuge(mem'[u[j]][IndexAt(j, virt)])
                      /\ u[j + 1] = Target(u[j], IndexAt(j, virt))'
    BY <1>2
  <2>1. j = k \/ j \in 1 .. k - 1
    OBVIOUS
  <2> QED BY <1>5, <1>6, <2>1
<1>8. Descent(u)'
  BY <1>4, <1>7, ZenonT(30) DEF Descent
<1> QED BY <1>1, <1>8

\* A failing call keeps its progress, or leaves no trace.
LEMMA ReturnProgress ==
    ASSUME TypeInv, Progress, call.status = "running", Return("fail")
    PROVE  Progress'
<1>1. call \in CallType /\ call # NoCall
  BY Running DEF NoCall
<1>2. CASE call.done = 0
  BY <1>2 DEF Return, Progress
<1>3. CASE call.done # 0
  <2>1. call' = [call EXCEPT !.status = "fail"]
    BY <1>3 DEF Return
  <2>2. /\ call'.size = call.size /\ call'.done = call.done /\ call'.page = call.page
        /\ call'.status = "fail"
    BY <1>1, <2>1 DEF CallType
  <2>3. /\ call.size % call.page = 0 /\ call.done % call.page = 0 /\ call.done <= call.size
    BY <1>1 DEF Progress
  <2> QED BY <2>2, <2>3 DEF Progress
<1> QED BY <1>2, <1>3

\* ensure_table.
LEMMA EnsureWInv ==
    ASSUME WInv, Allocates, ensure_table
    PROVE  Walking' /\ Aligned' /\ Progress'
<1>1. PICK lv \in [Frames -> 0 .. 4] : Shape(lv)
  BY DEF WInv, TInv, IInv
<1>2. TypeInv /\ Keeps(lv) /\ Walking /\ Aligned /\ Progress
  BY <1>1, EnsureKeeps DEF WInv, TInv, IInv
<1>3. /\ call.status = "running" /\ level \in 1 .. LeafLevel - 1 /\ LeafLevel \in {3, 4}
      /\ EnsureFails \/ EnsureNew \/ EnsureOld
  BY <1>2, EnsureCases, Running
<1>4. CASE EnsureFails
  <2>1. UNCHANGED <<mem, free, pml4>> /\ level' = 0 /\ Return("fail")
    BY <1>4 DEF EnsureFails, Return
  <2>2. Walking' /\ Aligned'
    BY <1>2, <2>1 DEF Walking, Aligned, Tables
  <2> QED BY <1>2, <1>3, <2>1, <2>2, ReturnProgress
<1>5. PICK k \in 1 .. 3 : level = k
  BY <1>3
<1>6. PICK a \in Tables : at = a
  BY <1>2, <1>3, AtEntry
<1>7. PICK i \in Index : slot = i
  BY <1>2, <1>3, AtEntry
<1>8. PageOK /\ \E t \in [1 .. 4 -> Frames] : Descent(t)
  BY <1>2, <1>5 DEF Walking
<1>9. PICK t \in [1 .. 4 -> Frames] : Descent(t)
  BY <1>8
<1>10. CASE EnsureNew
  <2>1. PICK n \in free : n = NewTable /\ n \in Frames /\ n \in Nat
    BY <1>2, NewTableFree
  <2>2. Linked(k, a, i, n)
    BY <1>2, <1>3, <1>5, <1>6, <1>7, <1>10, <2>1, NewLinkEffect
  <2>3. /\ level' = k + 1 /\ at' = n /\ free' = free \ {n} /\ UNCHANGED <<call, pml4>>
        /\ ChangesOnly(a, i) /\ Target(a, i)' = n
        /\ \A ix \in Index : mem'[n][ix] = NoEntry
        /\ mem'[a][i].addr = n * kPageSize /\ mem'[a][i].flags = intermediate_flags
    BY <2>2 DEF Linked
  <2>4. IsPresent(mem'[a][i]) /\ ~ IsHuge(mem'[a][i])
    BY <2>3 DEF IsPresent, IsHuge, intermediate_flags
  <2>5. Tables' = Tables \cup {n} /\ n \notin Tables
    BY <1>2, <2>1, <2>3 DEF Tables, TypeInv, TypeOK
  <2>6. \E u \in [1 .. 4 -> Frames] : Descent(u)'
    BY <1>2, <1>3, <1>5, <1>6, <1>7, <1>9, <2>1, <2>3, <2>4, <2>5, DescentGrows
  <2>7. PageOK'
    BY <1>8, <2>3 DEF PageOK, virt, phys
  <2>8. Aligned'
    <3> SUFFICES ASSUME NEW u \in Tables', NEW ix \in Index
                 PROVE  mem'[u][ix].addr % kPageSize = 0
      BY DEF Aligned
    <3>1. CASE u = n
      <4>1. mem'[u][ix].addr = 0
        BY <2>3, <3>1 DEF NoEntry
      <4> QED BY <4>1, Spans
    <3>2. CASE u = a /\ ix = i
      BY <2>1, <2>3, <3>2, FrameOfAddress
    <3>3. CASE u # n /\ ~ (u = a /\ ix = i)
      BY <1>2, <2>3, <2>5, <3>3 DEF Aligned, ChangesOnly
    <3> QED BY <3>1, <3>2, <3>3
  <2>9. Progress'
    BY <1>2, <2>3 DEF Progress
  <2> QED BY <2>6, <2>7, <2>8, <2>9 DEF Walking
<1>11. CASE EnsureOld
  <2>1. Widened(k, a, i)
    BY <1>2, <1>3, <1>5, <1>6, <1>7, <1>11, WidenEffect
  <2>2. /\ level' = k + 1 /\ at' = Target(a, i) /\ UNCHANGED <<free, call, pml4>>
        /\ ChangesOnly(a, i) /\ IsPresent(mem[a][i]) /\ ~ IsHuge(mem[a][i])
        /\ mem'[a][i].addr = mem[a][i].addr
    BY <2>1 DEF Widened
  <2>3. IsPresent(mem'[a][i]) /\ ~ IsHuge(mem'[a][i])
    BY <1>2, <2>2 DEF Keeps
  <2>4. lv[a] = k
    BY <1>1, <1>5, <1>6 DEF Shape, LevelsOK
  <2>5. PICK n \in Frames : n = Target(a, i)
    <3>1. IsLink(lv, a, i)
      BY <2>2, <2>4 DEF IsLink
    <3>2. Target(a, i) \in Tables
      BY <1>1, <3>1 DEF Shape, LinksOK
    <3> QED BY <3>2, VmmAssumption DEF Tables
  <2>6. Target(a, i)' = n /\ at' = n
    BY <2>2, <2>5 DEF Target
  <2>7. Tables' = Tables
    BY <2>2 DEF Tables
  <2>8. \E u \in [1 .. 4 -> Frames] : Descent(u)'
    BY <1>2, <1>3, <1>5, <1>6, <1>7, <1>9, <2>2, <2>3, <2>6, <2>7, DescentGrows, ZenonT(30)
  <2>9. PageOK'
    BY <1>8, <2>2, ZenonT(30) DEF PageOK, virt, phys
  <2>10. Aligned'
    BY <1>2, <2>2, <2>7 DEF Aligned, ChangesOnly
  <2>11. Progress'
    BY <1>2, <2>2 DEF Progress
  <2> QED BY <2>8, <2>9, <2>10, <2>11 DEF Walking
<1> QED BY <1>3, <1>4, <1>10, <1>11

\* write_leaf: the entry it writes holds the address asked for, and the call is
\* at its end or at its next page.
LEMMA LeafWInv ==
    ASSUME WInv, Allocates, write_leaf
    PROVE  Walking' /\ Aligned' /\ Progress'
<1>1. TypeInv /\ Walking /\ Aligned /\ Progress
  BY DEF WInv, TInv, IInv
<1>2. /\ call.status = "running" /\ level # 0 /\ level = LeafLevel /\ LeafLevel \in {3, 4}
      /\ EnsureFails \/ LeafWritten
  BY <1>1, LeafCases, Running
<1>3. CASE EnsureFails
  <2>1. UNCHANGED <<mem, free, pml4>> /\ level' = 0 /\ Return("fail")
    BY <1>3 DEF EnsureFails, Return
  <2>2. Walking' /\ Aligned'
    BY <1>1, <2>1 DEF Walking, Aligned, Tables
  <2> QED BY <1>1, <1>2, <2>1, <2>2, ReturnProgress
<1>4. CASE LeafWritten
  <2>1. PICK k \in {3, 4} : level = k /\ k = LeafLevel
    BY <1>2
  <2>2. PICK a \in Tables : at = a
    BY <1>1, <1>2, AtEntry
  <2>3. PICK i \in Index : slot = i
    BY <1>1, <1>2, AtEntry
  <2>4. Mapped(k, a, i)
    BY <1>1, <1>2, <1>4, <2>1, <2>2, <2>3, LeafEffect
  <2>5. /\ level' = 0 /\ free' = free /\ ChangesOnly(a, i)
        /\ mem'[a][i] = make_page_entry(phys, LeafFlags)
    BY <2>4 DEF Mapped
  <2>6. mem'[a][i].addr % kPageSize = 0
    <3>1. PageOK
      BY <1>1, <1>2 DEF Walking
    <3> QED BY <1>1, <1>2, <2>5, <3>1, WalkArgs
  <2>7. Aligned'
    BY <1>1, <2>5, <2>6 DEF Aligned, ChangesOnly, Tables
  <2>8. Progress'
    <3>1. call \in CallType /\ call # NoCall
      BY <1>1, <1>2, Running DEF NoCall
    <3>2. PICK page \in {kPageSize, kLargePageSize}, size \in Nat, done \in Nat :
              page = call.page /\ size = call.size /\ done = call.done
      BY <3>1, ZenonT(30) DEF CallType
    <3>3. page \in Nat \ {0}
      BY PageSizes
    <3>4. size % page = 0 /\ done % page = 0 /\ done < size
      BY <1>1, <1>2, <3>1, <3>2 DEF Progress
    <3>5. (done + page) % page = 0 /\ done + page <= size
      BY <3>3, <3>4, Multiples, ZenonT(30)
    <3>6. /\ call'.size = size /\ call'.done = done + page /\ call'.page = page
          /\ call'.status = IF done + page < size THEN "running" ELSE "ok"
      BY <1>4, <3>1, <3>2 DEF LeafWritten, CallType
    <3> QED BY <3>3, <3>4, <3>5, <3>6 DEF Progress
  <2> QED BY <2>5, <2>7, <2>8 DEF Walking
<1> QED BY <1>2, <1>3, <1>4

\* The checks of map_page and the start of its walk.
LEMMA EnterWInv ==
    ASSUME WInv, enter_page
    PROVE  Walking' /\ Aligned' /\ Progress'
<1>1. TypeInv /\ Walking /\ Aligned /\ Progress
  BY DEF WInv, TInv, IInv
<1>2. call.status = "running" /\ UNCHANGED <<mem, free, pml4>>
  BY DEF enter_page
<1>3. Aligned'
  BY <1>1, <1>2 DEF Aligned, Tables
<1>4. CASE ~ PageOK
  <2>1. Return("fail") /\ level' = 0
    BY <1>4 DEF enter_page, Return
  <2> QED BY <1>1, <1>2, <1>3, <2>1, ReturnProgress DEF Walking
<1>5. CASE PageOK
  <2>1. level' = 1 /\ at' = pml4[call.space] /\ call' = call
    BY <1>5 DEF enter_page
  <2>2. pml4[call.space] \in Frames
    <3>1. call.space \in Space /\ pml4[call.space] # NoTable
      BY <1>1, <1>2, <1>5, WalkArgs
    <3> QED BY <1>1, <3>1, VmmAssumption DEF TypeInv, TypeOK
  <2> DEFINE t == [k \in 1 .. 4 |-> pml4[call.space]]
  <2>3. t \in [1 .. 4 -> Frames] /\ t[1] = pml4[call.space]
    BY <2>2
  <2>4. PICK u \in [1 .. 4 -> Frames] : u[1] = pml4[call.space]
    BY <2>3, ZenonT(30)
  <2>5. Descent(u)'
    BY <1>2, <2>1, <2>4 DEF Descent
  <2>6. PageOK'
    BY <1>2, <1>5, <2>1 DEF PageOK, virt, phys
  <2>7. Progress'
    BY <1>1, <2>1 DEF Progress
  <2> QED BY <1>3, <2>5, <2>6, <2>7 DEF Walking
<1> QED BY <1>4, <1>5

\* create_address_space.
LEMMA CreateWInv ==
    ASSUME WInv, Allocates, NEW s \in Space, create_address_space(s)
    PROVE  Walking' /\ Aligned' /\ Progress'
<1>1. TypeInv /\ Aligned
  BY DEF WInv, TInv, IInv
<1>2. level' = 0 /\ call' = NoCall
  BY <1>1 DEF create_address_space, TypeInv, Idle
<1>3. CASE ~ TableAllocated
  BY <1>1, <1>2, <1>3 DEF create_address_space, Walking, Aligned, Progress, Tables
<1>4. CASE TableAllocated
  <2>1. PICK n \in free : n = NewTable /\ n \in Frames
    BY <1>1, NewTableFree
  <2>2. mem' = [mem EXCEPT ![n] = ZeroTable] /\ free' = free \ {n}
    BY <1>4, <2>1 DEF create_address_space, WithNewTable
  <2>3. Tables' \subseteq Tables \cup {n} /\ n \notin Tables /\ Tables \subseteq Frames
    BY <2>2, VmmAssumption DEF Tables
  <2>4. \A u \in Tables : mem'[u] = mem[u]
    BY <1>1, <2>2, <2>3 DEF TypeInv, TypeOK
  <2>5. \A ix \in Index : mem'[n][ix].addr = 0
    BY <1>1, <2>1, <2>2 DEF TypeInv, TypeOK, ZeroTable, NoEntry
  <2>6. 0 % kPageSize = 0
    BY Spans
  <2>7. Aligned'
    BY <1>1, <2>3, <2>4, <2>5, <2>6 DEF Aligned
  <2> QED BY <1>2, <2>7 DEF Walking, Progress
<1> QED BY <1>3, <1>4

\* A call that starts, or is refused.
LEMMA CallWInv ==
    ASSUME WInv, NEW s \in Space, NEW page \in {kPageSize, kLargePageSize},
           \/ \E a \in PageArgs \cup LargeArgs : CallPage(s, page, a)
           \/ \E a \in RangeArgs \cup LargeRangeArgs : CallRange(s, page, a)
    PROVE  Walking' /\ Aligned' /\ Progress'
<1>1. TypeInv /\ Aligned
  BY DEF WInv, TInv, IInv
<1>2. Idle /\ UNCHANGED <<mem, free, pml4, level, at>>
  BY DEF CallPage, CallRange
<1>3. level' = 0
  BY <1>1, <1>2 DEF TypeInv, Idle
<1>4. Aligned'
  BY <1>1, <1>2 DEF Aligned, Tables
<1>5. page \in Nat \ {0} /\ page % page = 0 /\ 0 % page = 0
  <2>1. page \in Nat \ {0}
    BY PageSizes
  <2> QED BY <2>1
<1>6. Progress'
  <2>1. ASSUME NEW a \in PageArgs \cup LargeArgs, CallPage(s, page, a) PROVE Progress'
    BY <1>5, <2>1 DEF CallPage, Start, Progress
  <2>2. ASSUME NEW a \in RangeArgs \cup LargeRangeArgs, CallRange(s, page, a) PROVE Progress'
    <3>1. CASE ~ RangeOK(s, page, a)
      BY <2>2, <3>1 DEF CallRange, Progress
    <3>2. CASE RangeOK(s, page, a)
      <4>1. a.size \in Nat /\ a.size # 0 /\ a.size % page = 0
        BY <3>2, ArgsAssumption DEF RangeOK
      <4>2. /\ call'.size = a.size /\ call'.page = page /\ call'.done = 0
            /\ call'.status = "running"
        BY <2>2, <3>2 DEF CallRange, Start
      <4> QED BY <1>5, <4>1, <4>2 DEF Progress
    <3> QED BY <3>1, <3>2
  <2> QED BY <2>1, <2>2
<1> QED BY <1>3, <1>4, <1>6 DEF Walking

\* Before any call.
LEMMA InitWInv == Init => WInv
<1> SUFFICES ASSUME Init PROVE WInv
  OBVIOUS
<1>1. Walking /\ Aligned /\ Progress
  BY DEF Init, Walking, Aligned, Tables, Progress
<1> QED BY <1>1, InitTInv DEF WInv

\* Every step keeps the invariant, one case for each action.
LEMMA StepKeepsWInv == WInv /\ Allocates /\ [Next]_vars => WInv'
<1> SUFFICES ASSUME WInv, Allocates, [Next]_vars PROVE Walking' /\ Aligned' /\ Progress'
  BY StepKeepsTInv DEF WInv
<1>1. CASE enter_page
  BY <1>1, EnterWInv
<1>2. CASE ensure_table
  BY <1>2, EnsureWInv
<1>3. CASE write_leaf
  BY <1>3, LeafWInv
<1>4. ASSUME NEW s \in Space, create_address_space(s) PROVE Walking' /\ Aligned' /\ Progress'
  BY <1>4, CreateWInv
<1>5. ASSUME NEW s \in Space, NEW a \in PageArgs, CallPage(s, kPageSize, a)
      PROVE  Walking' /\ Aligned' /\ Progress'
  BY <1>5, CallWInv
<1>6. ASSUME NEW s \in Space, NEW a \in LargeArgs, CallPage(s, kLargePageSize, a)
      PROVE  Walking' /\ Aligned' /\ Progress'
  BY <1>6, CallWInv
<1>7. ASSUME NEW s \in Space, NEW a \in RangeArgs, CallRange(s, kPageSize, a)
      PROVE  Walking' /\ Aligned' /\ Progress'
  BY <1>7, CallWInv
<1>8. ASSUME NEW s \in Space, NEW a \in LargeRangeArgs, CallRange(s, kLargePageSize, a)
      PROVE  Walking' /\ Aligned' /\ Progress'
  BY <1>8, CallWInv
<1>9. CASE UNCHANGED vars
  <2>0. /\ mem' = mem /\ free' = free /\ pml4' = pml4 /\ call' = call
        /\ level' = level /\ at' = at /\ Tables' = Tables /\ virt' = virt /\ phys' = phys
    BY <1>9 DEF vars, Tables, virt, phys
  <2>1. Aligned' /\ Progress'
    BY <2>0 DEF WInv, Aligned, Progress
  <2>2. PageOK => PageOK'
    BY <2>0 DEF PageOK
  <2>3. \A t : Descent(t) => Descent(t)'
    BY <2>0 DEF Descent, Target
  <2>4. Walking'
    BY <2>0, <2>2, <2>3 DEF WInv, Walking
  <2> QED BY <2>1, <2>4
<1> QED BY <1>1, <1>2, <1>3, <1>4, <1>5, <1>6, <1>7, <1>8, <1>9 DEF Next, MapStep

=============================================================================
