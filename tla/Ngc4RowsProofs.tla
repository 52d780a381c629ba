--------------------------- MODULE Ngc4RowsProofs ---------------------------
(***************************************************************************)
(* The listings of ngc4 stay inside what they allocate, for every limit    *)
(* not below the number of local commands and every database.              *)
(***************************************************************************)
EXTENDS Ngc4Rows, TLAPS

\* An entry visited by one of the loops.
LEMMA VisitKeeps ==
    ASSUME IInv, NEW shown \in BOOLEAN, Visit(shown), cmd = "states" => shown
    PROVE  IInv'
  <1>1. /\ at = "db" /\ left > 0 /\ left' = left - 1 /\ i' = (IF shown THEN i + 1 ELSE i)
        /\ at' = (IF shown /\ i' > LIMIT THEN "sent" ELSE at)
        /\ UNCHANGED <<cmd, locals, room, got, printed>>
    BY DEF Visit
  <1>2. CASE cmd = "states"
    BY <1>1, <1>2, FewLocal DEF IInv, RowsInside, Rooms, HasLocal, Listings
  <1>3. CASE cmd # "states"
    BY <1>1, <1>3, FewLocal DEF IInv, RowsInside, Rooms, HasLocal, Listings
  <1> QED BY <1>2, <1>3

\* A command of ngc4 itself.
LEMMA LocalKeeps ==
    ASSUME IInv, NEW shown \in BOOLEAN, NEW limited \in BOOLEAN, Local(shown, limited)
    PROVE  IInv'
BY FewLocal DEF IInv, RowsInside, Rooms, Local, HasLocal, Listings

\* No listing writes behind the rows it allocated, and the client prints only what
\* was written.
THEOREM ListingsStayInside == Spec => []RowsInside
  <1>1. Init => IInv
    BY FewLocal DEF Init, IInv, RowsInside, Rooms, HasLocal, Listings
  <1>2. IInv /\ [Next]_vars => IInv'
    <2> SUFFICES ASSUME IInv, [Next]_vars PROVE IInv'
      OBVIOUS
    <2>1. CASE cmd_help \/ cmd_help_all
      BY <2>1, VisitKeeps, LocalKeeps DEF cmd_help, cmd_help_all
    <2>2. CASE cmd_options \/ cmd_states \/ cmd_services \/ cmd_all_services
      BY <2>2, VisitKeeps DEF cmd_options, cmd_states, cmd_services, cmd_all_services
    <2>3. CASE LocalsDone \/ VisitsDone
      BY <2>3, FewLocal DEF LocalsDone, VisitsDone, IInv, RowsInside, Rooms, HasLocal, Listings
    <2>4. ASSUME NEW n \in 0..i, RecvPayload(n) PROVE IInv'
      BY <2>4, FewLocal DEF RecvPayload, IInv, RowsInside, Rooms, HasLocal
    <2>5. CASE Rows
      BY <2>5 DEF Rows, Row, LastRow, IInv, RowsInside, Rooms, HasLocal
    <2>6. CASE UNCHANGED vars
      BY <2>6 DEF vars, IInv, RowsInside, Rooms, HasLocal
    <2> QED BY <2>1, <2>2, <2>3, <2>4, <2>5, <2>6 DEF Next, ngc_hlp, ngc_state_entry, ngc_active_db, ngc_option_db
  <1>3. IInv => RowsInside
    BY DEF IInv
  <1> QED BY <1>1, <1>2, <1>3, PTL DEF Spec
=============================================================================
