------------------------------ MODULE ConsoleTables ------------------------------
(***************************************************************************)
(* The paged tables of the three web consoles (default, air and berry):     *)
(* channels, tokens, users, redemption codes and logs.  Every table loads a *)
(* page at a time into one list, and marks the rows of that list when an    *)
(* enabling, a disabling or a deletion is answered.  What differs, and what *)
(* this module keeps apart, is the list an answer is applied to: the one of *)
(* the moment, or the one that the closure of the click had captured; by    *)
(* position, by id, or by changing a row object in place.                   *)
(*                                                                         *)
(* A list is its rows and the identity of its array; a row is an item, the  *)
(* identity of its object and the status it shows.  The other columns, the  *)
(* dialogs, the sizes of air's pages and the messages are left out.         *)
(***************************************************************************)
EXTENDS Picks, SequencesExt

CONSTANTS
    NItems,            \* the items of the server are 1..NItems
    ITEMS_PER_PAGE,
    Tables,            \* the tables to choose from
    MaxUnderWay,       \* bound on the requests under way
    MaxEvents          \* bound on the clicks, losses and changes from outside

Items == 1..NItems
DefaultTables == {"default channels", "default tokens", "default users",
                  "default redemptions", "default logs"}
AirTables == {"air channels", "air tokens", "air users", "air redemptions", "air logs",
              "air drawings"}
BerryTables == {"berry channels", "berry tokens", "berry users", "berry redemptions",
                "berry logs"}
ChannelTables == {"default channels", "air channels", "berry channels"}
TokenTables == {"default tokens", "air tokens", "berry tokens"}
UserTables == {"default users", "air users", "berry users"}
RedemptionTables == {"default redemptions", "air redemptions", "berry redemptions"}

ASSUME TablesAssumption ==
    /\ NItems \in Nat \ {0} /\ ITEMS_PER_PAGE \in Nat \ {0}
    /\ Tables \subseteq DefaultTables \cup AirTables \cup BerryTables
    /\ MaxUnderWay \in Nat \ {0, 1} /\ MaxEvents \in Nat

VARIABLES
    table,       \* the table on the screen
    items,       \* the server's items: their status, or "gone"
    hadStatus,   \* history: every status that an item has had
    listing,     \* the list: its array and its rows
    page,        \* activePage, from 1
    rowCount,    \* the row count that air's pagination is given
    orderBy,     \* whether another order than the default was chosen
    tableLoading,\* loading; in berry: searching
    searching,   \* the loader of the search field
    switches,    \* berry: the switch that every row on the page keeps for itself
    calls,       \* requests under way
    stamp,       \* identities that were given to arrays and rows
    displaced,   \* history: another row came to the place of an operation under way
    disturbed,   \* history: a click, a change or a loss while a request was under way,
                 \* or a list that held an item twice
    lostLoaders, \* history: the loaders that wait for a request that was lost
    events

screen == <<listing, page, rowCount, switches>>
loaders == <<tableLoading, searching, lostLoaders>>
server == <<items, hadStatus>>
tableVars == <<table, server, screen, orderBy, loaders, calls, stamp, displaced, disturbed,
               events>>

Statuses == {"on", "off", "auto", "gone", "none"}
NoSwitch == <<>>
NoRow == [id |-> 0, born |-> 0, status |-> "none"]

-----------------------------------------------------------------------------
(* The server.  "auto" is the status that the program sets itself: a channel  *)
(* that is disabled automatically, a token that has expired or is exhausted,  *)
(* a redemption code that was used.  The first user is the root.              *)

Root == 1

\* the slice of a list that may end before
Slice(list, first, last) == SubSeq(list, first, IF last < Len(list) THEN last ELSE Len(list))

ServerList(order) ==
    LET there == Picked([i \in Items |-> i], {i \in Items : items[i] # "gone"}) IN
    IF order THEN Reverse(there) ELSE there

Rows(ids) == [k \in DOMAIN ids |-> [id |-> ids[k], born |-> 0, status |-> items[ids[k]]]]

ServerPage(order, p) ==
    Rows(Slice(ServerList(order), p * ITEMS_PER_PAGE + 1, (p + 1) * ITEMS_PER_PAGE))

\* what a keyword finds: here, the first item
WithKeyword == Rows(IF items[1] # "gone" THEN <<1>> ELSE <<>>)

\* the update of a channel does not ask whether there is one
Refuses(c) ==
    \/ items[c.row.id] = "gone" /\ table \notin ChannelTables
    \/ table \in TokenTables /\ c.act = "enable" /\ items[c.row.id] = "auto"
    \/ table \in UserTables /\ c.row.id = Root /\ c.act # "enable"

\* a promotion or a demotion may be refused for the roles, which are left out
MayRefuse(c) == Refuses(c) \/ (table \in UserTables /\ c.act = "other")

Asked == [enable |-> "on", disable |-> "off", delete |-> "gone", other |-> "none"]
StatusAfter(c) ==
    IF items[c.row.id] = "gone" \/ c.act = "other" THEN items[c.row.id] ELSE Asked[c.act]
AnsweredStatus(c) == IF c.act = "other" /\ items[c.row.id] # "gone" THEN items[c.row.id]
                     ELSE Asked[c.act]

-----------------------------------------------------------------------------
(* Lists *)

Born(rows) == [k \in DOMAIN rows |-> [rows[k] EXCEPT !.born = stamp + 1]]

Splice(rows, p, data) ==
    LET start == IF p * ITEMS_PER_PAGE < Len(rows) THEN p * ITEMS_PER_PAGE ELSE Len(rows) IN
    Slice(rows, 1, start) \o data \o Slice(rows, start + Len(data) + 1, Len(rows))

\* the row objects are shared by every copy of a list
Marked(rows, row, status) ==
    [k \in DOMAIN rows |->
        IF rows[k].id = row.id /\ rows[k].born = row.born
        THEN [rows[k] EXCEPT !.status = status] ELSE rows[k]]

\* newRows[k].status = status, on a copy
MarkedAt(rows, k, status) ==
    IF k \in DOMAIN rows THEN [rows EXCEPT ![k].status = status] ELSE rows

\* the row of the click, with the answered status, in the place of the row of its id
Replaced(rows, row, status) ==
    LET places == {k \in DOMAIN rows : rows[k].id = row.id} IN
    IF places = {} THEN rows
    ELSE LET k == CHOOSE k \in places : \A j \in places : k <= j IN
         [rows EXCEPT ![k] = [id |-> row.id, born |-> stamp + 1, status |-> status]]

Without(rows, id) ==
    LET places == {k \in DOMAIN rows : rows[k].id = id} IN
    IF places = {} THEN rows
    ELSE RemoveAt(rows, CHOOSE k \in places : \A j \in places : k <= j)

PageOf(rows, k) == Slice(rows, (k - 1) * ITEMS_PER_PAGE + 1, k * ITEMS_PER_PAGE)
OnPage(rows, k) == {PageOf(rows, k)[j].id : j \in DOMAIN PageOf(rows, k)}

\* identities matter where rows or arrays are changed in place, and for switches
InPlace == {"default tokens", "default users", "default redemptions", "air channels"}
NextStamp == IF table \in InPlace \cup BerryTables THEN stamp + 1 ELSE stamp

\* berry: a row's component keeps its switch while it stays on the page, and a
\* row that comes to the page takes the status of the list
Remounted(rows, k) ==
    LET on == PageOf(rows, k) IN
    [i \in Items |->
        IF table \notin BerryTables \/ i \notin OnPage(rows, k) THEN NoSwitch
        ELSE IF switches[i] # NoSwitch THEN switches[i]
        ELSE <<on[CHOOSE j \in DOMAIN on : on[j].id = i].status, stamp + 1>>]

\* the place of an operation, by the page and the row of its click
Place(c) == (c.at - 1) * ITEMS_PER_PAGE + c.idx
Displaced(rows) ==
    /\ table = "default channels"
    /\ \E c \in calls : c.kind = "manage" /\ Place(c) \in DOMAIN rows /\ rows[Place(c)].id # c.row.id

\* some item is in two rows: a page was loaded a second time, into another place
Doubled(rows) == \E j, k \in DOMAIN rows : j # k /\ rows[j].id = rows[k].id

\* the screen takes a new array, and shows page k
ShowArray(arr, rows, k) ==
    /\ listing' = [arr |-> arr, rows |-> rows]
    /\ page' = k
    /\ switches' = Remounted(rows, k)
    /\ stamp' = NextStamp
    /\ displaced' = (displaced \/ Displaced(rows))

Show(rows, k) == ShowArray(NextStamp, rows, k)

Turn(k) ==
    /\ page' = k /\ switches' = Remounted(listing.rows, k) /\ stamp' = NextStamp
    /\ UNCHANGED <<listing, displaced>>

-----------------------------------------------------------------------------
(* Loads, table by table: the rows after the answer to loadX(startIdx).  A   *)
(* handler uses the list that its closure captured at the click, unless it   *)
(* gives the setter a function.                                              *)

loadChannelsDefault(c) == IF c.p = 0 THEN c.data ELSE Splice(listing.rows, c.p, c.data)
loadTokensDefault(c) == IF c.p = 0 THEN Born(c.data) ELSE Splice(c.list.rows, c.p, Born(c.data))
\* users.push(...data): onto the array that the click had captured
loadUsersDefault(c) == IF c.p = 0 THEN Born(c.data) ELSE c.list.rows \o Born(c.data)
loadRedemptionsDefault(c) == IF c.p = 0 THEN Born(c.data) ELSE c.list.rows \o Born(c.data)
loadLogsDefault(c) == IF c.p = 0 THEN c.data ELSE Splice(listing.rows, c.p, c.data)

\* setChannelFormat makes every row anew
loadChannelsAir(c) == Born(IF c.p = 0 THEN c.data ELSE Splice(c.list.rows, c.p, c.data))
loadTokensAir(c) == IF c.p = 0 THEN c.data ELSE Splice(c.list.rows, c.p, c.data)
loadUsersAir(c) == IF c.p = 0 THEN c.data ELSE c.list.rows \o c.data
loadRedemptionsAir(c) == IF c.p = 0 THEN c.data ELSE c.list.rows \o c.data
loadLogsAir(c) == IF c.p = 0 THEN c.data ELSE Splice(c.list.rows, c.p, c.data)
loadDrawingsAir(c) == IF c.p = 0 THEN c.data ELSE Splice(c.list.rows, c.p, c.data)

loadChannelsBerry(c) == IF c.p = 0 THEN c.data ELSE Splice(c.list.rows, c.p, c.data)
loadTokensBerry(c) == IF c.p = 0 THEN c.data ELSE Splice(c.list.rows, c.p, c.data)
loadUsersBerry(c) == IF c.p = 0 THEN c.data ELSE Splice(c.list.rows, c.p, c.data)
loadRedemptionsBerry(c) == IF c.p = 0 THEN c.data ELSE Splice(c.list.rows, c.p, c.data)
loadLogsBerry(c) == IF c.p = 0 THEN c.data ELSE Splice(c.list.rows, c.p, c.data)

Loaded(c) ==
    CASE table = "default channels" -> loadChannelsDefault(c)
      [] table = "default tokens" -> loadTokensDefault(c)
      [] table = "default users" -> loadUsersDefault(c)
      [] table = "default redemptions" -> loadRedemptionsDefault(c)
      [] table = "default logs" -> loadLogsDefault(c)
      [] table = "air channels" -> loadChannelsAir(c)
      [] table = "air tokens" -> loadTokensAir(c)
      [] table = "air users" -> loadUsersAir(c)
      [] table = "air redemptions" -> loadRedemptionsAir(c)
      [] table = "air logs" -> loadLogsAir(c)
      [] table = "air drawings" -> loadDrawingsAir(c)
      [] table = "berry channels" -> loadChannelsBerry(c)
      [] table = "berry tokens" -> loadTokensBerry(c)
      [] table = "berry users" -> loadUsersBerry(c)
      [] table = "berry redemptions" -> loadRedemptionsBerry(c)
      [] table = "berry logs" -> loadLogsBerry(c)

\* the tables that append to the captured array itself, and not to a copy
PushInPlace == {"default users", "default redemptions"}

-----------------------------------------------------------------------------
(* Operations on a row, table by table: the rows after a successful answer.   *)
(* The rows of berry keep their status; a row's switch is set instead.        *)

\* by the position at the click, in the list of the moment
manageChannelDefault(c) == MarkedAt(listing.rows, Place(c), c.mark)
\* not the code: by the position, in the list of the moment, for tokens too
TokenByPosition(c) == MarkedAt(listing.rows, Place(c), c.mark)

\* newTokens[realIdx].status = ...: the row object of the click, in every copy
manageTokenDefault(c) == Marked(c.list.rows, c.row, c.mark)
manageUserDefault(c) == Marked(c.list.rows, c.row, c.mark)
manageRedemptionDefault(c) == Marked(c.list.rows, c.row, c.mark)

\* record.status = ...; a deletion removes the row by its id afterwards
manageChannelAir(c) == IF c.act = "delete" THEN Without(c.list.rows, c.row.id)
                       ELSE Marked(c.list.rows, c.row, c.mark)
manageTokenAir(c) == IF c.act = "delete" THEN Without(c.list.rows, c.row.id)
                     ELSE Replaced(c.list.rows, c.row, c.mark)
manageUserAir(c) == IF c.act = "delete" THEN Without(c.list.rows, c.row.id)
                    ELSE Replaced(c.list.rows, c.row, c.mark)
manageRedemptionAir(c) == IF c.act = "delete" THEN Without(c.list.rows, c.row.id)
                          ELSE Replaced(c.list.rows, c.row, c.mark)

ManagedRows(c) ==
    CASE table = "default channels" -> manageChannelDefault(c)
      [] table = "default tokens" -> manageTokenDefault(c)
      [] table = "default users" -> manageUserDefault(c)
      [] table = "default redemptions" -> manageRedemptionDefault(c)
      [] table = "air channels" -> manageChannelAir(c)
      [] table = "air tokens" -> manageTokenAir(c)
      [] table = "air users" -> manageUserAir(c)
      [] table = "air redemptions" -> manageRedemptionAir(c)

\* berry: the page that is loaded after a success, from 0; -1 is none
manageChannelBerry(c) == IF c.act = "delete" THEN c.at - 1 ELSE -1
manageTokenBerry(c) == IF c.act = "delete" THEN c.at - 1 ELSE -1
manageUserBerry(c) == c.at - 1
manageRedemptionBerry(c) == IF c.act = "delete" THEN 0 ELSE -1

Reloaded(c) ==
    CASE table = "berry channels" -> manageChannelBerry(c)
      [] table = "berry tokens" -> manageTokenBerry(c)
      [] table = "berry users" -> manageUserBerry(c)
      [] table = "berry redemptions" -> manageRedemptionBerry(c)

\* berry, handleStatus: the switch of the same row component is turned
Switched(c) ==
    [i \in Items |->
        IF c.act \in {"enable", "disable"} /\ i = c.row.id
           /\ switches[i] # NoSwitch /\ switches[i][2] = c.row.born
        THEN <<Asked[c.act], c.row.born>> ELSE switches[i]]

-----------------------------------------------------------------------------
(* What a row offers, table by table *)

Toggle(status) == IF status = "on" THEN {"disable"} ELSE {"enable"}

rowChannelDefault(r) == IF r.status = "gone" THEN {} ELSE Toggle(r.status) \cup {"delete", "other"}
rowTokenDefault(r) == IF r.status = "gone" THEN {} ELSE Toggle(r.status) \cup {"delete"}
rowUserDefault(r) ==
    IF r.status = "gone" \/ r.id = Root THEN {} ELSE Toggle(r.status) \cup {"delete", "other"}
rowRedemptionDefault(r) ==
    IF r.status = "gone" THEN {}
    ELSE (IF r.status = "auto" THEN {} ELSE Toggle(r.status)) \cup {"delete"}
rowChannelAir(r) == Toggle(r.status) \cup {"delete"}
rowTokenAir(r) == Toggle(r.status) \cup {"delete"}
rowUserAir(r) == (IF r.status = "auto" THEN {} ELSE Toggle(r.status)) \cup {"delete", "other"}
rowRedemptionAir(r) == (IF r.status = "auto" THEN {} ELSE Toggle(r.status)) \cup {"delete"}
rowChannelBerry(r) == Toggle(switches[r.id][1]) \cup {"delete", "other"}
rowTokenBerry(r) == Toggle(switches[r.id][1]) \cup {"delete"}
rowUserBerry(r) ==
    Toggle(switches[r.id][1]) \cup {"delete"} \cup (IF r.id = Root THEN {} ELSE {"other"})
rowRedemptionBerry(r) ==
    (IF r.status \in {"on", "off"} THEN Toggle(switches[r.id][1]) ELSE {}) \cup {"delete"}

Offered(r) ==
    CASE table = "default channels" -> rowChannelDefault(r)
      [] table = "default tokens" -> rowTokenDefault(r)
      [] table = "default users" -> rowUserDefault(r)
      [] table = "default redemptions" -> rowRedemptionDefault(r)
      [] table = "air channels" -> rowChannelAir(r)
      [] table = "air tokens" -> rowTokenAir(r)
      [] table = "air users" -> rowUserAir(r)
      [] table = "air redemptions" -> rowRedemptionAir(r)
      [] table = "berry channels" -> rowChannelBerry(r)
      [] table = "berry tokens" -> rowTokenBerry(r)
      [] table = "berry users" -> rowUserBerry(r)
      [] table = "berry redemptions" -> rowRedemptionBerry(r)
      [] OTHER -> {}
-----------------------------------------------------------------------------
(* Paging, searching and ordering, table by table.                            *)
(*   turn:    whether activePage is set before or after the page is loaded    *)
(*   refresh: the page that refresh loads: the one shown ("page"), the first  *)
(*            and then turns to it ("first"), or turns to it before           *)
(*            ("first now"); berry's logs are loaded twice, by the effect of  *)
(*            initPage; the users of default have no refresh                  *)
(*   loader:  which of them raise the loader of the table                     *)
(*   search:  by a keyword, by filters only, or not at all                    *)

Paging(turn, refresh, loader) == [turn |-> turn, refresh |-> refresh, loader |-> loader]

pagingChannelsDefault == Paging("after", "page", {"refresh"})
pagingTokensDefault == Paging("after", "page", {"refresh"})
pagingUsersDefault == Paging("after", "none", {})
pagingRedemptionsDefault == Paging("after", "first", {"refresh"})
pagingLogsDefault == Paging("after", "page", {"refresh"})
pagingChannelsAir == Paging("before", "page", {"load"})
pagingTokensAir == Paging("before", "page", {"load", "manage"})
pagingUsersAir == Paging("before", "page", {})
pagingRedemptionsAir == Paging("before", "page", {})
pagingLogsAir == Paging("before", "first now", {"load"})
pagingDrawingsAir == Paging("before", "first now", {"load"})
pagingChannelsBerry == Paging("after", "page", {"load"})
pagingTokensBerry == Paging("after", "page", {"load"})
pagingUsersBerry == Paging("after", "page", {"load"})
pagingRedemptionsBerry == Paging("after", "first", {"load"})
pagingLogsBerry == Paging("after", "twice", {"load"})

PagingOf ==
    CASE table = "default channels" -> pagingChannelsDefault
      [] table = "default tokens" -> pagingTokensDefault
      [] table = "default users" -> pagingUsersDefault
      [] table = "default redemptions" -> pagingRedemptionsDefault
      [] table = "default logs" -> pagingLogsDefault
      [] table = "air channels" -> pagingChannelsAir
      [] table = "air tokens" -> pagingTokensAir
      [] table = "air users" -> pagingUsersAir
      [] table = "air redemptions" -> pagingRedemptionsAir
      [] table = "air logs" -> pagingLogsAir
      [] table = "air drawings" -> pagingDrawingsAir
      [] table = "berry channels" -> pagingChannelsBerry
      [] table = "berry tokens" -> pagingTokensBerry
      [] table = "berry users" -> pagingUsersBerry
      [] table = "berry redemptions" -> pagingRedemptionsBerry
      [] table = "berry logs" -> pagingLogsBerry

Searching(search, order, sort) == [search |-> search, order |-> order, sort |-> sort]

searchChannelsDefault == Searching("keyword", FALSE, TRUE)
searchTokensDefault == Searching("keyword", TRUE, TRUE)
searchUsersDefault == Searching("keyword", TRUE, TRUE)
searchRedemptionsDefault == Searching("keyword", FALSE, TRUE)
sortLogsDefault == Searching("none", FALSE, TRUE)
searchChannelsAir == Searching("keyword", FALSE, FALSE)
searchTokensAir == Searching("keyword", TRUE, FALSE)
searchUsersAir == Searching("keyword", TRUE, FALSE)
searchRedemptionsAir == Searching("keyword", FALSE, FALSE)
searchChannelsBerry == Searching("keyword", FALSE, FALSE)
searchTokensBerry == Searching("keyword", FALSE, FALSE)
searchUsersBerry == Searching("keyword", FALSE, FALSE)
searchRedemptionsBerry == Searching("keyword", FALSE, FALSE)
searchLogsBerry == Searching("filters", FALSE, FALSE)

SearchingOf ==
    CASE table = "default channels" -> searchChannelsDefault
      [] table = "default tokens" -> searchTokensDefault
      [] table = "default users" -> searchUsersDefault
      [] table = "default redemptions" -> searchRedemptionsDefault
      [] table = "default logs" -> sortLogsDefault
      [] table = "air channels" -> searchChannelsAir
      [] table = "air tokens" -> searchTokensAir
      [] table = "air users" -> searchUsersAir
      [] table = "air redemptions" -> searchRedemptionsAir
      [] table = "berry channels" -> searchChannelsBerry
      [] table = "berry tokens" -> searchTokensBerry
      [] table = "berry users" -> searchUsersBerry
      [] table = "berry redemptions" -> searchRedemptionsBerry
      [] table = "berry logs" -> searchLogsBerry
      [] OTHER -> Searching("none", FALSE, FALSE)

\* air: the row count for the pagination, from the rows and the page at the click
setChannelFormat(rows, at) ==
    IF Len(rows) >= ITEMS_PER_PAGE THEN Len(rows) + ITEMS_PER_PAGE ELSE Len(rows)
setTokensFormat(rows, at) ==
    IF Len(rows) >= ITEMS_PER_PAGE THEN Len(rows) + ITEMS_PER_PAGE ELSE Len(rows)
setCount(rows, at) == IF Len(rows) >= at * ITEMS_PER_PAGE THEN Len(rows) + 1 ELSE Len(rows)
setRedemptionFormat(rows, at) ==
    IF Len(rows) >= at * ITEMS_PER_PAGE THEN Len(rows) + 1 ELSE Len(rows)
setLogsFormat(rows, at) == Len(rows) + ITEMS_PER_PAGE

Counted(rows, at) ==
    CASE table = "air channels" -> setChannelFormat(rows, at)
      [] table = "air tokens" -> setTokensFormat(rows, at)
      [] table = "air users" -> setCount(rows, at)
      [] table = "air redemptions" -> setRedemptionFormat(rows, at)
      [] table \in {"air logs", "air drawings"} -> setLogsFormat(rows, at)
      [] OTHER -> 0

PagesLoaded(rows) == (Len(rows) + ITEMS_PER_PAGE - 1) \div ITEMS_PER_PAGE
PagesOffered ==
    IF table \in AirTables THEN 1..((rowCount + ITEMS_PER_PAGE - 1) \div ITEMS_PER_PAGE)
    ELSE IF table \in BerryTables
    THEN {page - 1, page + 1} \cap 1..(Len(listing.rows) \div ITEMS_PER_PAGE + 1)
    ELSE 1..(Len(listing.rows) \div ITEMS_PER_PAGE + 1)

-----------------------------------------------------------------------------
(* Requests *)

NoList == [arr |-> 0, rows |-> <<>>]
\* the tables whose handlers need no captured list
Captured == IF table \in {"default channels", "default logs"} THEN NoList ELSE listing

FreeSlots == {n \in 1..MaxUnderWay : \A c \in calls : c.n # n}
Slot == CHOOSE n \in FreeSlots : \A m \in FreeSlots : n <= m

\* a request: what it asks for, and what its handler has captured
TableRequest(n, kind, list, at) ==
    [n |-> n, kind |-> kind, list |-> list, at |-> at, p |-> 0, order |-> FALSE,
     turn |-> 0, reset |-> FALSE, flip |-> "none", row |-> NoRow, idx |-> 0, act |-> "none",
     stage |-> "sent", data |-> <<>>, mark |-> "none"]
Load(n, p, order) == [TableRequest(n, "load", Captured, page) EXCEPT !.p = p, !.order = order]

Spins(what) == tableLoading' = (tableLoading \/ what \in PagingOf.loader)

Click ==
    /\ events < MaxEvents /\ events' = events + 1
    /\ disturbed' = (disturbed \/ calls # {})
    /\ UNCHANGED <<table, server, lostLoaders>>

GoToPage(k) ==
    /\ Click /\ k # page
    /\ LET more == k = PagesLoaded(listing.rows) + 1
           late == more /\ PagingOf.turn = "after" IN
       /\ IF more
          THEN /\ FreeSlots # {}
               /\ calls' = calls \cup {[Load(Slot, k - 1, orderBy) EXCEPT
                                            !.turn = IF late THEN k ELSE 0]}
               /\ Spins("load")
          ELSE UNCHANGED <<calls, tableLoading>>
       /\ IF late THEN UNCHANGED <<listing, page, switches, stamp, displaced>> ELSE Turn(k)
    /\ UNCHANGED <<rowCount, orderBy, searching>>

RefreshTable ==
    /\ Click /\ FreeSlots # {} /\ PagingOf.refresh # "none"
    /\ CASE PagingOf.refresh = "page" -> calls' = calls \cup {Load(Slot, page - 1, orderBy)}
         [] PagingOf.refresh = "first" ->
                calls' = calls \cup {[Load(Slot, 0, orderBy) EXCEPT !.turn = 1]}
         [] PagingOf.refresh = "first now" -> calls' = calls \cup {Load(Slot, 0, orderBy)}
         [] PagingOf.refresh = "twice" ->
                \E m, n \in FreeSlots :
                    m < n /\ calls' = calls \cup {Load(m, 0, orderBy), Load(n, 0, orderBy)}
    /\ IF PagingOf.refresh \in {"first now", "twice"} THEN Turn(1)
       ELSE UNCHANGED <<listing, page, switches, stamp, displaced>>
    /\ tableLoading' = (tableLoading \/ PagingOf.loader \cap {"load", "refresh"} # {})
    /\ UNCHANGED <<rowCount, orderBy, searching>>

\* a blank keyword loads the first page, and resets the order
SearchBlank ==
    /\ Click /\ FreeSlots # {} /\ SearchingOf.search # "none"
    /\ calls' = calls \cup {[Load(Slot, 0, orderBy) EXCEPT
                                 !.turn = 1, !.reset = SearchingOf.order]}
    /\ Spins("load")
    /\ UNCHANGED <<screen, orderBy, searching, stamp, displaced>>

SearchKeyword ==
    /\ Click /\ FreeSlots # {} /\ SearchingOf.search = "keyword"
    /\ calls' = calls \cup {TableRequest(Slot, "search", NoList, page)}
    /\ IF table \in BerryTables THEN tableLoading' = TRUE /\ UNCHANGED searching
       ELSE searching' = TRUE /\ UNCHANGED tableLoading
    /\ UNCHANGED <<screen, orderBy, stamp, displaced>>

\* the effect on orderBy loads the first page
handleOrderByChange ==
    /\ Click /\ FreeSlots # {} /\ SearchingOf.order
    /\ orderBy' = ~orderBy
    /\ Turn(1)
    /\ calls' = calls \cup {Load(Slot, 0, ~orderBy)}
    /\ Spins("load")
    /\ UNCHANGED <<rowCount, searching>>

\* sortX: by a column, and the other way when the first row was first already
SortRows ==
    /\ Click /\ SearchingOf.sort /\ listing.rows # <<>>
    /\ \E from \in [DOMAIN listing.rows -> DOMAIN listing.rows] :
        LET up == [k \in DOMAIN from |-> listing.rows[from[k]]] IN
        /\ \A j, k \in DOMAIN from :
              j < k => up[j].id < up[k].id \/ (up[j].id = up[k].id /\ from[j] < from[k])
        /\ Show(IF up[1].id = listing.rows[1].id THEN Reverse(up) ELSE up, page)
    /\ tableLoading' = FALSE
    /\ UNCHANGED <<rowCount, orderBy, searching, calls>>

Manage(k, act) ==
    /\ Click /\ FreeSlots # {}
    /\ k \in DOMAIN PageOf(listing.rows, page)
    /\ LET row == PageOf(listing.rows, page)[k] IN
       /\ act \in Offered(row)
       /\ calls' = calls \cup
            {[TableRequest(Slot, "manage", Captured, page) EXCEPT
                 !.act = act, !.idx = k,
                 !.row = IF table \in BerryTables
                         THEN [row EXCEPT !.born = switches[row.id][2]] ELSE row]}
    /\ Spins("manage")
    /\ UNCHANGED <<screen, orderBy, searching, stamp, displaced>>

deleteAllDisabledChannels ==
    /\ Click /\ FreeSlots # {} /\ table \in ChannelTables
    /\ calls' = calls \cup {TableRequest(Slot, "purge", Captured, page)}
    /\ UNCHANGED <<screen, orderBy, searching, tableLoading, stamp, displaced>>

-----------------------------------------------------------------------------
(* The server answers *)

At(c, stage) == c.stage = stage
Answered(c, answer) == calls' = (calls \ {c}) \cup {answer}
ServerStep == UNCHANGED <<table, screen, orderBy, loaders, stamp, displaced>>
Undisturbed == UNCHANGED <<disturbed, events>>

Queried(c) ==
    /\ At(c, "sent") /\ c.kind \in {"load", "reload", "search"}
    /\ Answered(c, [c EXCEPT !.stage = "back",
                             !.data = IF c.kind = "search" THEN WithKeyword ELSE ServerPage(c.order, c.p)])
    /\ ServerStep /\ Undisturbed /\ UNCHANGED server

Done(c) ==
    /\ At(c, "sent") /\ c.kind = "manage" /\ ~Refuses(c)
    /\ Answered(c, [c EXCEPT !.stage = "back", !.mark = AnsweredStatus(c)])
    /\ items' = [items EXCEPT ![c.row.id] = StatusAfter(c)]
    /\ hadStatus' = [hadStatus EXCEPT ![c.row.id] = @ \cup {StatusAfter(c)}]
    /\ ServerStep /\ Undisturbed

Refused(c) ==
    /\ At(c, "sent") /\ c.kind = "manage" /\ MayRefuse(c)
    /\ Answered(c, [c EXCEPT !.stage = "refused"])
    /\ ServerStep /\ Undisturbed /\ UNCHANGED server

Purged(c) ==
    /\ At(c, "sent") /\ c.kind = "purge"
    /\ Answered(c, [c EXCEPT !.stage = "back"])
    /\ items' = [i \in Items |-> IF items[i] = "on" THEN "on" ELSE "gone"]
    /\ hadStatus' = [i \in Items |-> hadStatus[i] \cup {items'[i]}]
    /\ ServerStep /\ Undisturbed

Trouble == events < MaxEvents /\ events' = events + 1 /\ disturbed' = TRUE

\* success: false, for any other reason
Failed(c) ==
    /\ At(c, "sent") /\ Trouble
    /\ Answered(c, [c EXCEPT !.stage = "refused"])
    /\ ServerStep /\ UNCHANGED server

-----------------------------------------------------------------------------
(* The answers at the page *)

Here(c) == c \in calls /\ c.stage \in {"back", "refused"} /\ UNCHANGED <<table, server, events>>
Lowered == lostLoaders' = lostLoaders \cap {l \in {"table", "search"} :
                                              IF l = "table" THEN tableLoading' ELSE searching'}

CheckDoubled == disturbed' = (disturbed \/ Doubled(listing'.rows))

\* setOrderBy(''): its effect loads again, when there was an order
ResetAfter(c) ==
    IF c.reset /\ orderBy THEN {[Load(c.n, 0, FALSE) EXCEPT !.list = listing', !.at = page']} ELSE {}

\* setLoading(false), whatever was answered; a reset raises it again
LoaderAfterLoad(c) == ResetAfter(c) # {} /\ "load" \in PagingOf.loader

LoadAnswered(c) ==
    /\ Here(c) /\ c.kind = "load"
    /\ LET k == IF c.turn # 0 THEN c.turn ELSE page IN
       IF c.stage = "refused" THEN Turn(k) /\ UNCHANGED rowCount
       ELSE /\ ShowArray(IF table \in PushInPlace /\ c.p # 0 THEN c.list.arr ELSE NextStamp,
                         Loaded(c), k)
            /\ rowCount' = Counted(Loaded(c), c.at)
    /\ orderBy' = (orderBy /\ ~c.reset)
    /\ calls' = {IF table \in PushInPlace /\ d.list.arr = listing'.arr
                 THEN [d EXCEPT !.list = listing'] ELSE d : d \in calls \ {c}} \cup ResetAfter(c)
    /\ tableLoading' = LoaderAfterLoad(c)
    /\ UNCHANGED searching
    /\ Lowered /\ CheckDoubled

\* berry's users: the switch is turned when the list is there again
LoadThenSwitch(c) ==
    /\ Here(c) /\ c.kind = "reload"
    /\ LET turned == Switched([c EXCEPT !.act = c.flip]) IN
       IF c.stage = "refused" THEN switches' = turned /\ UNCHANGED <<listing, page, stamp, displaced>>
       ELSE /\ listing' = [arr |-> NextStamp, rows |-> Loaded(c)]
            /\ switches' = [i \in Items |->
                   IF i \in OnPage(Loaded(c), page) /\ turned[i] # NoSwitch THEN turned[i]
                   ELSE Remounted(Loaded(c), page)[i]]
            /\ stamp' = NextStamp /\ UNCHANGED <<page, displaced>>
    /\ calls' = calls \ {c} /\ tableLoading' = FALSE
    /\ UNCHANGED <<rowCount, orderBy, searching>>
    /\ Lowered /\ CheckDoubled

SearchAnswered(c) ==
    /\ Here(c) /\ c.kind = "search"
    /\ IF c.stage = "refused" THEN UNCHANGED <<screen, stamp, displaced>>
       ELSE /\ Show(IF table \in InPlace THEN Born(c.data) ELSE c.data, 1)
            /\ rowCount' = IF table = "air tokens" THEN Counted(c.data, c.at) ELSE rowCount
    /\ calls' = calls \ {c}
    /\ IF table \in BerryTables THEN tableLoading' = FALSE /\ UNCHANGED searching
       ELSE searching' = FALSE /\ UNCHANGED tableLoading
    /\ UNCHANGED <<orderBy, disturbed>>
    /\ Lowered

\* the row object of the click is changed in the other requests' lists as well
SharedMark(c, d) ==
    IF table \in InPlace /\ (c.act # "delete" \/ table \in DefaultTables)
    THEN [d EXCEPT !.list.rows = Marked(d.list.rows, c.row, c.mark)] ELSE d

ManageAnswered(c) ==
    /\ Here(c) /\ c.kind = "manage" /\ table \notin BerryTables /\ c.stage = "back"
    /\ Show(ManagedRows(c), page)
    /\ rowCount' = IF table = "air tokens" THEN Counted(ManagedRows(c), c.at) ELSE rowCount
    /\ calls' = {SharedMark(c, d) : d \in calls \ {c}}
    /\ tableLoading' = (tableLoading /\ "manage" \notin PagingOf.loader)
    /\ UNCHANGED <<orderBy, searching, disturbed>>
    /\ Lowered

\* air: manageX(...).then(() => removeRecord(...)), of the list at the click
removeRecord(c) ==
    /\ Show(Without(c.list.rows, c.row.id), page)
    /\ rowCount' = IF table = "air tokens" THEN Counted(Without(c.list.rows, c.row.id), c.at)
                ELSE rowCount

RemovedAfterRefusal(c) == table \in AirTables /\ c.act = "delete"
ManageRefused(c) ==
    /\ Here(c) /\ c.kind = "manage" /\ table \notin BerryTables /\ c.stage = "refused"
    /\ IF RemovedAfterRefusal(c) THEN removeRecord(c)
       ELSE UNCHANGED <<screen, stamp, displaced>>
    /\ calls' = calls \ {c}
    /\ tableLoading' = (tableLoading /\ "manage" \notin PagingOf.loader)
    /\ UNCHANGED <<orderBy, searching, disturbed>>
    /\ Lowered

ManageAnsweredInBerry(c) ==
    /\ Here(c) /\ c.kind = "manage" /\ table \in BerryTables
    /\ LET reload == c.stage = "back" /\ Reloaded(c) >= 0 IN
       /\ calls' = (calls \ {c}) \cup
            (IF reload THEN {[TableRequest(c.n, "reload", c.list, c.at) EXCEPT
                                  !.p = Reloaded(c), !.row = c.row, !.flip = c.act]} ELSE {})
       /\ tableLoading' = (tableLoading \/ reload)
       /\ switches' = IF c.stage = "back" /\ ~reload THEN Switched(c) ELSE switches
    /\ UNCHANGED <<listing, page, rowCount, orderBy, searching, stamp, displaced, disturbed, lostLoaders>>

PurgeAnswered(c) ==
    /\ Here(c) /\ c.kind = "purge"
    /\ IF c.stage = "refused" THEN calls' = calls \ {c} /\ UNCHANGED tableLoading
       ELSE /\ calls' = (calls \ {c}) \cup
                  {[TableRequest(c.n, "load", c.list, c.at) EXCEPT !.p = c.at - 1]}
            /\ tableLoading' = TRUE
    /\ UNCHANGED <<screen, orderBy, searching, lostLoaders, stamp, displaced, disturbed>>

\* the handler ends there, without lowering its loader, but for one try and catch
LoaderOf(c) ==
    IF c.kind = "search" /\ table \notin BerryTables THEN {"search"}
    ELSE IF c.kind \in {"load", "reload", "search"} \/ c.kind \in PagingOf.loader THEN {"table"}
    ELSE {}
Lost(c) ==
    /\ Trouble
    /\ calls' = calls \ {c}
    /\ IF c.kind = "search" /\ table = "air channels"
       THEN searching' = FALSE /\ UNCHANGED lostLoaders
       ELSE UNCHANGED searching /\ lostLoaders' = lostLoaders \cup LoaderOf(c)
    /\ UNCHANGED <<table, server, screen, orderBy, tableLoading, stamp, displaced>>

\* the program disables a channel, a code is redeemed, another administrator ...
Automatic == ChannelTables \cup TokenTables \cup RedemptionTables
OutsideChange(i) ==
    /\ Trouble
    /\ \E status \in {"gone"} \cup (IF table \in Automatic THEN {"auto"} ELSE {"off"}) :
        /\ items[i] = "on" \/ (status = "gone" /\ items[i] # "gone")
        /\ items' = [items EXCEPT ![i] = status]
        /\ hadStatus' = [hadStatus EXCEPT ![i] = @ \cup {status}]
    /\ UNCHANGED <<table, screen, orderBy, loaders, calls, stamp, displaced>>

-----------------------------------------------------------------------------
\* the page was mounted, and loads its first page; berry's logs are loaded twice
TablesInit ==
    /\ table \in Tables
    /\ items = [i \in Items |-> "on"] /\ hadStatus = [i \in Items |-> {"on"}]
    /\ listing = NoList /\ page = 1 /\ rowCount = IF table \in AirTables THEN ITEMS_PER_PAGE ELSE 0
    /\ switches = [i \in Items |-> NoSwitch]
    /\ orderBy = FALSE /\ tableLoading = TRUE /\ searching = FALSE /\ lostLoaders = {}
    /\ calls = {[TableRequest(n, "load", NoList, 1) EXCEPT !.p = 0] :
                    n \in 1..(IF table = "berry logs" THEN 2 ELSE 1)}
    /\ stamp = 0 /\ displaced = FALSE /\ disturbed = FALSE
    /\ events = 0

TablesNext ==
    \/ \E k \in PagesOffered : GoToPage(k)
    \/ RefreshTable \/ SearchBlank \/ SearchKeyword \/ handleOrderByChange \/ SortRows
    \/ \E k \in 1..ITEMS_PER_PAGE, act \in DOMAIN Asked : Manage(k, act)
    \/ deleteAllDisabledChannels
    \/ \E c \in calls :
        \/ Queried(c) \/ Done(c) \/ Refused(c) \/ Purged(c) \/ Failed(c)
        \/ LoadAnswered(c) \/ LoadThenSwitch(c) \/ SearchAnswered(c)
        \/ ManageAnswered(c) \/ ManageRefused(c) \/ ManageAnsweredInBerry(c) \/ PurgeAnswered(c)
        \/ Lost(c)
    \/ \E i \in Items : OutsideChange(i)

TablesSpec == TablesInit /\ [][TablesNext]_tableVars

-----------------------------------------------------------------------------
(* Properties *)

ShownStatus(r) == IF table \in BerryTables THEN switches[r.id][1] ELSE r.status
OnScreen == {PageOf(listing.rows, page)[k] : k \in DOMAIN PageOf(listing.rows, page)}

TablesTypeOK ==
    /\ table \in Tables /\ page \in Nat \ {0} /\ rowCount \in Nat
    /\ items \in [Items -> Statuses] /\ hadStatus \in [Items -> SUBSET Statuses]
    /\ \A k \in DOMAIN listing.rows : listing.rows[k].id \in Items /\ listing.rows[k].status \in Statuses
    /\ {orderBy, tableLoading, searching, displaced, disturbed} \subseteq BOOLEAN
    /\ \A r \in OnScreen : table \in BerryTables => switches[r.id] # NoSwitch
    /\ Cardinality({c.n : c \in calls}) = Cardinality(calls) /\ Cardinality(calls) <= MaxUnderWay
    /\ events <= MaxEvents

\* an answer marks the row that it is about, whatever was loaded, sorted or paged
\* meanwhile: a status that a row shows is one that its item had.  It fails in
\* default's channels, where the answer is applied by position, once another row
\* has come there; and for channels that are gone, whose update is answered as a
\* success
MarksAreReal ==
    \A r \in OnScreen :
        \/ ShownStatus(r) \in hadStatus[r.id]
        \/ table = "default channels" /\ displaced
        \/ table \in ChannelTables /\ items[r.id] = "gone"

\* one administrator who waits for every answer sees what is so: the row of an item
\* shows its status.  Not so in berry, where a switch that was turned is forgotten
\* when the page is left, because the list keeps the old status; nor once an item is
\* in two rows, because a page was loaded again into a list that was sorted, searched
\* or appended to: only one of them is marked.  The row of an item that was deleted
\* may stay, because an empty page replaces nothing
Forgetful == {"berry channels", "berry tokens", "berry redemptions"}
TrueWhenUndisturbed ==
    calls = {} /\ ~disturbed /\ table \notin Forgetful =>
        \A r \in OnScreen : items[r.id] # "gone" => ShownStatus(r) = items[r.id]

\* a loader turns only for a request under way, or for one that was lost
TableSpinner ==
    /\ tableLoading => "table" \in lostLoaders \/ \E c \in calls : "table" \in LoaderOf(c)
    /\ searching => "search" \in lostLoaders \/ \E c \in calls : "search" \in LoaderOf(c)

\* what a table shows, rows and loaders, is so or is about to be answered
TablesAreTrue == MarksAreReal /\ TrueWhenUndisturbed /\ TableSpinner
=============================================================================
