SPECIFICATION Spec
CONSTANTS
    MaxLocalDay = 2
    Margin = 1
    NoDate = NoDate
    Games = {1, 2}
    Products = {1}
    Dates <- MCDates
    Calendars <- MCCalendars
    Skews <- MCSkews
    PageSize = 1
    Start = 0
    MaxNow = 1
    MaxMoves = 1
INVARIANTS TypeOK EachGameIsShownOnce
