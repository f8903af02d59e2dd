SPECIFICATION Spec
CONSTANTS
    film = film
    show = show
    anime = anime
    Items = {film, show, anime}
    Category <- CategoryOf
    Resolution = 1
    MaxTime = 9
    MaxFaults = 1
INVARIANT WindowComplete
INVARIANT NothingBehind
CHECK_DEADLOCK FALSE
