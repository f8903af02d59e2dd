SPECIFICATION Spec
CONSTANTS
    film = film
    show = show
    anime = anime
    Items = {film, show, anime}
    Category <- CategoryOf
    Resolution = 2
    MaxTime = 7
    MaxFaults = 0
INVARIANT WindowComplete
CHECK_DEADLOCK FALSE
