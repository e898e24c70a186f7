\* Two users: one purges the target or the suite that the other restores.
SPECIFICATION CatalogSpec
CONSTANTS
    Users = {u1, u2}
    Documents = {d1}
    MaxEdits = 0
    MaxUses = 0
PROPERTIES PurgeTakesArchived
CHECK_DEADLOCK FALSE
