SPECIFICATION Spec
CONSTANTS
  lamp = lamp
  desk = desk
  t1 = t1
  t2 = t2
  Tabs = {t1, t2}
  Titles = {lamp, desk}
  Null = Null
  Edited = Edited
  Managed = {1}
  MaxListings = 2
  MaxOrphans = 1
SYMMETRY Symmetry
INVARIANTS
  TypeOK
  DetailsOfTheirListing
  PostedIsManaged
PROPERTY WithdrawnStaysWithdrawn
CHECK_DEADLOCK FALSE
